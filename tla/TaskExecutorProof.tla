--------------------------- MODULE TaskExecutorProof ---------------------------
(***************************************************************************)
(* What holds of TaskExecutor for any number of handlers, callers, timers   *)
(* and items, both kinds of executor and every failure.                     *)
(***************************************************************************)
EXTENDS TaskExecutor, TLAPS

Ticks == [pc : {"none", "check"} \cup Checked \cup Body, left : 0..MaxItems,
          late : Nat, old : BOOLEAN]

\* A push that is due has an item.
PushHasItem == \A t \in Tick : At(t, "push") => tick[t].left > 0

TypeInv == TypeOK /\ PushHasItem

LEMMA TypeInit == Init => TypeInv
  <1> SUFFICES ASSUME Init PROVE TypeInv
    OBVIOUS
  <1>1. NoTick \in Ticks /\ NoTick.pc = "none"
    BY ExecutorAssumption DEF NoTick, Ticks
  <1>2. tick \in [Tick -> Ticks] /\ PushHasItem
    BY <1>1 DEF Init, PushHasItem, At
  <1>3. timer \in 0..MaxTimers /\ starting \in 0..MaxTimers
    BY ExecutorAssumption DEF Init, NoTimer
  <1> QED
    BY <1>2, <1>3, Zenon DEF Init, TypeInv, TypeOK, Ticks

\* The steps of a handler that only move it.
LEMMA GoToTypes ==
    ASSUME TypeInv, NEW t \in Tick, NEW pc \in {"none", "check"} \cup Checked \cup Body,
           GoTo(t, pc), pc = "push" => tick[t].left > 0,
           UNCHANGED <<control, stopImmediately>>,
           executing' \in BOOLEAN, raced' \in BOOLEAN
    PROVE  TypeInv'
  BY DEF TypeInv, TypeOK, PushHasItem, At, GoTo, control, Timers

LEMMA EndTickTypes ==
    ASSUME TypeInv, NEW t \in Tick, tick' = [tick EXCEPT ![t] = NoTick],
           UNCHANGED <<control, stopImmediately>>,
           executing' \in BOOLEAN, raced' \in BOOLEAN
    PROVE  TypeInv'
  BY ExecutorAssumption
  DEF TypeInv, TypeOK, PushHasItem, At, NoTick, control, Timers, Checked, Body

LEMMA ControlTypes ==
    ASSUME TypeInv, NEW c \in Caller,
           Start(c) \/ StartTimer \/ ForgetTimer(c) \/ \E b \in BOOLEAN : Stop(c, b)
    PROVE  TypeInv'
  <1>1. CASE Start(c)
    BY <1>1, ExecutorAssumption
    DEF Start, TypeInv, TypeOK, PushHasItem, At, Timers, Unused, NoTimer
  <1>2. CASE StartTimer
    BY <1>2, ExecutorAssumption
    DEF StartTimer, TypeInv, TypeOK, PushHasItem, At, Timers, NoTimer
  <1>3. CASE ForgetTimer(c)
    BY <1>3, ExecutorAssumption
    DEF ForgetTimer, TypeInv, TypeOK, PushHasItem, At, Timers, NoTimer
  <1>4. ASSUME NEW b \in BOOLEAN, Stop(c, b) PROVE TypeInv'
    <2>1. \A t \in Tick : /\ tick'[t] \in Ticks
                          /\ tick'[t].pc = tick[t].pc /\ tick'[t].left = tick[t].left
      BY <1>4 DEF Stop, TypeInv, TypeOK, Ticks, Executes
    <2>2. tick' \in [Tick -> Ticks] /\ PushHasItem'
      BY <1>4, <2>1 DEF Stop, TypeInv, PushHasItem, At
    <2> QED
      BY <1>4, <2>2 DEF Stop, TypeInv, TypeOK, Ticks, Timers
  <1> QED
    BY <1>1, <1>2, <1>3, <1>4

LEMMA StartTimerTypes == TypeInv /\ StartTimer => TypeInv'
  BY ExecutorAssumption
  DEF StartTimer, TypeInv, TypeOK, PushHasItem, At, Timers, NoTimer

LEMMA TickTypes ==
    ASSUME TypeInv, NEW t \in Tick, Elapse(t) \/ Run(t)
    PROVE  TypeInv'
  <1> USE DEF Checked, Body
  <1>0. /\ executing \in BOOLEAN /\ raced \in BOOLEAN /\ stopImmediately \in BOOLEAN
        /\ tick \in [Tick -> Ticks]
    BY DEF TypeInv, TypeOK, Ticks
  <1>1. CASE Elapse(t)
    BY <1>0, <1>1, GoToTypes DEF Elapse
  <1>2. CASE CheckExecuting(t)
    <2>1. raced' \in BOOLEAN
      BY <1>0, <1>2 DEF CheckExecuting
    <2> QED
      BY <1>0, <1>2, <2>1, GoToTypes, EndTickTypes DEF CheckExecuting
  <1>3. CASE Conditional(t)
    BY <1>0, <1>3, GoToTypes, EndTickTypes DEF Conditional
  <1>4. CASE Enter(t)
    BY <1>0, <1>4, GoToTypes DEF Enter, TypeInv, TypeOK
  <1>5. CASE Action(t)
    BY <1>0, <1>5, GoToTypes DEF Action
  <1>6. CASE Query(t)
    <2>1. PICK n \in 0..MaxItems : tick' = [tick EXCEPT ![t].pc = "loop", ![t].left = n]
      BY <1>6 DEF Query
    <2>2. tick' \in [Tick -> Ticks] /\ \A u \in Tick : tick'[u].pc = "push" => tick'[u] = tick[u]
      BY <1>0, <2>1 DEF Ticks
    <2> QED
      BY <1>6, <2>2 DEF Query, TypeInv, TypeOK, Ticks, PushHasItem, At, control, Timers
  <1>7. CASE Loop(t)
    BY <1>0, <1>7, GoToTypes DEF Loop, Ticks
  <1>8. CASE PushItem(t)
    BY <1>8, ExecutorAssumption
    DEF PushItem, TypeInv, TypeOK, PushHasItem, At, control, Timers
  <1>9. CASE SequenceAfter(t)
    BY <1>0, <1>9, GoToTypes DEF SequenceAfter
  <1>10. CASE After(t)
    BY <1>0, <1>10, GoToTypes DEF After
  <1>11. CASE Fail(t)
    BY <1>0, <1>11, GoToTypes DEF Fail
  <1>12. CASE OnError(t)
    BY <1>0, <1>12, GoToTypes DEF OnError
  <1>13. CASE Reset(t)
    BY <1>0, <1>13, EndTickTypes DEF Reset
  <1> QED
    BY <1>1, <1>2, <1>3, <1>4, <1>5, <1>6, <1>7, <1>8, <1>9, <1>10, <1>11, <1>12, <1>13
    DEF Run

LEMMA TypeStep == TypeInv /\ [Next]_vars => TypeInv'
  <1> SUFFICES ASSUME TypeInv, [Next]_vars PROVE TypeInv'
    OBVIOUS
  <1>1. CASE UNCHANGED vars
    BY <1>1 DEF vars, control, TypeInv, TypeOK, PushHasItem, At, Timers
  <1>2. CASE Next
    BY <1>2, ControlTypes, StartTimerTypes, TickTypes DEF Next
  <1> QED
    BY <1>1, <1>2

LEMMA TypeAlways == Spec => []TypeInv
  BY TypeInit, TypeStep, PTL DEF Spec

\* Every variable of the executor keeps its type.
THEOREM TypeCorrect == Spec => []TypeOK
  BY TypeAlways, PTL DEF TypeInv

-------------------------------------------------------------------------------
(* One execution unless two ticks raced *)

\* A tick that passed the test of _executing and has not reset it.
Passed(t) == tick[t].pc \in Checked \cup Body

ExecutionInv ==
    ~ raced => /\ executing <=> \E t \in Tick : Executes(t)
               /\ \A t, u \in Tick : Passed(t) /\ Passed(u) => t = u

LEMMA ExecutionInit == Init => ExecutionInv
  BY DEF Init, ExecutionInv, Passed, Executes, NoTick, Checked, Body

\* A step of the one tick that passed, which goes on executing.
LEMMA PassedMoves ==
    ASSUME TypeOK, ExecutionInv, NEW t \in Tick, NEW pc \in Body, Executes(t),
           tick' \in [Tick -> Ticks], tick'[t].pc = pc,
           \A u \in Tick \ {t} : tick'[u] = tick[u],
           UNCHANGED <<executing, raced>>
    PROVE  ExecutionInv'
  BY DEF ExecutionInv, Passed, Executes

LEMMA ExecutionStep == TypeInv /\ TypeInv' /\ ExecutionInv /\ [Next]_vars => ExecutionInv'
  <1> SUFFICES ASSUME TypeInv, TypeInv', ExecutionInv, [Next]_vars PROVE ExecutionInv'
    OBVIOUS
  <1>0. tick \in [Tick -> Ticks] /\ tick' \in [Tick -> Ticks] /\ TypeOK
    BY DEF TypeInv, TypeOK, Ticks
  <1>1. CASE UNCHANGED <<executing, raced, tick>>
    BY <1>1 DEF ExecutionInv, Passed, Executes
  <1>2. ASSUME NEW c \in Caller, NEW b \in BOOLEAN, Stop(c, b) PROVE ExecutionInv'
    <2>1. \A t \in Tick : tick'[t].pc = tick[t].pc
      BY <1>0, <1>2 DEF Stop, Ticks, Executes
    <2> QED
      BY <1>2, <2>1 DEF Stop, ExecutionInv, Passed, Executes
  <1>3. ASSUME NEW t \in Tick, Elapse(t) PROVE ExecutionInv'
    <2>1. tick' = [tick EXCEPT ![t].pc = "check"] /\ tick[t].pc = "none"
      BY <1>3 DEF Elapse, GoTo, At
    <2> QED
      BY <1>0, <1>3, <2>1 DEF Elapse, ExecutionInv, Passed, Executes, Checked, Body, Ticks
  <1>4. ASSUME NEW t \in Tick, CheckExecuting(t) PROVE ExecutionInv'
    <2>1. CASE executing
      BY <1>0, <1>4, <2>1
      DEF CheckExecuting, At, NoTick, ExecutionInv, Passed, Executes, Checked, Body
    <2>2. CASE ~ executing
      <3>1. /\ tick'[t].pc = "conditional" /\ tick[t].pc = "check"
            /\ \A u \in Tick \ {t} : tick'[u] = tick[u]
            /\ executing' = executing
        BY <1>0, <1>4, <2>2 DEF CheckExecuting, At, GoTo, Ticks
      <3>2. ~ raced' => ~ raced /\ \A u \in Tick \ {t} : tick[u].pc \notin Checked
        BY <1>4, <2>2 DEF CheckExecuting, Racing
      <3>3. ~ raced' => \A u \in Tick \ {t} : ~ Passed(u)
        BY <2>2, <3>2 DEF ExecutionInv, Passed, Executes
      <3> QED
        BY <2>2, <3>1, <3>2, <3>3 DEF ExecutionInv, Passed, Executes, Checked, Body
    <2> QED
      BY <2>1, <2>2
  <1>5. ASSUME NEW t \in Tick, Conditional(t) PROVE ExecutionInv'
    BY <1>0, <1>5
    DEF Conditional, At, GoTo, NoTick, ExecutionInv, Passed, Executes, Checked, Body, Ticks
  <1>6. ASSUME NEW t \in Tick, Enter(t) PROVE ExecutionInv'
    <2>1. Executes(t)' /\ Passed(t) /\ \A u \in Tick \ {t} : tick'[u] = tick[u]
      BY <1>0, <1>6 DEF Enter, At, GoTo, Passed, Executes, Checked, Body, Ticks
    <2> QED
      BY <1>6, <2>1 DEF Enter, ExecutionInv, Passed, Executes
  <1>7. ASSUME NEW t \in Tick,
               Action(t) \/ Query(t) \/ Loop(t) \/ PushItem(t) \/ SequenceAfter(t)
               \/ After(t) \/ Fail(t) \/ OnError(t)
        PROVE  ExecutionInv'
    <2>1. /\ Executes(t) /\ tick'[t].pc \in Body
          /\ \A u \in Tick \ {t} : tick'[u] = tick[u]
          /\ UNCHANGED <<executing, raced>>
      BY <1>0, <1>7
      DEF Action, Query, Loop, PushItem, SequenceAfter, After, Fail, OnError, At, GoTo,
          Executes, Body, Ticks
    <2> QED
      BY <1>0, <2>1, PassedMoves
  <1>8. ASSUME NEW t \in Tick, Reset(t) PROVE ExecutionInv'
    BY <1>0, <1>8
    DEF Reset, At, NoTick, ExecutionInv, Passed, Executes, Checked, Body
  <1>9. CASE Next
    <2>1. ASSUME NEW c \in Caller, Start(c) \/ ForgetTimer(c) PROVE ExecutionInv'
      BY <1>1, <2>1 DEF Start, ForgetTimer
    <2>2. CASE StartTimer
      BY <1>1, <2>2 DEF StartTimer
    <2> QED
      BY <1>2, <1>3, <1>4, <1>5, <1>6, <1>7, <1>8, <1>9, <2>1, <2>2 DEF Next, Run
  <1> QED
    BY <1>1, <1>9 DEF vars

\* _executing means that the one execution is running, whatever failed and however often
\* the executor was stopped and started, unless two ticks passed the unlocked test together.
THEOREM OneExecution == Spec => []OneExecutionUnlessRaced
  <1>1. ExecutionInv => OneExecutionUnlessRaced
    BY DEF ExecutionInv, OneExecutionUnlessRaced, Passed, Executes
  <1> QED
    BY <1>1, TypeAlways, ExecutionInit, ExecutionStep, PTL DEF Spec

-------------------------------------------------------------------------------
(* Stop(true) *)

StopInv ==
    \A t \in Tick :
        /\ tick[t].late \in {0, 1}
        /\ tick[t].late = 1 => tick[t].old /\ stopImmediately
        /\ At(t, "push") /\ stopImmediately => tick[t].old /\ tick[t].late = 0

LEMMA StopInit == Init => StopInv
  <1>1. NoTick.late = 0 /\ NoTick.pc = "none"
    BY DEF NoTick
  <1>2. ASSUME Init, NEW t \in Tick
        PROVE  /\ tick[t].late \in {0, 1} /\ tick[t].late # 1
               /\ ~ At(t, "push")
    <2>1. tick[t] = NoTick
      BY <1>2 DEF Init
    <2> QED
      BY <1>1, <2>1 DEF At
  <1> QED
    BY <1>2, Zenon DEF StopInv

LEMMA StopStep == TypeInv /\ TypeInv' /\ StopInv /\ [Next]_vars => StopInv'
  <1> SUFFICES ASSUME TypeInv, TypeInv', StopInv, [Next]_vars PROVE StopInv'
    OBVIOUS
  <1>0. /\ tick \in [Tick -> Ticks] /\ tick' \in [Tick -> Ticks]
        /\ stopImmediately \in BOOLEAN
    BY DEF TypeInv, TypeOK, Ticks
  <1>1. CASE UNCHANGED <<stopImmediately, tick>>
    BY <1>1 DEF StopInv, At
  <1>2. ASSUME NEW c \in Caller, NEW b \in BOOLEAN, Stop(c, b) PROVE StopInv'
    <2>1. CASE b /\ ~ stopImmediately
      <3>1. \A t \in Tick : /\ tick'[t].pc = tick[t].pc /\ tick'[t].late = tick[t].late
                            /\ tick'[t].old = Executes(t)
        BY <1>0, <1>2, <2>1 DEF Stop, Ticks
      <3>2. \A t \in Tick : tick[t].late = 0
        BY <1>0, <2>1 DEF StopInv, Ticks
      <3>3. \A t \in Tick : tick'[t].pc = "push" => tick'[t].old
        BY <3>1 DEF Executes, Body
      <3>4. \A t \in Tick : tick'[t].late = 0
        BY <3>1, <3>2
      <3> QED
        BY <3>3, <3>4 DEF StopInv, At
    <2>2. CASE ~ (b /\ ~ stopImmediately)
      <3>1. tick' = tick /\ stopImmediately' = stopImmediately
        <4>1. tick' = [t \in Tick |-> tick[t]]
          BY <1>2, <2>2 DEF Stop
        <4> QED
          BY <1>0, <1>2, <2>2, <4>1 DEF Stop
      <3> QED
        BY <1>1, <3>1
    <2> QED
      BY <2>1, <2>2
  <1>3. ASSUME NEW t \in Tick, PushItem(t) PROVE StopInv'
    <2>1. /\ stopImmediately' = stopImmediately /\ At(t, "push")
          /\ \A u \in Tick \ {t} : tick'[u] = tick[u]
          /\ tick'[t].pc = "loop" /\ tick'[t].old = tick[t].old
          /\ tick'[t].late = IF stopImmediately THEN tick[t].late + 1 ELSE tick[t].late
      BY <1>0, <1>3 DEF PushItem, Ticks
    <2> QED
      BY <1>0, <2>1 DEF StopInv, At, Ticks
  <1>4. ASSUME NEW t \in Tick, UNCHANGED stopImmediately,
               \A u \in Tick \ {t} : tick'[u] = tick[u],
               \/ tick'[t] = NoTick
               \/ /\ tick'[t].late = tick[t].late /\ tick'[t].old = tick[t].old
                  /\ tick'[t].pc = "push" => ~ stopImmediately
        PROVE  StopInv'
    BY <1>0, <1>4 DEF StopInv, At, NoTick
  <1>5. ASSUME NEW t \in Tick, Elapse(t) \/ Run(t), ~ PushItem(t)
        PROVE  /\ UNCHANGED stopImmediately
               /\ \A u \in Tick \ {t} : tick'[u] = tick[u]
               /\ \/ tick'[t] = NoTick
                  \/ /\ tick'[t].late = tick[t].late /\ tick'[t].old = tick[t].old
                     /\ tick'[t].pc = "push" => ~ stopImmediately
    <2>1. CASE Elapse(t)
      BY <1>0, <2>1 DEF Elapse, GoTo, Ticks
    <2>2. CASE CheckExecuting(t) \/ Conditional(t) \/ Reset(t)
      BY <1>0, <2>2 DEF CheckExecuting, Conditional, Reset, GoTo, Ticks
    <2>3. CASE Enter(t) \/ Action(t) \/ SequenceAfter(t) \/ After(t) \/ Fail(t) \/ OnError(t)
      BY <1>0, <2>3 DEF Enter, Action, SequenceAfter, After, Fail, OnError, GoTo, Ticks
    <2>4. CASE Query(t)
      BY <1>0, <2>4 DEF Query, Ticks
    <2>5. CASE Loop(t)
      BY <1>0, <2>5 DEF Loop, GoTo, Ticks
    <2> QED
      BY <1>5, <2>1, <2>2, <2>3, <2>4, <2>5 DEF Run
  <1>6. CASE Next
    <2>1. ASSUME NEW c \in Caller, Start(c) \/ ForgetTimer(c) PROVE StopInv'
      BY <1>1, <2>1 DEF Start, ForgetTimer
    <2>2. CASE StartTimer
      BY <1>1, <2>2 DEF StartTimer
    <2>3. ASSUME NEW t \in Tick, Elapse(t) \/ Run(t) PROVE StopInv'
      BY <1>3, <1>4, <1>5, <2>3
    <2> QED
      BY <1>2, <1>6, <2>1, <2>2, <2>3 DEF Next
  <1> QED
    BY <1>1, <1>6 DEF vars

\* After Stop(true) the running execution pushes at most one more item and later ones none.
THEOREM StopIsImmediate == Spec => []ImmediateStop
  <1>1. TypeInv /\ StopInv => ImmediateStop
    <2> SUFFICES ASSUME TypeInv, StopInv, NEW t \in Tick
                 PROVE  tick[t].late <= IF tick[t].old THEN 1 ELSE 0
      BY DEF ImmediateStop
    <2>1. tick[t].old \in BOOLEAN
      BY DEF TypeInv, TypeOK
    <2>2. CASE tick[t].old = TRUE
      BY <2>2 DEF StopInv
    <2>3. CASE tick[t].old = FALSE
      BY <2>3 DEF StopInv
    <2> QED
      BY <2>1, <2>2, <2>3
  <1> QED
    BY <1>1, TypeAlways, StopInit, StopStep, PTL DEF Spec

-------------------------------------------------------------------------------
(* No orphaned timers *)

TimerInv ==
    ~ overlapped =>
        /\ \A n \in Timers : timers[n] # "none" => n = timer
        /\ (\E c \in Caller : caller[c] # "idle") => \A n \in Timers : timers[n] = "none"

LEMMA TimerInit == Init => TimerInv
  BY DEF Init, TimerInv

LEMMA TimerStep == TypeInv /\ TimerInv /\ [Next]_vars => TimerInv'
  <1> SUFFICES ASSUME TypeInv, TimerInv, [Next]_vars PROVE TimerInv'
    OBVIOUS
  <1>0. /\ timers \in [Timers -> {"none", "created", "enabled"}]
        /\ caller \in [Caller -> {"idle", "stopped"}]
        /\ overlapped \in BOOLEAN /\ timer \in 0..MaxTimers
    BY DEF TypeInv, TypeOK
  <1>1. CASE UNCHANGED control
    BY <1>1 DEF control, TimerInv
  <1>2. ASSUME NEW c \in Caller, Start(c) PROVE TimerInv'
    <2>1. ~ overlapped' => /\ ~ overlapped /\ timer = 0
                           /\ \A d \in Caller : caller[d] = "idle" /\ caller'[d] = "idle"
      BY <1>2 DEF Start, NoTimer
    <2>2. ~ overlapped' => \A n \in Timers : timers[n] = "none"
      BY <2>1, ExecutorAssumption DEF TimerInv, Timers
    <2>3. PICK n \in Timers : timer' = n /\ timers' = [timers EXCEPT ![n] = "created"]
      BY <1>2 DEF Start, Unused
    <2> QED
      BY <1>0, <2>1, <2>2, <2>3 DEF TimerInv
  <1>3. CASE StartTimer
    BY <1>0, <1>3, ExecutorAssumption DEF StartTimer, TimerInv, Timers, NoTimer
  <1>4. ASSUME NEW c \in Caller, NEW b \in BOOLEAN, Stop(c, b) PROVE TimerInv'
    BY <1>0, <1>4 DEF Stop, TimerInv
  <1>5. ASSUME NEW c \in Caller, ForgetTimer(c) PROVE TimerInv'
    BY <1>0, <1>5 DEF ForgetTimer, TimerInv
  <1>6. ASSUME NEW t \in Tick, Elapse(t) \/ Run(t) PROVE UNCHANGED control
    BY <1>6
    DEF Elapse, Run, CheckExecuting, Conditional, Enter, Action, Query, Loop, PushItem,
        SequenceAfter, After, Fail, OnError, Reset
  <1> QED
    BY <1>1, <1>2, <1>3, <1>4, <1>5, <1>6 DEF Next, vars

\* Only a Start that meets a timer in use or a Stop on its way can make a timer that no
\* Stop will ever stop.
THEOREM NoOrphan == Spec => []OrphanOnlyByOverlap
  <1>1. TypeInv /\ TimerInv => OrphanOnlyByOverlap
    BY DEF TypeInv, TypeOK, TimerInv, OrphanOnlyByOverlap
  <1> QED
    BY <1>1, TypeAlways, TimerInit, TimerStep, PTL DEF Spec
================================================================================
