------------------------------ MODULE TaskExecutor ------------------------------
(***************************************************************************)
(* TaskExecutorBase with TaskSequentialExecutor and TaskSimpleExecutor: a   *)
(* timer whose Elapsed handler runs on pool threads, several at a time, and *)
(* guards the execution by the flag _executing without the lock that is     *)
(* commented out.  Start and Stop are called by the application; the timer  *)
(* is started from a pool task.                                             *)
(*                                                                         *)
(* A handler that is running is a tick.  Between two awaits a tick is       *)
(* interleaved with the others, with Start and with Stop.                   *)
(***************************************************************************)
EXTENDS Integers

CONSTANTS
    Tick,           \* handlers that may run at a time
    Caller,         \* threads of the application that call Start and Stop
    MaxTimers,      \* timers, and tasks of StartNew, at a time
    MaxItems,       \* bound on the items the query of a sequential executor returns
    Kinds,          \* executors considered: "sequential", "simple"
    HasAfter,       \* whether Options.AfterExecution is set
    MayFail         \* whether the query, the commands and the hooks may throw

ASSUME ExecutorAssumption ==
    /\ MaxTimers \in Nat
    /\ MaxItems \in Nat
    /\ Kinds \subseteq {"sequential", "simple"}
    /\ HasAfter \in BOOLEAN
    /\ MayFail \in BOOLEAN

VARIABLES
    kind,           \* TaskSequentialExecutor or TaskSimpleExecutor
    timer,          \* _timer
    timers,         \* the state of every timer; a disposed one is none
    starting,       \* the tasks of StartNew that have not run
    executing,      \* _executing
    stopImmediately,
    caller,         \* where each call of Stop is
    tick,           \* the handlers
    raced,          \* history: two ticks passed the test of _executing together
    overlapped      \* history: a Start met a timer in use or a Stop on its way

control == <<kind, timer, timers, starting, caller, overlapped>>
vars == <<control, executing, stopImmediately, tick, raced>>

NoTimer == 0
Timers == 1..MaxTimers

\* left: items to push; late: items pushed since Stop(immediate), old: whether the
\* execution had begun by then.
NoTick == [pc |-> "none", left |-> 0, late |-> 0, old |-> FALSE]

At(t, pc) == tick[t].pc = pc
GoTo(t, pc) == tick' = [tick EXCEPT ![t].pc = pc]

Checked == {"conditional", "enter"}
Body == {"query", "loop", "push", "action", "sequenceAfter", "after", "error", "reset"}
Executes(t) == tick[t].pc \in Body

Unused == {n \in Timers : timers[n] = "none" /\ n # timer}

-------------------------------------------------------------------------------
Init ==
    /\ kind \in Kinds
    /\ timer = NoTimer
    /\ timers = [n \in Timers |-> "none"]
    /\ starting = 0
    /\ executing = FALSE
    /\ stopImmediately = FALSE
    /\ caller = [c \in Caller |-> "idle"]
    /\ tick = [t \in Tick |-> NoTick]
    /\ raced = FALSE
    /\ overlapped = FALSE

\* _timer = new Timer(...), Elapsed += ..., StartNew(...)
Start(c) ==
    /\ caller[c] = "idle"
    /\ starting < MaxTimers
    /\ \E n \in Unused :
        /\ timer' = n
        /\ timers' = [timers EXCEPT ![n] = "created"]
    /\ starting' = starting + 1
    /\ overlapped' = (overlapped \/ timer # NoTimer \/ \E d \in Caller : caller[d] # "idle")
    /\ UNCHANGED <<kind, executing, stopImmediately, caller, tick, raced>>

\* The task starts the timer the field holds when it runs; the delay is not awaited.
\* Null or a disposed timer throws in the task, where nobody looks.
StartTimer ==
    /\ starting > 0
    /\ starting' = starting - 1
    /\ timers' = IF timer # NoTimer /\ timers[timer] = "created"
                    THEN [timers EXCEPT ![timer] = "enabled"] ELSE timers
    /\ UNCHANGED <<kind, timer, executing, stopImmediately, caller, tick, raced, overlapped>>

\* the timer is forgotten and goes on
StopSilently(c, immediate) ==
    /\ caller[c] = "idle"
    /\ caller' = [caller EXCEPT ![c] = "stopped"]
    /\ stopImmediately' = (stopImmediately \/ immediate)
    /\ UNCHANGED <<kind, timer, timers, starting, executing, tick, raced, overlapped>>

\* StopImmediately = true, then _timer?.Stop() and _timer?.Dispose()
Stop(c, immediate) ==
    /\ caller[c] = "idle"
    /\ caller' = [caller EXCEPT ![c] = "stopped"]
    /\ timers' = [n \in Timers |-> IF n = timer THEN "none" ELSE timers[n]]
    /\ stopImmediately' = (stopImmediately \/ immediate)
    /\ tick' = [t \in Tick |->
                  IF immediate /\ ~ stopImmediately
                     THEN [tick[t] EXCEPT !.old = Executes(t)] ELSE tick[t]]
    /\ UNCHANGED <<kind, timer, starting, executing, raced, overlapped>>

\* _timer = null
ForgetTimer(c) ==
    /\ caller[c] = "stopped"
    /\ caller' = [caller EXCEPT ![c] = "idle"]
    /\ timer' = NoTimer
    /\ UNCHANGED <<kind, timers, starting, executing, stopImmediately, tick, raced, overlapped>>

-------------------------------------------------------------------------------
(* The Elapsed handler *)

\* An enabled timer elapses; the handler may come to run after the timer is gone.
Elapse(t) ==
    /\ At(t, "none")
    /\ \E n \in Timers : timers[n] = "enabled"
    /\ GoTo(t, "check")
    /\ UNCHANGED <<control, executing, stopImmediately, raced>>

Racing(t) == \E u \in Tick \ {t} : tick[u].pc \in Checked

\* the test of _executing dropped
CheckNothing(t) ==
    /\ At(t, "check")
    /\ GoTo(t, "conditional")
    /\ raced' = (raced \/ Racing(t))
    /\ UNCHANGED <<control, executing, stopImmediately>>

CheckExecuting(t) ==
    /\ At(t, "check")
    /\ IF executing THEN tick' = [tick EXCEPT ![t] = NoTick] /\ UNCHANGED raced
                    ELSE GoTo(t, "conditional") /\ raced' = (raced \/ Racing(t))
    /\ UNCHANGED <<control, executing, stopImmediately>>

Conditional(t) ==
    /\ At(t, "conditional")
    /\ \/ GoTo(t, "enter")
       \/ tick' = [tick EXCEPT ![t] = NoTick]
    /\ UNCHANGED <<control, executing, stopImmediately, raced>>

\* _executing = true; the simple executor looks at StopImmediately once, here.
Enter(t) ==
    /\ At(t, "enter")
    /\ executing' = TRUE
    /\ \/ kind = "sequential" /\ GoTo(t, "query")
       \/ kind = "simple" /\ GoTo(t, IF stopImmediately THEN "after" ELSE "action")
    /\ UNCHANGED <<control, stopImmediately, raced>>

Action(t) ==
    /\ At(t, "action")
    /\ GoTo(t, "after")
    /\ UNCHANGED <<control, executing, stopImmediately, raced>>

\* await Dispatcher.QueryAsync(_query())
Query(t) ==
    /\ At(t, "query")
    /\ \E n \in 0..MaxItems : tick' = [tick EXCEPT ![t].pc = "loop", ![t].left = n]
    /\ UNCHANGED <<control, executing, stopImmediately, raced>>

\* one item too many
LoopTooFar(t) ==
    /\ At(t, "loop")
    /\ GoTo(t, IF stopImmediately THEN "after" ELSE "push")
    /\ UNCHANGED <<control, executing, stopImmediately, raced>>

\* the tests of StopImmediately dropped
LoopOn(t) ==
    /\ At(t, "loop")
    /\ GoTo(t, IF tick[t].left = 0 THEN "sequenceAfter" ELSE "push")
    /\ UNCHANGED <<control, executing, stopImmediately, raced>>

\* After the query and after every command StopImmediately is tested.
Loop(t) ==
    /\ At(t, "loop")
    /\ IF stopImmediately THEN GoTo(t, "after")
       ELSE GoTo(t, IF tick[t].left = 0 THEN "sequenceAfter" ELSE "push")
    /\ UNCHANGED <<control, executing, stopImmediately, raced>>

\* await Dispatcher.PushAsync(cmd)
PushItem(t) ==
    /\ At(t, "push")
    /\ tick' = [tick EXCEPT ![t].pc = "loop", ![t].left = @ - 1,
                            ![t].late = IF stopImmediately THEN @ + 1 ELSE @]
    /\ UNCHANGED <<control, executing, stopImmediately, raced>>

\* The sequential executor calls AfterExecution at the end of its sequence,
SequenceAfter(t) ==
    /\ At(t, "sequenceAfter")
    /\ GoTo(t, "after")
    /\ UNCHANGED <<control, executing, stopImmediately, raced>>

\* the base class after any Execute that returned.
After(t) ==
    /\ At(t, "after")
    /\ GoTo(t, "reset")
    /\ UNCHANGED <<control, executing, stopImmediately, raced>>

\* an exception that skips the reset of _executing
FailForGood(t) ==
    /\ MayFail
    /\ tick[t].pc \in {"query", "push", "action"}
    /\ tick' = [tick EXCEPT ![t] = NoTick]
    /\ UNCHANGED <<control, executing, stopImmediately, raced>>

\* What is awaited throws; so does the hook, where it is set.
Fail(t) ==
    /\ MayFail
    /\ \/ tick[t].pc \in {"query", "push", "action"}
       \/ HasAfter /\ tick[t].pc \in {"sequenceAfter", "after"}
    /\ GoTo(t, "error")
    /\ UNCHANGED <<control, executing, stopImmediately, raced>>

\* await Options.OnError(ex), which only logs
OnError(t) ==
    /\ At(t, "error")
    /\ GoTo(t, "reset")
    /\ UNCHANGED <<control, executing, stopImmediately, raced>>

\* _executing = false
Reset(t) ==
    /\ At(t, "reset")
    /\ executing' = FALSE
    /\ tick' = [tick EXCEPT ![t] = NoTick]
    /\ UNCHANGED <<control, stopImmediately, raced>>

Run(t) ==
    \/ CheckExecuting(t) \/ Conditional(t) \/ Enter(t) \/ Action(t)
    \/ Query(t) \/ Loop(t) \/ PushItem(t) \/ SequenceAfter(t) \/ After(t)
    \/ Fail(t) \/ OnError(t) \/ Reset(t)

Next ==
    \/ \E c \in Caller : \/ Start(c)
                         \/ \E immediate \in BOOLEAN : Stop(c, immediate)
                         \/ ForgetTimer(c)
    \/ StartTimer
    \/ \E t \in Tick : Elapse(t) \/ Run(t)

Spec == Init /\ [][Next]_vars

\* The pool runs what is queued on it, and Stop runs on once called; whether a timer
\* elapses and when the application calls is left open.
FairSpec ==
    /\ Spec
    /\ WF_vars(StartTimer)
    /\ \A c \in Caller : WF_vars(ForgetTimer(c))
    /\ \A t \in Tick : WF_vars(Run(t))

-------------------------------------------------------------------------------
(* Properties *)

\* Every variable has its type.
TypeOK ==
    /\ kind \in Kinds
    /\ timer \in 0..MaxTimers
    /\ timers \in [Timers -> {"none", "created", "enabled"}]
    /\ starting \in 0..MaxTimers
    /\ executing \in BOOLEAN /\ stopImmediately \in BOOLEAN
    /\ caller \in [Caller -> {"idle", "stopped"}]
    /\ tick \in [Tick -> [pc : {"none", "check"} \cup Checked \cup Body, left : 0..MaxItems,
                          late : Nat, old : BOOLEAN]]
    /\ raced \in BOOLEAN /\ overlapped \in BOOLEAN

\* _executing tells whether an execution is running, and there is at most one, for as
\* long as no two ticks passed the test of _executing together: with the lock commented
\* out this is the only way two executions overlap, over restarts and failures too.
OneExecutionUnlessRaced ==
    ~ raced => /\ executing <=> \E t \in Tick : Executes(t)
               /\ \A t, u \in Tick : Executes(t) /\ Executes(u) => t = u

\* After Stop(true) an execution that was running pushes at most one more item, and no
\* execution that begins later pushes any, not even after another Start.
ImmediateStop == \A t \in Tick : tick[t].late <= IF tick[t].old THEN 1 ELSE 0

\* A timer that elapses is the one the field refers to, so Stop can stop it, unless a
\* Start met a timer in use or a Stop on its way.
OrphanOnlyByOverlap ==
    \A n \in Timers : timers[n] = "enabled" => n = timer \/ overlapped

\* _executing never stays set: the next interval finds it reset, whatever failed.
ExecutionEnds == executing ~> ~ executing

\* When the application stopped the executor for good, it becomes quiet, the late task
\* of Start and the handlers of the disposed timer included.
StopQuiesces ==
    <>[](timer = NoTimer /\ ~ overlapped) => <>[](\A t \in Tick : tick[t].pc = "none")
==============================================================================
