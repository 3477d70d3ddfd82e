---------------------------- MODULE SchedulerProof ----------------------------
(***************************************************************************)
(* What holds of Scheduler for any number of rows, tasks, crashes and        *)
(* time-outs, any page size, interval and recurrence.                       *)
(***************************************************************************)
EXTENDS Scheduler, SequenceTheorems, WellFoundedInduction, TLAPS

Rows == [status : Statuses, startsOn : 0..MaxTime, repeat : Int, ran : 0..2, heirs : 0..2]
Jobs == [delay : Delay \cup {"none"}, pc : {"none", "command", "done", "failed"}]

\* Where the execution is agrees with what it has fetched and with the task it waits for.
Control ==
    /\ exec = "wait" =>
          /\ batch # <<>> /\ waits \in Job
          /\ Running(waits) /\ jobs[waits].delay = Head(batch)
    /\ exec # "wait" => waits = NoWait
    /\ exec = "idle" => batch = <<>>
    /\ \A j \in Job : Running(j) => jobs[j].delay \in Delay

TypeInv == TypeOK /\ Control

LEMMA NoWaitIsNoJob == NoWait \notin Job
  BY SchedulerAssumption DEF NoWait

LEMMA TypeInit == Init => TypeInv
  <1> SUFFICES ASSUME Init PROVE TypeInv
    OBVIOUS
  <1>1. NoRow \in Rows
    BY SchedulerAssumption DEF NoRow, Row, Rows, Statuses, Once
  <1>2. batch \in Seq(Delay)
    BY EmptySeq DEF Init
  <1>3. jobs \in [Job -> Jobs] /\ \A j \in Job : ~ Running(j)
    BY DEF Init, NoJob, Jobs, Running
  <1>4. delays \in [Delay -> Rows]
    BY <1>1 DEF Init
  <1>5. /\ 0 \in 0..MaxTime /\ 0 \in 0..MaxCrashes /\ 0 \in 0..MaxTimeOuts
        /\ async \in BOOLEAN
    BY SchedulerAssumption DEF Init
  <1>6. TypeOK
    BY <1>2, <1>3, <1>4, <1>5 DEF Init, TypeOK, Rows, Jobs
  <1> QED
    BY <1>3, <1>6 DEF Init, TypeInv, Control

\* What is left of the fetched rows when the first is finished.
LEMMA RestOfBatch ==
    ASSUME batch \in Seq(Delay), batch # <<>>
    PROVE  /\ Head(batch) \in Delay /\ Head(batch) = batch[1] /\ 1 \in DOMAIN batch
           /\ Tail(batch) \in Seq(Delay)
           /\ \A i \in DOMAIN Tail(batch) :
                 i \in Nat /\ i > 0 /\ i + 1 \in DOMAIN batch /\ Tail(batch)[i] = batch[i + 1]
  <1>1. Len(batch) \in Nat \ {0} /\ DOMAIN batch = 1..Len(batch)
    BY EmptySeq, LenProperties
  <1>2. /\ Head(batch) \in Delay /\ Tail(batch) \in Seq(Delay)
        /\ Len(Tail(batch)) = Len(batch) - 1
        /\ \A i \in 1..Len(Tail(batch)) : Tail(batch)[i] = batch[i + 1]
    BY HeadTailProperties
  <1>3. DOMAIN Tail(batch) = 1..(Len(batch) - 1)
    BY <1>2, LenProperties
  <1> QED
    BY <1>1, <1>2, <1>3

\* A page is a sequence of rows that are due, without duplicates.
LEMMA PageProperties ==
    ASSUME NEW due \in SUBSET Delay, NEW p \in Pages(due)
    PROVE  /\ p \in Seq(Delay)
           /\ \A i \in DOMAIN p : p[i] \in due
           /\ \A i, k \in DOMAIN p : p[i] = p[k] => i = k
  <1>1. PICK n \in 0..FetchSize : p \in [1..n -> due]
    BY DEF Pages
  <1>2. \A i, k \in DOMAIN p : i < k => p[i] # p[k]
    BY DEF Pages
  <1>3. n \in Nat /\ DOMAIN p = 1..n
    BY <1>1, SchedulerAssumption
  <1>4. \A i, k \in DOMAIN p : i < k \/ k < i \/ i = k
    BY <1>3
  <1>5. \A i \in 1..n : p[i] \in due /\ p[i] \in Delay
    BY <1>1
  <1>6. p \in [1..n -> Delay]
    BY <1>1, <1>5
  <1>7. p \in Seq(Delay)
    BY <1>3, <1>6
  <1> QED
    BY <1>2, <1>3, <1>4, <1>5, <1>7

LEMMA LoweredType ==
    ASSUME TypeOK, NEW at \in Nat, at <= MaxTime \/ lastDate # NoDate
    PROVE  Lowered(at) \in {NoDate} \cup 0..MaxTime
  BY SchedulerAssumption DEF TypeOK, Lowered, NoDate

LEMMA EarliestDate ==
    ASSUME NEW D \in SUBSET Nat, D # {}
    PROVE  \E t \in D : \A u \in D : t <= u
  <1> DEFINE less == {ss \in Nat \X Nat : ss[1] < ss[2]}
  <1>1. IsWellFoundedOn(less, Nat)
    BY NatLessThanWellFounded DEF OpToRel
  <1>2. PICK t \in D : \A u \in D : ~ (<<u, t>> \in less)
    BY <1>1, WFMin
  <1>3. \A u \in D : ~ (u < t)
    BY <1>2
  <1> QED
    BY <1>3

\* The date LastDateQuery chooses exists: a set of dates has an earliest one.
LEMMA LastDateQueryType ==
    ASSUME TypeOK
    PROVE  LastDateQuery \in {NoDate} \cup 0..MaxTime
  <1> DEFINE due == {d \in Delay : delays[d].status \in {"new", "error"}
                                   /\ delays[d].startsOn <= now + Slack}
             dates == {delays[d].startsOn : d \in due}
  <1>1. CASE due = {}
    BY <1>1 DEF LastDateQuery
  <1>2. CASE due # {}
    <2>1. \A d \in Delay : delays[d].startsOn \in 0..MaxTime
      BY DEF TypeOK
    <2>2. PICK d \in Delay : d \in due
      BY <1>2
    <2>3. due \subseteq Delay
      OBVIOUS
    <2> HIDE DEF due
    <2>4. dates \in SUBSET (0..MaxTime) /\ delays[d].startsOn \in dates
      BY <2>1, <2>2, <2>3
    <2>5. dates \in SUBSET Nat
      BY <2>4, SchedulerAssumption
    <2>6. \E t \in dates : \A u \in dates : t <= u
      BY <2>4, <2>5, EarliestDate
    <2>7. \E t \in dates : \A e \in due : t <= delays[e].startsOn
      BY <2>6
    <2>8. LastDateQuery = CHOOSE t \in dates : \A e \in due : t <= delays[e].startsOn
      BY <1>2 DEF LastDateQuery, due
    <2>9. LastDateQuery \in dates
      BY <2>7, <2>8
    <2> QED
      BY <2>4, <2>9
  <1> QED
    BY <1>1, <1>2

-------------------------------------------------------------------------------
(* Types *)

LEMMA RowTypes ==
    ASSUME NEW r \in Rows
    PROVE  /\ [r EXCEPT !.ran = IF @ < 2 THEN @ + 1 ELSE @] \in Rows
           /\ \A s \in Statuses : [r EXCEPT !.status = s] \in Rows
           /\ [r EXCEPT !.status = "success", !.heirs = IF @ < 2 THEN @ + 1 ELSE @] \in Rows
  <1>1. r.ran \in 0..2 /\ r.heirs \in 0..2 /\ "success" \in Statuses
    BY DEF Rows, Statuses
  <1>2. (IF r.ran < 2 THEN r.ran + 1 ELSE r.ran) \in 0..2
    BY <1>1
  <1>3. (IF r.heirs < 2 THEN r.heirs + 1 ELSE r.heirs) \in 0..2
    BY <1>1
  <1> QED
    BY <1>1, <1>2, <1>3 DEF Rows

LEMMA EndJobTypes ==
    ASSUME TypeInv, NEW j \in Job, Running(j), EndJob(j) \/ FaultJob(j)
    PROVE  /\ exec' \in {"idle", "items", "wait"}
           /\ batch' \in Seq(Delay)
           /\ waits' \in Job \cup {NoWait}
           /\ jobs' \in [Job -> Jobs]
           /\ Control'
  <1> jobs' = [jobs EXCEPT ![j] = NoJob] /\ NoJob \in Jobs /\ NoJob.pc = "none"
    BY DEF EndJob, FaultJob, NoJob, Jobs
  <1>1. jobs' \in [Job -> Jobs] /\ ~ Running(j)' /\ \A k \in Job \ {j} : jobs'[k] = jobs[k]
    BY DEF TypeInv, TypeOK, Jobs, Running
  <1>2. CASE waits = j
    <2>1. exec = "wait" /\ batch # <<>> /\ batch \in Seq(Delay)
      BY <1>2, NoWaitIsNoJob DEF TypeInv, TypeOK, Control
    <2>2. Tail(batch) \in Seq(Delay) /\ <<>> \in Seq(Delay)
      BY <2>1, RestOfBatch, EmptySeq
    <2> QED
      BY <1>1, <1>2, <2>2 DEF EndJob, FaultJob, TypeInv, Control, Running
  <1>3. CASE waits # j
    BY <1>1, <1>3 DEF EndJob, FaultJob, executor, TypeInv, TypeOK, Control, Running
  <1> QED
    BY <1>2, <1>3

LEMMA ScheduleTypes ==
    ASSUME TypeInv, NEW d \in Delay, NEW at \in 0..MaxTime, NEW repeat \in Repeats,
           Schedule(d, at, repeat)
    PROVE  TypeInv'
  <1>1. Row(at, repeat) \in Rows
    BY SchedulerAssumption DEF Row, Rows, Statuses
  <1>2. delays' \in [Delay -> Rows]
    BY <1>1 DEF Schedule, TypeInv, TypeOK, Rows
  <1>3. lastDate' \in {NoDate} \cup 0..MaxTime
    BY LoweredType, SchedulerAssumption DEF Schedule, TypeInv
  <1> QED
    BY <1>2, <1>3
    DEF Schedule, TypeInv, TypeOK, Control, Rows, executor, history, Running

LEMMA ExecutionTypes ==
    ASSUME TypeInv,
           \/ Fetch \/ (\E j \in Job : RunItem(j)) \/ RunItemFails \/ TimeOut
           \/ AfterExecution \/ AfterExecutionFails
    PROVE  TypeInv'
  <1>1. CASE Fetch
    <2>1. batch' \in Seq(Delay)
      BY <1>1, PageProperties DEF Fetch, Due
    <2> QED
      BY <1>1, <2>1 DEF Fetch, TypeInv, TypeOK, Control, history, Running
  <1>2. ASSUME NEW j \in Job, RunItem(j) PROVE TypeInv'
    <2>1. /\ batch \in Seq(Delay) /\ batch # <<>> /\ exec = "items" /\ waits = NoWait
          /\ Head(batch) \in Delay /\ Tail(batch) \in Seq(Delay)
      BY <1>2, RestOfBatch DEF RunItem, TypeInv, TypeOK, Control
    <2>2. /\ delays' = [delays EXCEPT ![Head(batch)].status = "inProgress"]
          /\ jobs' = [jobs EXCEPT ![j] = [delay |-> Head(batch), pc |-> "command"]]
      BY <1>2 DEF RunItem
    <2>3. delays' \in [Delay -> Rows] /\ jobs' \in [Job -> Jobs]
      BY <2>1, <2>2 DEF TypeInv, TypeOK, Rows, Jobs, Statuses
    <2>4. /\ jobs'[j].delay = Head(batch) /\ Running(j)'
          /\ \A k \in Job \ {j} : jobs'[k] = jobs[k]
      BY <2>2 DEF TypeInv, TypeOK, Running
    <2>5. Control'
      BY <1>2, <2>1, <2>4 DEF RunItem, TypeInv, Control, Running
    <2> QED
      BY <1>2, <2>1, <2>3, <2>5 DEF RunItem, TypeInv, TypeOK, Rows, Jobs, history
  <1>3. CASE RunItemFails
    BY <1>3, EmptySeq DEF RunItemFails, TypeInv, TypeOK, Control, history, Running
  <1>4. CASE TimeOut
    <2>1. Tail(batch) \in Seq(Delay)
      BY <1>4, RestOfBatch DEF TimeOut, TypeInv, TypeOK, Control
    <2>2. timeOuts' \in 0..MaxTimeOuts
      BY <1>4, SchedulerAssumption DEF TimeOut, TypeInv, TypeOK
    <2> QED
      BY <1>4, <2>1, <2>2 DEF TimeOut, TypeInv, TypeOK, Control, Running
  <1>5. CASE AfterExecution
    BY <1>5, LastDateQueryType
    DEF AfterExecution, TypeInv, TypeOK, Control, history, Running
  <1>6. CASE AfterExecutionFails
    BY <1>6 DEF AfterExecutionFails, TypeInv, TypeOK, Control, history, Running
  <1> QED
    BY <1>1, <1>2, <1>3, <1>4, <1>5, <1>6

LEMMA ProcessTypes ==
    ASSUME TypeInv, NEW j \in Job,
           \/ Command(j) \/ CommandFails(j) \/ MarkSuccess(j) \/ MarkSuccessFails(j)
           \/ MarkError(j) \/ MarkErrorFails(j)
    PROVE  TypeInv'
  <1> DEFINE d == jobs[j].delay
  <1>0. Running(j) /\ d \in Delay /\ delays \in [Delay -> Rows]
    BY DEF TypeOK, Rows, Command, CommandFails, MarkSuccess, MarkSuccessFails, MarkError, MarkErrorFails,
           Running, TypeInv, Control
  <1>a. ASSUME NEW pc \in {"done", "failed"}, jobs' = [jobs EXCEPT ![j].pc = pc],
               UNCHANGED executor
        PROVE  jobs' \in [Job -> Jobs] /\ Control'
    BY <1>0, <1>a DEF TypeInv, TypeOK, Jobs, Control, executor, Running
  <1>1. CASE Command(j)
    <2>1. delays' \in [Delay -> Rows]
      BY <1>0, <1>1, RowTypes DEF Command
    <2> QED
      BY <1>1, <1>a, <2>1 DEF Command, TypeInv, TypeOK, Rows, Jobs, executor, history
  <1>2. CASE CommandFails(j)
    BY <1>2, <1>a DEF CommandFails, TypeInv, TypeOK, Jobs, executor, history
  <1>3. CASE MarkSuccess(j)
    <2> DEFINE r == delays[d]  next == r.startsOn + Interval
    <2>1. r \in Rows /\ next \in Nat
      BY <1>0, SchedulerAssumption DEF TypeInv, TypeOK, Rows
    <2>2. /\ EndJob(j)
          /\ \/ /\ next <= MaxTime
                /\ \E e \in Vacant : delays' = [delays EXCEPT
                            ![d].status = "success", ![d].heirs = IF @ < 2 THEN @ + 1 ELSE @,
                            ![e] = Row(next, r.repeat - 1)]
                /\ lastDate' = Lowered(next)
             \/ /\ delays' = [delays EXCEPT ![d].status =
                            IF RemoveAfterSuccess /\ ~ Recurs(r) THEN "removed" ELSE "success"]
                /\ lastDate' = lastDate
          /\ UNCHANGED <<now, history>>
      BY <1>3 DEF MarkSuccess
    <2> HIDE DEF r, next
    <2>3. next <= MaxTime => Row(next, r.repeat - 1) \in Rows
      BY <2>1, SchedulerAssumption DEF Row, Rows, Statuses
    <2>4. delays' \in [Delay -> Rows]
      <3>1. ASSUME next <= MaxTime, NEW e \in Vacant, delays' = [delays EXCEPT
                        ![d].status = "success", ![d].heirs = IF @ < 2 THEN @ + 1 ELSE @,
                        ![e] = Row(next, r.repeat - 1)]
            PROVE  delays' \in [Delay -> Rows]
        <4> DEFINE s == [delays[d] EXCEPT !.status = "success", !.heirs = IF @ < 2 THEN @ + 1 ELSE @]
        <4>1. s \in Rows /\ Row(next, r.repeat - 1) \in Rows
          BY <1>0, <2>3, <3>1, RowTypes
        <4>2. delays' = [delays EXCEPT ![d] = s, ![e] = Row(next, r.repeat - 1)]
          BY <1>0, <3>1
        <4> QED
          BY <1>0, <4>1, <4>2 DEF Vacant
      <3>2. ASSUME delays' = [delays EXCEPT ![d].status =
                        IF RemoveAfterSuccess /\ ~ Recurs(r) THEN "removed" ELSE "success"]
            PROVE  delays' \in [Delay -> Rows]
        BY <1>0, <3>2, RowTypes DEF Statuses
      <3> QED
        BY <2>2, <3>1, <3>2
    <2>5. lastDate' \in {NoDate} \cup 0..MaxTime
      BY <2>1, <2>2, LoweredType DEF TypeInv, TypeOK
    <2> QED
      BY <1>0, <2>2, <2>4, <2>5, EndJobTypes DEF TypeInv, TypeOK, Rows, Jobs, history
  <1>4. CASE MarkSuccessFails(j)
    <2>1. delays[d].startsOn + Interval \in Nat
      BY <1>0, SchedulerAssumption DEF TypeInv, TypeOK
    <2>2. lastDate' \in {lastDate, Lowered(delays[d].startsOn + Interval)}
      BY <1>4 DEF MarkSuccessFails
    <2>3. lastDate' \in {NoDate} \cup 0..MaxTime
      BY <2>1, <2>2, LoweredType DEF TypeInv, TypeOK, Lowered
    <2> QED
      BY <1>4, <1>a, <2>3 DEF MarkSuccessFails, TypeInv, TypeOK, Jobs, executor
  <1>5. CASE MarkError(j)
    <2>1. delays' \in [Delay -> Rows]
      BY <1>0, <1>5, RowTypes DEF MarkError, Statuses
    <2> QED
      BY <1>0, <1>5, <2>1, EndJobTypes DEF MarkError, TypeInv, TypeOK, Rows, Jobs, history
  <1>6. CASE MarkErrorFails(j)
    BY <1>0, <1>6, EndJobTypes DEF MarkErrorFails, TypeInv, TypeOK, Jobs, history
  <1> QED
    BY <1>1, <1>2, <1>3, <1>4, <1>5, <1>6

LEMMA TickTypes == TypeInv /\ Tick => TypeInv'
  BY SchedulerAssumption
  DEF Tick, TypeInv, TypeOK, Control, executor, history, Running

LEMMA CrashTypes == TypeInv /\ Crash => TypeInv'
  <1> SUFFICES ASSUME TypeInv, Crash PROVE TypeInv'
    OBVIOUS
  <1>1. jobs' \in [Job -> Jobs] /\ \A j \in Job : ~ Running(j)'
    BY DEF Crash, NoJob, Jobs, Running
  <1>2. crashes' \in 0..MaxCrashes /\ lost' \in BOOLEAN
    BY SchedulerAssumption DEF Crash, TypeInv, TypeOK
  <1> QED
    BY <1>1, <1>2, EmptySeq DEF Crash, TypeInv, TypeOK, Control, Jobs

\* The actions of Next, one by one.
Scheduled == \E d \in Delay, at \in 0..MaxTime, repeat \in Repeats : Schedule(d, at, repeat)
Executed ==
    \/ Fetch \/ (\E j \in Job : RunItem(j)) \/ RunItemFails \/ TimeOut
    \/ AfterExecution \/ AfterExecutionFails
Processed == \E j \in Job :
    \/ Command(j) \/ CommandFails(j) \/ MarkSuccess(j) \/ MarkSuccessFails(j)
    \/ MarkError(j) \/ MarkErrorFails(j)

LEMMA NextCases == Next => Scheduled \/ Tick \/ Executed \/ Processed \/ Crash
  BY DEF Next, Execute, Process, Failure, Scheduled, Executed, Processed

LEMMA TypeStep == TypeInv /\ [Next]_vars => TypeInv'
  <1>1. TypeInv /\ Next => TypeInv'
    BY NextCases, ScheduleTypes, TickTypes, ExecutionTypes, ProcessTypes, CrashTypes
    DEF Scheduled, Executed, Processed
  <1>2. TypeInv /\ UNCHANGED vars => TypeInv'
    BY DEF vars, TypeInv, TypeOK, Control, Running
  <1> QED
    BY <1>1, <1>2

\* Every variable of the scheduler has its type; in particular an execution waits only for a task
\* that runs, the one of the first row it has left.
THEOREM TypeCorrect == Spec => []TypeOK
  <1>1. TypeInv => TypeOK
    BY DEF TypeInv
  <1> QED
    BY <1>1, TypeInit, TypeStep, PTL DEF Spec

-------------------------------------------------------------------------------
(* While no task is detached *)

\* WaitsForTheOnlyTask without its condition.
OneTask == \A j \in Job :
    Running(j) => waits = j /\ delays[jobs[j].delay].status = "inProgress"

\* The rows the execution has not come to are still to be run, and different.
RowsToCome == \A i \in DOMAIN batch :
    /\ exec = "items" \/ i > 1 => delays[batch[i]].status \in Fetched
    /\ \A k \in DOMAIN batch : batch[i] = batch[k] => i = k

\* A row has followers and commits only after it was written, and then keeps its success.
OneHeir == \A d \in Delay :
    /\ delays[d].heirs <= 1
    /\ delays[d].heirs > 0 => delays[d].status = "success"

RanOnce == \A d \in Delay :
    /\ delays[d].status = "none" => delays[d].ran = 0
    /\ ~ lost => /\ delays[d].ran <= 1
                 /\ delays[d].ran > 0 =>
                       \/ delays[d].status \in {"success", "removed"}
                       \/ \E j \in Job : jobs[j].delay = d /\ jobs[j].pc = "done"

InStep == OneTask /\ RowsToCome /\ OneHeir /\ RanOnce

IInv == TypeInv /\ (~ Detached => InStep)

LEMMA InitInStep == Init => IInv
  <1> SUFFICES ASSUME Init PROVE IInv
    OBVIOUS
  <1>1. OneTask /\ RowsToCome
    BY DEF Init, OneTask, RowsToCome, Running, NoJob
  <1>2. OneHeir /\ RanOnce
    BY DEF Init, OneHeir, RanOnce, NoRow, Row
  <1> QED
    BY <1>1, <1>2, TypeInit DEF IInv, InStep

\* What is known of the row of the one task that runs.
LEMMA TheTask ==
    ASSUME TypeInv, InStep, NEW j \in Job, Running(j)
    PROVE  /\ exec = "wait" /\ waits = j /\ batch # <<>> /\ batch \in Seq(Delay)
           /\ jobs[j].delay \in Delay /\ jobs[j].delay = batch[1] /\ 1 \in DOMAIN batch
           /\ delays[jobs[j].delay].status = "inProgress"
           /\ delays[jobs[j].delay].heirs = 0
           /\ \A k \in Job \ {j} : ~ Running(k)
           /\ ~ lost /\ jobs[j].pc # "done" => delays[jobs[j].delay].ran = 0
  <1>1. /\ waits = j /\ waits \in Job
        /\ delays[jobs[j].delay].status = "inProgress"
        /\ \A k \in Job \ {j} : ~ Running(k)
    BY DEF InStep, OneTask
  <1>2. exec = "wait" /\ batch # <<>> /\ batch \in Seq(Delay) /\ jobs[j].delay = Head(batch)
    BY <1>1, NoWaitIsNoJob DEF TypeInv, TypeOK, Control
  <1>3. jobs[j].delay \in Delay /\ jobs[j].delay = batch[1] /\ 1 \in DOMAIN batch
    BY <1>2, RestOfBatch
  <1>4. delays[jobs[j].delay].heirs \in 0..2 /\ delays[jobs[j].delay].ran \in 0..2
    BY <1>3 DEF TypeInv, TypeOK
  <1>5. delays[jobs[j].delay].heirs = 0
    BY <1>1, <1>3, <1>4 DEF InStep, OneHeir
  <1>6. ASSUME ~ lost, jobs[j].pc # "done" PROVE delays[jobs[j].delay].ran = 0
    <2>1. \A k \in Job : ~ (jobs[k].delay = jobs[j].delay /\ jobs[k].pc = "done")
      BY <1>1, <1>6 DEF Running
    <2> QED
      BY <1>1, <1>3, <1>4, <1>6, <2>1 DEF InStep, RanOnce
  <1> QED
    BY <1>1, <1>2, <1>3, <1>5, <1>6

LEMMA NoTask ==
    ASSUME TypeInv, InStep, exec # "wait"
    PROVE  \A j \in Job : ~ Running(j)
  BY NoWaitIsNoJob DEF TypeInv, Control, InStep, OneTask

\* The execution goes on to the next row.
LEMMA NextRow ==
    ASSUME TypeInv, RowsToCome, batch # <<>>, batch' = Tail(batch),
           \A d \in Delay : d # batch[1] /\ delays[d].status \in Fetched
                              => delays'[d].status \in Fetched
    PROVE  RowsToCome'
  <1>1. /\ batch \in Seq(Delay) /\ 1 \in DOMAIN batch
        /\ \A i \in DOMAIN batch' :
              i \in Nat /\ i > 0 /\ i + 1 \in DOMAIN batch /\ batch'[i] = batch[i + 1]
    BY RestOfBatch DEF TypeInv, TypeOK
  <1>2. \A i \in DOMAIN batch : batch[i] \in Delay
    BY <1>1, ElementOfSeq, LenProperties
  <1>3. ASSUME NEW i \in DOMAIN batch' PROVE delays'[batch'[i]].status \in Fetched
    <2>1. i + 1 > 1 /\ i + 1 # 1 /\ i + 1 \in DOMAIN batch /\ batch'[i] = batch[i + 1]
      BY <1>1, <1>3
    <2>2. delays[batch[i + 1]].status \in Fetched /\ batch[i + 1] # batch[1]
      BY <1>1, <2>1 DEF RowsToCome
    <2> QED
      BY <1>2, <2>1, <2>2
  <1>4. ASSUME NEW i \in DOMAIN batch', NEW k \in DOMAIN batch', batch'[i] = batch'[k]
        PROVE  i = k
    <2>1. i + 1 = k + 1
      BY <1>1, <1>4 DEF RowsToCome
    <2> QED
      BY <1>1, <2>1
  <1> QED
    BY <1>3, <1>4 DEF RowsToCome

\* The one task ends: nothing runs, and what follows depends on the row alone.
LEMMA TaskEnds ==
    ASSUME TypeInv, InStep, NEW j \in Job, Running(j), EndJob(j) \/ FaultJob(j),
           \A d \in Delay : d # jobs[j].delay /\ delays[d].status \in Fetched
                              => delays'[d].status \in Fetched
    PROVE  OneTask' /\ RowsToCome' /\ \A k \in Job : ~ Running(k)'
  <1>1. /\ waits = j /\ batch # <<>> /\ jobs[j].delay = batch[1]
        /\ \A k \in Job \ {j} : ~ Running(k)
    BY TheTask
  <1>2. \A k \in Job : ~ Running(k)'
    BY <1>1 DEF EndJob, FaultJob, NoJob, Running, TypeInv, TypeOK
  <1>3. CASE EndJob(j)
    BY <1>1, <1>2, <1>3, NextRow DEF EndJob, OneTask, InStep
  <1>4. CASE FaultJob(j)
    BY <1>1, <1>2, <1>4 DEF FaultJob, OneTask, RowsToCome
  <1> QED
    BY <1>2, <1>3, <1>4

\* Only the status of one row that has not succeeded changes, to one that is no success.
LEMMA StatusChanges ==
    ASSUME TypeInv, OneHeir, NEW d \in Delay, NEW s \in Statuses, delays[d].heirs = 0,
           delays' = [delays EXCEPT ![d].status = s]
    PROVE  /\ OneHeir'
           /\ \A e \in Delay : /\ delays'[e].ran = delays[e].ran
                               /\ e # d => delays'[e] = delays[e]
           /\ delays'[d].status = s
  BY DEF TypeInv, TypeOK, OneHeir

LEMMA ScheduleInStep ==
    ASSUME TypeInv, InStep, Scheduled
    PROVE  InStep'
  <1>1. PICK d \in Vacant, at \in 0..MaxTime, repeat \in Repeats : Schedule(d, at, repeat)
    BY DEF Scheduled, Schedule
  <1>2. /\ d \in Delay /\ delays[d].status = "none"
        /\ delays' = [delays EXCEPT ![d] = Row(at, repeat)]
        /\ UNCHANGED <<exec, batch, waits, jobs, lost>>
    BY <1>1 DEF Schedule, Vacant, executor, history
  <1>3. /\ \A e \in Delay \ {d} : delays'[e] = delays[e]
        /\ delays'[d].heirs = 0 /\ delays'[d].ran = 0
    BY <1>2 DEF TypeInv, TypeOK, Row
  <1>4. OneTask'
    <2>1. ASSUME NEW j \in Job, Running(j)
          PROVE  waits = j /\ delays'[jobs[j].delay].status = "inProgress"
      BY <1>2, <1>3, <2>1, TheTask
    <2> QED
      BY <1>2, <2>1 DEF OneTask, Running
  <1>5. RowsToCome'
    <2>1. \A i \in DOMAIN batch : batch[i] \in Delay
      BY ElementOfSeq, LenProperties DEF TypeInv, TypeOK
    <2>2. \A i \in DOMAIN batch : delays[batch[i]].status \in Fetched => batch[i] # d
      BY <1>2 DEF Fetched
    <2> QED
      BY <1>2, <1>3, <2>1, <2>2 DEF InStep, RowsToCome
  <1>6. OneHeir' /\ RanOnce'
    BY <1>2, <1>3 DEF InStep, OneHeir, RanOnce
  <1> QED
    BY <1>4, <1>5, <1>6 DEF InStep

LEMMA ExecutionInStep ==
    ASSUME TypeInv, InStep, Executed, ~ Detached'
    PROVE  InStep'
  <1> USE DEF Executed
  <1>1. CASE Fetch
    <2>1. \A j \in Job : ~ Running(j)
      BY <1>1, NoTask DEF Fetch
    <2>2. /\ \A i \in DOMAIN batch' : delays[batch'[i]].status \in Fetched
          /\ \A i, k \in DOMAIN batch' : batch'[i] = batch'[k] => i = k
      BY <1>1, PageProperties DEF Fetch, Due
    <2> QED
      BY <1>1, <2>1, <2>2
      DEF Fetch, history, InStep, OneTask, RowsToCome, OneHeir, RanOnce, Running
  <1>2. ASSUME NEW j \in Job, RunItem(j) PROVE InStep'
    <2> DEFINE d == Head(batch)
    <2>1. /\ batch \in Seq(Delay) /\ batch # <<>> /\ exec = "items"
          /\ d \in Delay /\ d = batch[1] /\ 1 \in DOMAIN batch
      BY <1>2, RestOfBatch DEF RunItem, TypeInv, TypeOK
    <2>2. delays[d].status \in Fetched /\ delays[d].status # "success"
          /\ delays[d].status # "none" /\ delays[d].status # "removed"
      BY <2>1 DEF InStep, RowsToCome, Fetched
    <2>a. delays[d].heirs \in 0..2 /\ delays[d].ran \in 0..2
      BY <2>1 DEF TypeInv, TypeOK
    <2>3. delays[d].heirs = 0
      BY <2>1, <2>2, <2>a DEF InStep, OneHeir
    <2>4. delays' = [delays EXCEPT ![d].status = "inProgress"]
      BY <1>2 DEF RunItem
    <2> HIDE DEF d
    <2>5. /\ OneHeir' /\ delays'[d].status = "inProgress"
          /\ \A e \in Delay : /\ delays'[e].ran = delays[e].ran
                              /\ e # d => delays'[e] = delays[e]
      BY <2>1, <2>3, <2>4, StatusChanges DEF Statuses, InStep
    <2>6. /\ \A k \in Job : ~ Running(k)
          /\ jobs' = [jobs EXCEPT ![j] = [delay |-> d, pc |-> "command"]]
          /\ exec' = "wait" /\ waits' = j /\ batch' = batch /\ lost' = lost
      BY <1>2, <2>1, NoTask DEF RunItem, Waits, Detached, history, d
    <2>7. OneTask'
      BY <2>5, <2>6 DEF OneTask, Running, TypeInv, TypeOK
    <2>8. RowsToCome'
      <3>1. \A i \in DOMAIN batch : batch[i] \in Delay
        BY <2>1, ElementOfSeq, LenProperties
      <3>2. \A i \in DOMAIN batch : i > 1 => batch[i] # d
        BY <2>1 DEF InStep, RowsToCome
      <3> QED
        BY <2>1, <2>5, <2>6, <3>1, <3>2 DEF InStep, RowsToCome
    <2>9. RanOnce'
      <3>1. \A k \in Job : jobs[k].pc # "done"
        BY <2>6 DEF Running
      <3>2. ~ lost => delays[d].ran = 0
        BY <2>1, <2>2, <2>a, <3>1 DEF InStep, RanOnce
      <3> QED
        BY <2>2, <2>5, <2>6, <3>1, <3>2 DEF InStep, RanOnce
    <2> QED
      BY <2>5, <2>7, <2>8, <2>9 DEF InStep
  <1>3. CASE RunItemFails
    BY <1>3, NoTask
    DEF RunItemFails, history, InStep, OneTask, RowsToCome, OneHeir, RanOnce, Running
  <1>4. CASE TimeOut
    BY <1>4 DEF TimeOut, Detached, TypeInv, TypeOK
  <1>5. CASE AfterExecution
    BY <1>5, NoTask
    DEF AfterExecution, history, InStep, OneTask, RowsToCome, OneHeir, RanOnce, Running
  <1>6. CASE AfterExecutionFails
    BY <1>6, NoTask
    DEF AfterExecutionFails, history, InStep, OneTask, RowsToCome, OneHeir, RanOnce, Running
  <1> QED
    BY <1>1, <1>2, <1>3, <1>4, <1>5, <1>6

LEMMA ProcessInStep ==
    ASSUME TypeInv, InStep, NEW j \in Job,
           \/ Command(j) \/ CommandFails(j) \/ MarkSuccess(j) \/ MarkSuccessFails(j)
           \/ MarkError(j) \/ MarkErrorFails(j)
    PROVE  InStep'
  <1> DEFINE d == jobs[j].delay
  <1>1. Running(j)
    BY DEF Command, CommandFails, MarkSuccess, MarkSuccessFails, MarkError, MarkErrorFails, Running
  <1>2. /\ waits = j /\ batch \in Seq(Delay) /\ 1 \in DOMAIN batch /\ d = batch[1] /\ exec = "wait"
        /\ d \in Delay /\ delays[d].status = "inProgress" /\ delays[d].heirs = 0
        /\ \A k \in Job \ {j} : ~ Running(k)
        /\ ~ lost /\ jobs[j].pc # "done" => delays[d].ran = 0
    BY <1>1, TheTask
  <1>3. \A k \in Job : jobs[k].pc = "done" => k = j
    BY <1>2 DEF Running
  \* A step of the task that changes neither the execution nor a status.
  <1>4. ASSUME NEW pc \in {"done", "failed"}, jobs' = [jobs EXCEPT ![j].pc = pc],
               UNCHANGED <<exec, batch, waits>>,
               \A e \in Delay : delays'[e].status = delays[e].status
        PROVE  /\ OneTask' /\ RowsToCome'
               /\ jobs'[j].delay = d /\ jobs'[j].pc = pc
    <2>1. /\ \A k \in Job \ {j} : jobs'[k] = jobs[k]
          /\ jobs'[j].delay = d /\ jobs'[j].pc = pc
      BY <1>4 DEF TypeInv, TypeOK
    <2>2. \A i \in DOMAIN batch : batch[i] \in Delay
      BY <1>2, ElementOfSeq, LenProperties
    <2> QED
      BY <1>2, <1>4, <2>1, <2>2 DEF InStep, OneTask, RowsToCome, Running
  <1>5. CASE Command(j)
    <2>1. /\ \A e \in Delay : /\ delays'[e].status = delays[e].status
                              /\ delays'[e].heirs = delays[e].heirs
                              /\ e # d => delays'[e] = delays[e]
          /\ delays[d].ran = 0 => delays'[d].ran = 1
      BY <1>2, <1>5 DEF Command, TypeInv, TypeOK
    <2>2. /\ jobs' = [jobs EXCEPT ![j].pc = "done"] /\ UNCHANGED <<exec, batch, waits, lost>>
          /\ jobs[j].pc = "command"
      BY <1>5 DEF Command, executor, history
    <2>3. OneTask' /\ RowsToCome' /\ jobs'[j].delay = d /\ jobs'[j].pc = "done"
      BY <1>4, <2>1, <2>2
    <2>4. RanOnce'
      BY <1>2, <1>3, <2>1, <2>2, <2>3 DEF InStep, RanOnce
    <2> QED
      BY <2>1, <2>3, <2>4 DEF InStep, OneHeir
  <1>6. CASE CommandFails(j)
    <2>1. /\ jobs' = [jobs EXCEPT ![j].pc = "failed"]
          /\ UNCHANGED <<delays, exec, batch, waits, lost>> /\ jobs[j].pc = "command"
      BY <1>6 DEF CommandFails, executor, history
    <2>2. OneTask' /\ RowsToCome'
      BY <1>4, <2>1
    <2>3. RanOnce'
      BY <1>3, <2>1 DEF InStep, RanOnce
    <2> QED
      BY <2>1, <2>2, <2>3 DEF InStep, OneHeir
  <1>7. CASE MarkSuccess(j)
    <2> DEFINE r == delays[d]  next == r.startsOn + Interval
    <2>1. /\ EndJob(j) /\ lost' = lost
          /\ \/ \E e \in Vacant : delays' = [delays EXCEPT
                            ![d].status = "success", ![d].heirs = IF @ < 2 THEN @ + 1 ELSE @,
                            ![e] = Row(next, r.repeat - 1)]
             \/ delays' = [delays EXCEPT ![d].status =
                            IF RemoveAfterSuccess /\ ~ Recurs(r) THEN "removed" ELSE "success"]
      BY <1>7 DEF MarkSuccess, history
    <2> HIDE DEF r, next
    <2>2. /\ delays'[d].status \in {"success", "removed"}
          /\ delays'[d].heirs \in 0..1
          /\ delays'[d].heirs > 0 => delays'[d].status = "success"
          /\ delays'[d].ran = delays[d].ran
          /\ \A e \in Delay \ {d} :
                \/ delays'[e] = delays[e]
                \/ delays[e].status = "none" /\ delays'[e].ran = 0 /\ delays'[e].heirs = 0
      <3>1. CASE \E e \in Vacant : delays' = [delays EXCEPT
                            ![d].status = "success", ![d].heirs = IF @ < 2 THEN @ + 1 ELSE @,
                            ![e] = Row(next, r.repeat - 1)]
        <4>1. PICK e \in Vacant : delays' = [delays EXCEPT
                            ![d].status = "success", ![d].heirs = IF @ < 2 THEN @ + 1 ELSE @,
                            ![e] = Row(next, r.repeat - 1)]
          BY <3>1
        <4>2. e \in Delay /\ delays[e].status = "none" /\ e # d
          BY <1>2 DEF Vacant
        <4> DEFINE s == [delays[d] EXCEPT !.status = "success", !.heirs = IF @ < 2 THEN @ + 1 ELSE @]
        <4>a. s.status = "success" /\ s.heirs = 1 /\ s.ran = delays[d].ran
          BY <1>2 DEF TypeInv, TypeOK
        <4>b. delays' = [delays EXCEPT ![d] = s, ![e] = Row(next, r.repeat - 1)]
          BY <1>2, <4>1, <4>2 DEF TypeInv, TypeOK
        <4> HIDE DEF s
        <4>3. delays'[d] = s
          BY <1>2, <4>b, <4>2 DEF TypeInv, TypeOK
        <4>4. delays'[e] = Row(next, r.repeat - 1) /\ \A f \in Delay \ {d, e} : delays'[f] = delays[f]
          BY <1>2, <4>b, <4>2 DEF TypeInv, TypeOK
        <4> QED
          BY <4>2, <4>3, <4>4, <4>a DEF Row
      <3>2. CASE delays' = [delays EXCEPT ![d].status =
                            IF RemoveAfterSuccess /\ ~ Recurs(r) THEN "removed" ELSE "success"]
        BY <1>2, <3>2 DEF TypeInv, TypeOK
      <3> QED
        BY <2>1, <3>1, <3>2
    <2>3. OneTask' /\ RowsToCome'
      BY <1>1, <1>2, <2>1, <2>2, TaskEnds DEF Fetched
    <2>4. OneHeir' /\ RanOnce'
      <3>2. OneHeir'
        BY <2>2 DEF InStep, OneHeir
      <3>3. ASSUME NEW e \in Delay \ {d}, ~ lost, delays[e].ran > 0, delays'[e] = delays[e]
            PROVE  delays'[e].status \in {"success", "removed"}
        BY <1>3, <3>3 DEF InStep, RanOnce
      <3>4. ~ lost => delays[d].ran <= 1
        BY <1>2 DEF InStep, RanOnce
      <3>5. RanOnce'
        BY <1>2, <2>1, <2>2, <3>3, <3>4 DEF InStep, RanOnce
      <3> QED
        BY <3>2, <3>5
    <2> QED
      BY <2>3, <2>4 DEF InStep
  <1>8. CASE MarkSuccessFails(j)
    <2>1. /\ jobs' = [jobs EXCEPT ![j].pc = "failed"] /\ lost'
          /\ UNCHANGED <<delays, exec, batch, waits>>
      BY <1>8 DEF MarkSuccessFails, executor
    <2>2. OneTask' /\ RowsToCome'
      BY <1>4, <2>1
    <2> QED
      BY <2>1, <2>2 DEF InStep, OneHeir, RanOnce
  <1>9. CASE MarkError(j)
    <2>1. /\ FaultJob(j) /\ lost' = lost /\ jobs[j].pc = "failed"
          /\ delays' = [delays EXCEPT ![d].status = "error"]
      BY <1>9 DEF MarkError, history
    <2>2. /\ OneHeir' /\ delays'[d].status = "error"
          /\ \A e \in Delay : /\ delays'[e].ran = delays[e].ran
                              /\ e # d => delays'[e] = delays[e]
      BY <1>2, <2>1, StatusChanges DEF InStep, Statuses
    <2>3. OneTask' /\ RowsToCome'
      BY <1>1, <2>1, <2>2, TaskEnds
    <2>4. RanOnce'
      BY <1>2, <1>3, <2>1, <2>2 DEF InStep, RanOnce
    <2> QED
      BY <2>2, <2>3, <2>4 DEF InStep
  <1>10. CASE MarkErrorFails(j)
    <2>1. FaultJob(j) /\ UNCHANGED <<delays, lost>> /\ jobs[j].pc = "failed"
      BY <1>10 DEF MarkErrorFails, history
    <2>2. OneTask' /\ RowsToCome'
      BY <1>1, <2>1, TaskEnds
    <2>3. RanOnce'
      BY <1>3, <2>1 DEF InStep, RanOnce
    <2> QED
      BY <2>1, <2>2, <2>3 DEF InStep, OneHeir
  <1> QED
    BY <1>5, <1>6, <1>7, <1>8, <1>9, <1>10

LEMMA CrashInStep == ASSUME TypeInv, InStep, Crash PROVE InStep'
  <1>1. OneTask' /\ RowsToCome'
    BY DEF Crash, NoJob, Running, OneTask, RowsToCome
  <1>2. ~ lost' => ~ lost /\ \A j \in Job : jobs[j].pc # "done"
    BY DEF Crash
  <1> QED
    BY <1>1, <1>2 DEF Crash, InStep, OneHeir, RanOnce

\* A task that is detached once is never forgotten.
LEMMA DetachedForGood == ASSUME TypeInv, [Next]_vars, ~ Detached' PROVE ~ Detached
  <1>1. async' = async /\ timeOuts' \in {timeOuts, timeOuts + 1}
    BY NextCases
    DEF vars, Scheduled, Executed, Processed, Schedule, Tick, Fetch, RunItem, RunItemFails, TimeOut,
        AfterExecution, AfterExecutionFails, Command, CommandFails, MarkSuccess, MarkSuccessFails, MarkError,
        MarkErrorFails, Crash, history
  <1> QED
    BY <1>1 DEF Detached, TypeInv, TypeOK

LEMMA StepInStep == IInv /\ [Next]_vars => IInv'
  <1> SUFFICES ASSUME IInv, [Next]_vars PROVE IInv'
    OBVIOUS
  <1>1. TypeInv'
    BY TypeStep DEF IInv
  <1>2. ASSUME ~ Detached' PROVE InStep'
    <2>1. TypeInv /\ InStep
      BY <1>2, DetachedForGood DEF IInv
    <2>2. CASE Tick
      BY <2>1, <2>2
      DEF Tick, executor, history, InStep, OneTask, RowsToCome, OneHeir, RanOnce, Running
    <2>3. CASE UNCHANGED vars
      BY <2>1, <2>3 DEF vars, InStep, OneTask, RowsToCome, OneHeir, RanOnce, Running
    <2> QED
      BY <1>2, <2>1, <2>2, <2>3, NextCases, ScheduleInStep, ExecutionInStep, ProcessInStep,
         CrashInStep DEF Processed
  <1> QED
    BY <1>1, <1>2 DEF IInv

LEMMA InStepAlways == Spec => []IInv
  BY InitInStep, StepInStep, PTL DEF Spec

\* While the execution waits for a task, it is the only one, and its row is in progress.
THEOREM TheOnlyTask == Spec => []WaitsForTheOnlyTask
  <1>1. IInv => WaitsForTheOnlyTask
    BY DEF IInv, InStep, OneTask, WaitsForTheOnlyTask
  <1> QED
    BY <1>1, InStepAlways, PTL

\* The command of a row commits once over failures, retries and crashes, until a success is lost.
THEOREM CommandOnce == Spec => []CommandOnceUnlessLost
  <1>1. IInv => CommandOnceUnlessLost
    BY DEF IInv, InStep, RanOnce, CommandOnceUnlessLost
  <1> QED
    BY <1>1, InStepAlways, PTL

\* A recurring row has one successor however often it ran.
THEOREM OneSuccessor == Spec => []OneHeirUnlessDetached
  <1>1. IInv => OneHeirUnlessDetached
    BY DEF IInv, InStep, OneHeir, OneHeirUnlessDetached
  <1> QED
    BY <1>1, InStepAlways, PTL

LEMMA SuccessStays ==
    ASSUME IInv, [Next]_vars, ~ Detached', NEW d \in Delay, delays[d].status = "success"
    PROVE  delays'[d].status = "success"
  <1>1. TypeInv /\ InStep
    BY DetachedForGood DEF IInv
  <1>2. delays \in [Delay -> Rows]
    BY <1>1 DEF TypeInv, TypeOK, Rows
  <1>3. CASE Scheduled
    BY <1>2, <1>3 DEF Scheduled, Schedule, Vacant
  <1>4. CASE Executed
    <2>1. ASSUME NEW j \in Job, RunItem(j) PROVE delays'[d].status = "success"
      <3>1. exec = "items" /\ Head(batch) = batch[1] /\ 1 \in DOMAIN batch
        BY <1>1, <2>1, RestOfBatch DEF RunItem, TypeInv, TypeOK
      <3>2. Head(batch) # d
        BY <1>1, <3>1 DEF InStep, RowsToCome, Fetched
      <3> QED
        BY <1>2, <2>1, <3>2 DEF RunItem
    <2> QED
      BY <1>4, <2>1 DEF Executed, Fetch, RunItemFails, TimeOut, AfterExecution, AfterExecutionFails
  <1>5. CASE Processed
    <2>1. PICK j \in Job :
             \/ Command(j) \/ CommandFails(j) \/ MarkSuccess(j) \/ MarkSuccessFails(j)
             \/ MarkError(j) \/ MarkErrorFails(j)
      BY <1>5 DEF Processed
    <2>2. Running(j)
      BY <2>1 DEF Command, CommandFails, MarkSuccess, MarkSuccessFails, MarkError,
                  MarkErrorFails, Running
    <2>3. jobs[j].delay \in Delay /\ jobs[j].delay # d
      BY <1>1, <2>2, TheTask
    <2>4. CASE MarkSuccess(j)
      BY <1>2, <2>3, <2>4 DEF MarkSuccess, Vacant
    <2> QED
      BY <1>2, <2>1, <2>3, <2>4
      DEF Command, CommandFails, MarkSuccessFails, MarkError, MarkErrorFails
  <1> QED
    BY <1>3, <1>4, <1>5, NextCases DEF Tick, Crash, vars

\* No retry, restart or recurrence takes a row from its success while no task is detached.
THEOREM SuccessForGood == Spec => SuccessIsFinal
  <1> DEFINE Kept == ~ Detached' => \A d \in Delay :
                         delays[d].status = "success" => delays'[d].status = "success"
  <1>1. IInv /\ [Next]_vars => [Kept]_vars
    BY SuccessStays
  <1>2. Spec => [][Kept]_vars
    BY <1>1, InStepAlways, PTL DEF Spec
  <1> QED
    BY <1>2 DEF SuccessIsFinal
================================================================================
