------------------------------- MODULE Scheduler -------------------------------
(***************************************************************************)
(* The delayed-command scheduler: ScheduleCommand writes rows, a sequential *)
(* executor fetches the rows that are due (GetSchedulersQuery) and runs     *)
(* RunSchedulerCommand for each, which starts ProcessMessage as a task of   *)
(* its own and, in the synchronous scheduler, waits for it up to a time-out.*)
(* Every change of a status is a push on a new dispatcher, so it is atomic  *)
(* and can fail.  A crash loses the process: its tasks and its static       *)
(* fields, not the rows.                                                    *)
(*                                                                         *)
(* There is one execution at a time (see OneExecutionUnlessRaced in         *)
(* TaskExecutor), rows have equal priorities and no EndDate.                *)
(***************************************************************************)
EXTENDS Integers, Sequences, FiniteSets

CONSTANTS
    Delay,          \* rows of DelayToScheduler, a bound on those ever written
    Job,            \* numbers of the ProcessMessage tasks that run at a time
    MaxTime,        \* bound on the clock
    Slack,          \* the two seconds the query looks ahead
    FetchSize,      \* rows of a page, 5 in SchedulerTask
    Interval,       \* of a row that recurs
    Repeats,        \* values of Recurrence.RepeatCount, Once for a row that does not recur
    Modes,          \* which of the two schedulers, TRUE for the asynchronous one
    MaxCrashes,     \* bound on crashes
    MaxTimeOuts,    \* bound on the waits that time out
    RemoveAfterSuccess,     \* DelayToScheduler.RemoveAfterSuccess
    MayFail         \* whether commands and status changes may fail

Once == -100

ASSUME SchedulerAssumption ==
    /\ MaxTime \in Nat /\ Slack \in Nat /\ MaxCrashes \in Nat /\ MaxTimeOuts \in Nat
    /\ FetchSize \in Nat \ {0} /\ Interval \in Nat \ {0}
    /\ Repeats \subseteq Int /\ Job \subseteq Nat
    /\ Modes \subseteq BOOLEAN /\ MayFail \in BOOLEAN /\ RemoveAfterSuccess \in BOOLEAN

VARIABLES
    async,      \* SchedulerTaskOptions.Async
    delays,     \* the rows
    now,        \* DateTime.UtcNow
    lastDate,   \* GetSchedulersQuery.LastDate
    exec,       \* where the execution is
    batch,      \* the rows it fetched and has not finished
    waits,      \* the task it waits for
    jobs,       \* the ProcessMessage tasks
    crashes,
    timeOuts,   \* waits that timed out
    lost        \* history: the success of a command that committed was lost

vars == <<async, delays, now, lastDate, exec, batch, waits, jobs, crashes, timeOuts, lost>>

NoDate == -1
NoJob == [delay |-> "none", pc |-> "none"]
NoWait == -1

\* ran: how often the command of the row committed; heirs: how many rows followed it.
Row(at, repeat) == [status |-> "new", startsOn |-> at, repeat |-> repeat, ran |-> 0, heirs |-> 0]
NoRow == [Row(0, Once) EXCEPT !.status = "none"]

Running(j) == jobs[j].pc # "none"
FreeJobs == {j \in Job : ~ Running(j)}

\* A row that was deleted: GetById returns null and a change of its status throws.
Gone(d) == delays[d].status = "removed"

Vacant == {d \in Delay : delays[d].status = "none"}

\* LastDate = startsOn < LastDate ? startsOn : LastDate, never true of a null LastDate
Lowered(at) == IF lastDate # NoDate /\ at < lastDate THEN at ELSE lastDate

-------------------------------------------------------------------------------
Init ==
    /\ async \in Modes
    /\ delays = [d \in Delay |-> NoRow]
    /\ now = 0
    /\ lastDate = NoDate
    /\ exec = "idle"
    /\ batch = <<>>
    /\ waits = NoWait
    /\ jobs = [j \in Job |-> NoJob]
    /\ crashes = 0
    /\ timeOuts = 0
    /\ lost = FALSE

executor == <<exec, batch, waits>>
history == <<async, crashes, timeOuts, lost>>

\* ScheduleCommand, pushed by the application
Schedule(d, at, repeat) ==
    /\ d \in Vacant
    /\ delays' = [delays EXCEPT ![d] = Row(at, repeat)]
    /\ lastDate' = Lowered(at)
    /\ UNCHANGED <<now, executor, jobs, history>>

Tick ==
    /\ now < MaxTime
    /\ now' = now + 1
    /\ UNCHANGED <<delays, lastDate, executor, jobs, history>>

-------------------------------------------------------------------------------
(* GetSchedulersQuery *)

\* mutants: the rows left in progress, or any row
NoneRecovered == {"new", "error"}
AnyStatus == {"new", "error", "inProgress", "success"}

\* FirstRun is never reset, so rows in progress are fetched by every query.
Fetched == {"new", "error", "inProgress"}

Rank(d) == CASE delays[d].status = "new" -> 0
             [] delays[d].status = "inProgress" -> 1
             [] delays[d].status = "success" -> 2
             [] delays[d].status = "error" -> 3

\* Sort.Default: of two rows with the same status the later one comes first
Before(d, e) == \/ Rank(d) < Rank(e)
                \/ Rank(d) = Rank(e) /\ delays[d].startsOn >= delays[e].startsOn

\* isHaveForDo always holds: Date is LastDate, or LastDate was null, and since then
\* LastDate was lowered at most.
Due(date) == {d \in Delay : delays[d].status \in Fetched /\ delays[d].startsOn <= date + Slack}

Pages(due) ==
    {p \in UNION {[1..n -> due] : n \in 0..FetchSize} :
        /\ \A i, k \in DOMAIN p : i < k => p[i] # p[k] /\ Before(p[i], p[k])
        /\ \A d \in due : (\A i \in DOMAIN p : p[i] # d) =>
              Len(p) = FetchSize /\ \A i \in DOMAIN p : Before(p[i], d)}

Fetch ==
    /\ exec = "idle"
    /\ batch' \in Pages(Due(IF lastDate = NoDate THEN now ELSE lastDate))
    /\ exec' = "items"
    /\ UNCHANGED <<delays, now, lastDate, waits, jobs, history>>

(* RunSchedulerCommand *)

\* mutant: the test of Options.Async inverted
WaitsIfAsync == async

Waits == ~ async

\* The status becomes InProgress, whatever it is by now; ProcessMessage starts.
RunItem(j) ==
    /\ exec = "items" /\ batch # <<>>
    /\ j \in FreeJobs /\ \A k \in FreeJobs : j <= k
    /\ LET d == Head(batch)
       IN  /\ ~ Gone(d)
           /\ delays' = [delays EXCEPT ![d].status = "inProgress"]
           /\ jobs' = [jobs EXCEPT ![j] = [delay |-> d, pc |-> "command"]]
    /\ IF Waits THEN exec' = "wait" /\ waits' = j /\ UNCHANGED batch
                ELSE exec' = "items" /\ batch' = Tail(batch) /\ UNCHANGED waits
    /\ UNCHANGED <<now, lastDate, history>>

\* The row could not be updated: the exception ends the execution.
RunItemFails ==
    /\ exec = "items" /\ batch # <<>>
    /\ MayFail \/ Gone(Head(batch))
    /\ exec' = "idle" /\ batch' = <<>>
    /\ UNCHANGED <<delays, now, lastDate, waits, jobs, history>>

\* task.Wait(TimeOut) returns false and the execution goes on with the next row.
TimeOut ==
    /\ timeOuts < MaxTimeOuts
    /\ exec = "wait"
    /\ exec' = "items" /\ batch' = Tail(batch) /\ waits' = NoWait
    /\ timeOuts' = timeOuts + 1
    /\ UNCHANGED <<async, delays, now, lastDate, jobs, crashes, lost>>

(* ProcessMessage *)

\* The command commits on a dispatcher of its own.
Command(j) ==
    /\ jobs[j].pc = "command"
    /\ jobs' = [jobs EXCEPT ![j].pc = "done"]
    /\ delays' = [delays EXCEPT ![jobs[j].delay].ran = IF @ < 2 THEN @ + 1 ELSE @]
    /\ UNCHANGED <<now, lastDate, executor, history>>

CommandFails(j) ==
    /\ MayFail
    /\ jobs[j].pc = "command"
    /\ jobs' = [jobs EXCEPT ![j].pc = "failed"]
    /\ UNCHANGED <<delays, now, lastDate, executor, history>>

\* mutant: something after the push of Success throws and the catch block is entered
EndJobInCatch(j) ==
    /\ jobs' = [jobs EXCEPT ![j].pc = "failed"]
    /\ UNCHANGED executor

\* The task ends; a synchronous execution that waits for it goes on.
EndJob(j) ==
    /\ jobs' = [jobs EXCEPT ![j] = NoJob]
    /\ IF waits = j THEN exec' = "items" /\ batch' = Tail(batch) /\ waits' = NoWait
                    ELSE UNCHANGED executor

\* mutant: nothing catches what Wait throws
FaultJobForGood(j) ==
    /\ jobs' = [jobs EXCEPT ![j] = NoJob]
    /\ IF waits = j THEN exec' = "faulted" /\ batch' = <<>> /\ waits' = NoWait
                    ELSE UNCHANGED executor

\* The task faults; Wait throws and the execution ends without AfterExecution.
FaultJob(j) ==
    /\ jobs' = [jobs EXCEPT ![j] = NoJob]
    /\ IF waits = j THEN exec' = "idle" /\ batch' = <<>> /\ waits' = NoWait
                    ELSE UNCHANGED executor

\* GetRecurrencyDateQuery with NowDate = StartDate = StartsOn: the first date tried is
\* later than NowDate, so neither a positive nor an exhausted RepeatCount ends it.
Recurs(r) == r.repeat # Once

\* ChangeSchedulerStatusCommand to Success: the row and the one that follows it are
\* written by one push.
MarkSuccess(j) ==
    /\ jobs[j].pc = "done"
    /\ LET d == jobs[j].delay
           r == delays[d]
           next == r.startsOn + Interval
       IN  /\ ~ Gone(d)
           /\ IF Recurs(r) /\ next <= MaxTime /\ Vacant # {}
              THEN \E e \in Vacant :
                     /\ delays' = [delays EXCEPT
                            ![d].status = "success",
                            ![d].heirs = IF @ < 2 THEN @ + 1 ELSE @,
                            ![e] = Row(next, r.repeat - 1)]
                     /\ lastDate' = Lowered(next)
              ELSE /\ delays' = [delays EXCEPT ![d].status =
                            IF RemoveAfterSuccess /\ ~ Recurs(r) THEN "removed" ELSE "success"]
                   /\ UNCHANGED lastDate
    /\ EndJob(j)
    /\ UNCHANGED <<now, history>>

\* mutant: the row that follows is written by a push of its own, before the one that fails
MarkSuccessHalfway(j) ==
    /\ MayFail
    /\ jobs[j].pc = "done"
    /\ jobs' = [jobs EXCEPT ![j].pc = "failed"]
    /\ lost' = TRUE
    /\ LET d == jobs[j].delay
           next == delays[d].startsOn + Interval
       IN  IF Recurs(delays[d]) /\ next <= MaxTime /\ Vacant # {}
              THEN \E e \in Vacant :
                     delays' = [delays EXCEPT ![d].heirs = IF @ < 2 THEN @ + 1 ELSE @,
                                              ![e] = Row(next, delays[d].repeat - 1)]
              ELSE UNCHANGED delays
    /\ UNCHANGED <<async, now, lastDate, executor, crashes, timeOuts>>

\* The push fails and is caught; the static LastDate may have been lowered by then.
MarkSuccessFails(j) ==
    /\ jobs[j].pc = "done"
    /\ MayFail \/ Gone(jobs[j].delay)
    /\ jobs' = [jobs EXCEPT ![j].pc = "failed"]
    /\ lost' = TRUE
    /\ LET r == delays[jobs[j].delay]
       IN  lastDate' \in {lastDate} \cup
                         IF Recurs(r) THEN {Lowered(r.startsOn + Interval)} ELSE {}
    /\ UNCHANGED <<async, delays, now, executor, crashes, timeOuts>>

MarkError(j) ==
    /\ jobs[j].pc = "failed" /\ ~ Gone(jobs[j].delay)
    /\ delays' = [delays EXCEPT ![jobs[j].delay].status = "error"]
    /\ FaultJob(j)
    /\ UNCHANGED <<now, lastDate, history>>

MarkErrorFails(j) ==
    /\ jobs[j].pc = "failed"
    /\ MayFail \/ Gone(jobs[j].delay)
    /\ FaultJob(j)
    /\ UNCHANGED <<delays, now, lastDate, history>>

(* AfterExecution *)

\* GetLastDateQuery; the executor calls the hook twice, the second call overwrites.
LastDateQuery ==
    LET due == {d \in Delay : delays[d].status \in {"new", "error"}
                              /\ delays[d].startsOn <= now + Slack}
    IN  IF due = {} THEN NoDate
        ELSE CHOOSE t \in {delays[d].startsOn : d \in due} :
                \A d \in due : t <= delays[d].startsOn

AfterExecution ==
    /\ exec = "items" /\ batch = <<>>
    /\ exec' = "idle"
    /\ lastDate' = LastDateQuery
    /\ UNCHANGED <<delays, now, batch, waits, jobs, history>>

\* The push of the query fails: LastDate stays as it was.
AfterExecutionFails ==
    /\ MayFail
    /\ exec = "items" /\ batch = <<>>
    /\ exec' = "idle"
    /\ UNCHANGED <<delays, now, lastDate, batch, waits, jobs, history>>

Crash ==
    /\ crashes < MaxCrashes
    /\ crashes' = crashes + 1
    /\ jobs' = [j \in Job |-> NoJob]
    /\ lastDate' = NoDate
    /\ exec' = "idle" /\ batch' = <<>> /\ waits' = NoWait
    /\ lost' = (lost \/ \E j \in Job : jobs[j].pc = "done")
    /\ UNCHANGED <<async, delays, now, timeOuts>>

-------------------------------------------------------------------------------
Execute ==
    \/ Fetch
    \/ \E j \in Job : RunItem(j)
    \/ batch # <<>> /\ Gone(Head(batch)) /\ RunItemFails
    \/ AfterExecution

Process(j) ==
    \/ Command(j) \/ MarkSuccess(j) \/ MarkError(j)
    \/ Running(j) /\ Gone(jobs[j].delay) /\ (MarkSuccessFails(j) \/ MarkErrorFails(j))

Failure ==
    \/ RunItemFails \/ TimeOut \/ AfterExecutionFails \/ Crash
    \/ \E j \in Job : CommandFails(j) \/ MarkSuccessFails(j) \/ MarkErrorFails(j)

Next ==
    \/ \E d \in Delay, at \in 0..MaxTime, repeat \in Repeats : Schedule(d, at, repeat)
    \/ Tick
    \/ Execute
    \/ \E j \in Job : Process(j)
    \/ Failure

Spec == Init /\ [][Next]_vars

\* Time passes, the timer of the executor elapses, a task runs on, and of what is tried again
\* and again, the hook, the command or a change of a status, some attempt does not fail.
FairSpec ==
    /\ Spec
    /\ WF_vars(Tick) /\ WF_vars(Execute) /\ SF_vars(AfterExecution)
    /\ \A j \in Job : WF_vars(Process(j))
    /\ SF_vars(\E j \in Job : RunItem(j))
    /\ SF_vars(\E j \in Job : Command(j))
    /\ SF_vars(\E j \in Job : MarkSuccess(j))

-------------------------------------------------------------------------------
(* Properties *)

\* A task may have run on while the execution went on.
Detached == async \/ timeOuts > 0

Statuses == {"none", "new", "inProgress", "success", "error", "removed"}

\* Every variable has its type.
TypeOK ==
    /\ delays \in [Delay -> [status : Statuses, startsOn : 0..MaxTime, repeat : Int,
                             ran : 0..2, heirs : 0..2]]
    /\ now \in 0..MaxTime
    /\ lastDate \in {NoDate} \cup 0..MaxTime
    /\ exec \in {"idle", "items", "wait"}
    /\ batch \in Seq(Delay)
    /\ waits \in Job \cup {NoWait}
    /\ jobs \in [Job -> [delay : Delay \cup {"none"}, pc : {"none", "command", "done", "failed"}]]
    /\ crashes \in 0..MaxCrashes
    /\ async \in BOOLEAN /\ timeOuts \in 0..MaxTimeOuts /\ lost \in BOOLEAN

\* The command of a row commits at most once, over failures, retries and restarts, as
\* long as no task outlives the wait for it and no success is lost after the commit.
CommandOnceUnlessLost ==
    ~ Detached /\ ~ lost => \A d \in Delay : delays[d].ran <= 1

\* A recurring row has one successor even when it ran several times, unless two tasks
\* of it ran together.
OneHeirUnlessDetached == ~ Detached => \A d \in Delay : delays[d].heirs <= 1

\* While the execution waits for a task, it is the only one, and its row is in progress.
WaitsForTheOnlyTask ==
    ~ Detached => \A j \in Job :
        Running(j) => waits = j /\ delays[jobs[j].delay].status = "inProgress"

\* A row that is a success stays one.
SuccessIsFinal ==
    [][~ Detached' => \A d \in Delay :
          delays[d].status = "success" => delays'[d].status = "success"]_vars

\* Every row that falls due is executed with success in the end, whatever failed, timed
\* out or crashed before: no error status, no LastDate and no page hides it for ever.
EveryRowSucceeds == \A d \in Delay :
    delays[d].status \in {"new", "inProgress", "error"} ~> delays[d].status \in {"success", "removed"}

\* A row scheduled with RepeatCount n is followed by at most n others.
RepeatCountEnds == \A d \in Delay :
    delays[d].status # "none" /\ delays[d].repeat # Once => delays[d].repeat >= 0
================================================================================
