------------------------------ MODULE Dispatcher ------------------------------
(***************************************************************************)
(* DefaultDispatcher: one dispatcher instance, the pushes nested on it and *)
(* the units of work they share.                                           *)
(*                                                                         *)
(* A Push runs on behalf of a caller.  frame[0] stands for the code outside *)
(* the dispatcher and frame[d] for the d-th nested Push; frame[depth] is   *)
(* the one that runs, each other one waits inside a message it executes.   *)
(* Push, PushAsync (awaited) and Query share this shape: the handler is    *)
(* the same loop.  Messages are arbitrary programs: they may use the       *)
(* repository, write, flush, push further messages, return or throw.  An   *)
(* interception that throws is a message that throws at its first or last  *)
(* statement.                                                              *)
(***************************************************************************)
EXTENDS UnitOfWork, Sequences

CONSTANTS
    Composites,     \* the CommandComposites callers push, as sequences of parts
    MaxDepth,       \* bound on the nesting of pushes
    CatchNested,    \* whether a message may swallow the exception of a nested push
    DisposeMayFail  \* whether IUnitOfWork.Dispose may throw (lost connection)

Part == [setting : Setting, command : BOOLEAN]

ASSUME DispatcherAssumption ==
    /\ Composites \subseteq Seq(Part) \ {<<>>}
    /\ MaxDepth \in Nat \ {0}
    /\ CatchNested \in BOOLEAN
    /\ DisposeMayFail \in BOOLEAN

VARIABLES
    uows,       \* unitOfWorkCollection
    frame,      \* the nested pushes
    depth,      \* how many of them are running
    db,         \* the writes that are durable
    serial,     \* how many writes were made
    mine,       \* history: the writes made since the dispatcher was last entered
    done,       \* history: those whose command completed, flush included
    failed,     \* history: the writes of every message that threw
    last        \* history: how the last outermost Push ended

vars == <<uows, frame, depth, db, serial, mine, done, failed, last>>
history == <<mine, done, failed, last>>

-------------------------------------------------------------------------------
(* Frames *)

Pcs == {"loop", "execute", "commit", "finally"}

Caller == [parts |-> <<>>, left |-> {}, at |-> 0, isOuter |-> FALSE, isFlush |-> FALSE,
           pc |-> "execute", wrote |-> {}, exn |-> FALSE]

IsFlush(parts) == \E i \in DOMAIN parts : parts[i].command

\* Mutant: every push takes itself for the outer cycle.
EveryPushIsOuter == TRUE

IsOuterCycle == \A s \in Setting : uows[s].status = "absent"

\* Parts.GroupBy(part => part.Setting): groups in the order of their first part.
First(parts, i) == CHOOSE k \in DOMAIN parts :
                      /\ parts[k].setting = parts[i].setting
                      /\ \A j \in DOMAIN parts : parts[j].setting = parts[i].setting => k <= j
Precedes(parts, i, j) == \/ First(parts, i) < First(parts, j)
                         \/ First(parts, i) = First(parts, j) /\ i <= j

Top == frame[depth]
Current == Top.parts[Top.at]
Unit == uows[Current.setting]
Executing == depth > 0 /\ Top.pc = "execute"

SetTop(f) == frame' = [frame EXCEPT ![depth] = f]
SetUnit(u) == uows' = [uows EXCEPT ![Current.setting] = u]

-------------------------------------------------------------------------------
Init ==
    /\ uows = [s \in Setting |-> Absent]
    /\ frame = [d \in 0..MaxDepth |-> Caller]
    /\ depth = 0
    /\ db = {}
    /\ serial = 0
    /\ mine = {} /\ done = {} /\ failed = {}
    /\ last = [ok |-> FALSE, isFlush |-> FALSE]

\* Mutant: the index of a part runs from 0 to Count, one too far.
PushOneTooMany(parts) ==
    /\ depth < MaxDepth
    /\ Top.pc = "execute"
    /\ depth' = depth + 1
    /\ frame' = [frame EXCEPT ![depth + 1] =
                    [Caller EXCEPT !.parts = parts, !.left = 1..(Len(parts) + 1), !.pc = "loop",
                                   !.isOuter = IsOuterCycle, !.isFlush = IsFlush(parts)]]
    /\ mine' = IF depth = 0 THEN {} ELSE mine
    /\ done' = IF depth = 0 THEN {} ELSE done
    /\ UNCHANGED <<uows, db, serial, failed, last>>

\* Mutant: a push never finds that it is the outer cycle.
PushNeverOuter(parts) ==
    /\ depth < MaxDepth
    /\ Top.pc = "execute"
    /\ depth' = depth + 1
    /\ frame' = [frame EXCEPT ![depth + 1] =
                    [Caller EXCEPT !.parts = parts, !.left = DOMAIN parts, !.pc = "loop",
                                   !.isFlush = IsFlush(parts)]]
    /\ mine' = IF depth = 0 THEN {} ELSE mine
    /\ done' = IF depth = 0 THEN {} ELSE done
    /\ UNCHANGED <<uows, db, serial, failed, last>>

\* Push(composite), from outside or from a message that runs on this dispatcher.
Push(parts) ==
    /\ depth < MaxDepth
    /\ Top.pc = "execute"
    /\ depth' = depth + 1
    /\ frame' = [frame EXCEPT ![depth + 1] =
                    [Caller EXCEPT !.parts = parts, !.left = DOMAIN parts, !.pc = "loop",
                                   !.isOuter = IsOuterCycle, !.isFlush = IsFlush(parts)]]
    /\ mine' = IF depth = 0 THEN {} ELSE mine
    /\ done' = IF depth = 0 THEN {} ELSE done
    /\ UNCHANGED <<uows, db, serial, failed, last>>

\* Mutant: the loop does not advance.
StartPartAgain(i) ==
    /\ depth > 0 /\ Top.pc = "loop"
    /\ i \in Top.left
    /\ \A j \in Top.left : Precedes(Top.parts, i, j)
    /\ SetTop([Top EXCEPT !.at = i, !.pc = "execute", !.wrote = {}])
    /\ uows' = [uows EXCEPT ![Top.parts[i].setting] = AddOrGet(@, Top.isFlush)]
    /\ UNCHANGED <<depth, db, serial, history>>

\* The next part of the grouped loop gets its unit of work and starts to execute.
StartPart(i) ==
    /\ depth > 0 /\ Top.pc = "loop"
    /\ i \in Top.left
    /\ \A j \in Top.left : Precedes(Top.parts, i, j)
    /\ SetTop([Top EXCEPT !.at = i, !.left = @ \ {i}, !.pc = "execute", !.wrote = {}])
    /\ uows' = [uows EXCEPT ![Top.parts[i].setting] = AddOrGet(@, Top.isFlush)]
    /\ UNCHANGED <<depth, db, serial, history>>

\* The first use of Repository creates the unit of work and begins its transaction.
OpenUnitOfWork ==
    /\ Executing
    /\ Unit.status = "lazy"
    /\ SetUnit([Unit EXCEPT !.status = "open"])
    /\ UNCHANGED <<frame, depth, db, serial, history>>

\* Mutant: the commit sits in the finally block.
RaisedThenCommit(f) ==
    [f EXCEPT !.pc = IF f.isOuter THEN "commit" ELSE "finally", !.exn = TRUE, !.wrote = {}]

Raised(f) == [f EXCEPT !.pc = "finally", !.exn = TRUE, !.wrote = {}]

Raise == SetTop(Raised(Top)) /\ failed' = failed \cup Top.wrote

\* The factory throws, or an unusable unit of work is touched; the Lazy remembers
\* the exception of its factory.
RepositoryFails ==
    /\ Executing
    /\ ~ Usable(Unit)
    /\ SetUnit(IF Unit.status = "lazy" THEN [Unit EXCEPT !.status = "faulted"] ELSE Unit)
    /\ Raise
    /\ UNCHANGED <<depth, db, serial, mine, done, last>>

\* A command adds, removes or changes an entity.
WriteEntity(changes) ==
    /\ Executing
    /\ Current.command /\ Usable(Unit)
    /\ serial < MaxWrites
    /\ serial' = serial + 1
    /\ LET w == [store |-> Current.setting, id |-> serial + 1,
                 tracked |-> Unit.isFlush \/ ~ changes]
       IN  /\ SetUnit([Unit EXCEPT !.pending = @ \cup {w}])
           /\ SetTop([Top EXCEPT !.wrote = @ \cup {w}])
           /\ mine' = mine \cup {w}
    /\ UNCHANGED <<depth, db, done, failed, last>>

\* A message calls Repository.Flush itself.
FlushRepository ==
    /\ Executing
    /\ Usable(Unit)
    /\ SetUnit(FlushUnit(Unit))
    /\ db' = db \cup Autocommitted(Unit)
    /\ UNCHANGED <<frame, depth, serial, history>>

NothingToSend == Unit.status = "broken" => Tracked(Unit) = {}

\* Mutant: no flush after a command.
EndPartNoFlush ==
    /\ Executing
    /\ done' = done \cup Top.wrote
    /\ SetTop([Top EXCEPT !.at = 0, !.pc = "loop", !.wrote = {}])
    /\ UNCHANGED <<uows, db, depth, serial, mine, failed, last>>

\* The message returns; a command's unit of work is flushed when it was created.
EndPart ==
    /\ Executing
    /\ Current.command => NothingToSend
    /\ IF Current.command
          THEN /\ SetUnit(FlushUnit(Unit))
               /\ db' = db \cup Autocommitted(Unit)
          ELSE UNCHANGED <<uows, db>>
    /\ done' = done \cup Top.wrote
    /\ SetTop([Top EXCEPT !.at = 0, !.pc = "loop", !.wrote = {}])
    /\ UNCHANGED <<depth, serial, mine, failed, last>>

\* The message or an interception throws.
Throw ==
    /\ Executing
    /\ Raise
    /\ UNCHANGED <<uows, depth, db, serial, mine, done, last>>

\* The flush after a command throws: nothing reached the transaction.
FlushFails ==
    /\ Executing
    /\ Current.command /\ IsValueCreated(Unit) /\ Unit.status # "disposed"
    /\ Raise
    /\ UNCHANGED <<uows, depth, db, serial, mine, done, last>>

\* Mutant: a nested push of commands commits too.
EndLoopNestedCommits ==
    /\ depth > 0 /\ Top.pc = "loop"
    /\ Top.left = {}
    /\ SetTop([Top EXCEPT !.pc = IF Top.isFlush THEN "commit" ELSE "finally"])
    /\ UNCHANGED <<uows, depth, db, serial, history>>

\* Every part ran: an outer cycle that holds a command commits.
EndLoop ==
    /\ depth > 0 /\ Top.pc = "loop"
    /\ Top.left = {}
    /\ SetTop([Top EXCEPT !.pc = IF Top.isOuter /\ Top.isFlush THEN "commit" ELSE "finally"])
    /\ UNCHANGED <<uows, depth, db, serial, history>>

\* unitOfWorkCollection.Commit(), one created unit of work after the other.
CommitUnit(s) ==
    /\ depth > 0 /\ Top.pc = "commit"
    /\ uows[s].status = "open"
    /\ uows' = [uows EXCEPT ![s].status = "committed"]
    /\ db' = db \cup uows[s].flushed
    /\ UNCHANGED <<frame, depth, serial, history>>

CommitFails(s) ==
    /\ depth > 0 /\ Top.pc = "commit"
    /\ uows[s].status = "open"
    /\ Raise
    /\ UNCHANGED <<uows, depth, db, serial, mine, done, last>>

EndCommit ==
    /\ depth > 0 /\ Top.pc = "commit"
    /\ \A s \in Setting : uows[s].status # "open"
    /\ SetTop([Top EXCEPT !.pc = "finally"])
    /\ UNCHANGED <<uows, depth, db, serial, history>>

\* The Push returns, or throws into the message that made it, which swallows the
\* exception or ends with it.
Leave(exn) ==
    /\ depth' = depth - 1
    /\ \E escapes \in IF exn /\ depth > 1 THEN IF CatchNested THEN BOOLEAN ELSE {TRUE}
                                           ELSE {FALSE} :
          /\ frame' = [frame EXCEPT ![depth] = Caller,
                                    ![depth - 1] = IF escapes THEN Raised(@) ELSE @]
          /\ failed' = IF escapes THEN failed \cup frame[depth - 1].wrote ELSE failed
    /\ last' = IF depth = 1 THEN [ok |-> ~ exn, isFlush |-> Top.isFlush] ELSE last

Undisposed(s) == IsValueCreated(uows[s]) /\ uows[s].status # "disposed"

DisposeUnit(s) ==
    /\ depth > 0 /\ Top.pc = "finally" /\ Top.isOuter
    /\ Undisposed(s)
    /\ uows' = [uows EXCEPT ![s] = Disposed(@)]
    /\ UNCHANGED <<frame, depth, db, serial, history>>

\* The exception of one Dispose skips the others and Clear().
DisposeFails(s) ==
    /\ DisposeMayFail
    /\ depth > 0 /\ Top.pc = "finally" /\ Top.isOuter
    /\ Undisposed(s)
    /\ uows' = [uows EXCEPT ![s].status = "broken", ![s].flushed = {}]
    /\ Leave(TRUE)
    /\ UNCHANGED <<db, serial, mine, done>>

\* Mutant: Dispose() does not clear the collection.
EndPushNoClear ==
    /\ depth > 0 /\ Top.pc = "finally"
    /\ Top.isOuter => \A s \in Setting : ~ Undisposed(s)
    /\ Leave(Top.exn)
    /\ UNCHANGED <<uows, db, serial, mine, done>>

EndPush ==
    /\ depth > 0 /\ Top.pc = "finally"
    /\ Top.isOuter => \A s \in Setting : ~ Undisposed(s)
    /\ uows' = IF Top.isOuter THEN [s \in Setting |-> Absent] ELSE uows
    /\ Leave(Top.exn)
    /\ UNCHANGED <<db, serial, mine, done>>

Message ==
    \/ OpenUnitOfWork
    \/ RepositoryFails
    \/ \E changes \in BOOLEAN : WriteEntity(changes)
    \/ FlushRepository
    \/ EndPart
    \/ Throw
    \/ FlushFails

Loop ==
    \/ \E i \in DOMAIN Top.parts : StartPart(i)
    \/ EndLoop
    \/ EndCommit
    \/ EndPush
    \/ \E s \in Setting : CommitUnit(s) \/ CommitFails(s) \/ DisposeUnit(s) \/ DisposeFails(s)

Next ==
    \/ \E parts \in Composites : Push(parts)
    \/ Message
    \/ Loop

Spec == Init /\ [][Next]_vars

\* The loop is straight-line code and a message's Execute ends, however often it
\* was suspended by a nested push meanwhile.
EndOfMessage(d) == depth = d /\ (EndPart \/ Throw \/ FlushFails \/ RepositoryFails)

FairSpec == Spec /\ WF_vars(Loop) /\ \A d \in 1..MaxDepth : SF_vars(EndOfMessage(d))

-------------------------------------------------------------------------------
(* Properties *)

Frame == [parts : Composites \cup {<<>>}, left : SUBSET Nat, at : Nat,
          isOuter : BOOLEAN, isFlush : BOOLEAN, pc : Pcs, wrote : SUBSET Write, exn : BOOLEAN]

\* Every variable has its type, and the part a frame executes is a part of its composite.
TypeOK ==
    /\ uows \in [Setting -> UnitsOfWork]
    /\ frame \in [0..MaxDepth -> Frame]
    /\ depth \in 0..MaxDepth
    /\ \A d \in 0..MaxDepth : frame[d].left \subseteq DOMAIN frame[d].parts
    /\ \A d \in 1..depth : frame[d].pc = "execute" => frame[d].at \in DOMAIN frame[d].parts
    /\ db \in SUBSET Write
    /\ serial \in 0..MaxWrites
    /\ mine \in SUBSET Write /\ done \in SUBSET Write /\ failed \in SUBSET Write
    /\ last \in [ok : BOOLEAN, isFlush : BOOLEAN]

\* While the outermost Push still executes messages, nothing written since it was
\* entered is durable, however the pushes nested in it ended (DefaultDispatcher
\* commits only in the cycle that found the collection empty).
NothingDurableBeforeCommit ==
    depth > 0 /\ frame[1].pc \in {"loop", "execute"} => mine \cap db = {}

\* An outermost Push of commands that returns has made durable every tracked write of
\* every command that completed in it, at any depth and under any setting.
CommittedCycleIsDurable ==
    depth = 0 /\ last.ok /\ last.isFlush => {w \in done : w.tracked} \subseteq db

\* The same for every outermost Push, one of a query included.
OuterCycleCommits == depth = 0 /\ last.ok => {w \in done : w.tracked} \subseteq db

\* The flush that follows a command sends everything the command wrote: after an outermost
\* Push of commands that returns, every write of every completed command is durable.
CommandsFlush == depth = 0 /\ last.ok /\ last.isFlush => done \subseteq db

\* Between two outermost pushes no unit of work is left, unless a Dispose threw: then
\* Clear() was skipped and the dispatcher is never an outer cycle again.
LeakOnlyAfterFailedDispose ==
    depth = 0 => \/ \A s \in Setting : uows[s].status = "absent"
                 \/ \E s \in Setting : uows[s].status = "broken"

\* The nested pushes form a stack: only the first is an outer cycle, only an outer cycle
\* commits, and every push but the last waits inside the message it executes.
StackDiscipline ==
    \A d \in 1..depth : /\ frame[d].isOuter <=> d = 1
                        /\ frame[d].pc = "commit" => frame[d].isOuter
                        /\ d < depth => frame[d].pc = "execute"

\* The collection is empty exactly while no outer cycle uses it, and how far a unit of
\* work can have come follows from how far the outer cycle has.
UnitsDiscipline ==
    /\ depth = 0 => \A s \in Setting : uows[s].status = "absent"
    /\ depth > 0 /\ frame[1].pc = "execute" => \E s \in Setting : uows[s].status # "absent"
    /\ \A s \in Setting :
          /\ uows[s].status = "committed" => depth > 0 /\ frame[1].pc \in {"commit", "finally"}
          /\ uows[s].status = "disposed" => depth > 0 /\ frame[1].pc = "finally"
          /\ uows[s].status # "broken"

\* A write is numbered before it can be anywhere.
SerialBoundsWrites ==
    /\ \A w \in db : w.id <= serial
    /\ \A s \in Setting : \A w \in uows[s].pending \cup uows[s].flushed : w.id <= serial

CycleDiscipline == StackDiscipline /\ UnitsDiscipline /\ SerialBoundsWrites

\* What a Dispose that threw leaves behind: no push on this dispatcher is an outer cycle.
Poisoned ==
    /\ DisposeMayFail
    /\ \E s \in Setting : uows[s].status = "broken"
    /\ \A d \in 1..depth : ~ frame[d].isOuter

\* When no message swallows the exception of a nested push, and no Dispose threw before,
\* nothing that a message wrote before it threw becomes durable.
FailedMessageNeverDurable == CatchNested \/ Poisoned \/ failed \cap db = {}

\* The cycle discipline holds until a Dispose throws, and never again after that.
DisciplineUnlessPoisoned ==
    (CycleDiscipline /\ NothingDurableBeforeCommit) \/ Poisoned

\* Every outermost Push ends.
CycleEnds == depth > 0 ~> depth = 0

\* A transaction that was begun does not stay open.
TransactionCloses == \A s \in Setting : uows[s].status = "open" ~> uows[s].status # "open"

\* The dispatcher implements a transactional cycle; what is flushed in an open
\* transaction is the cycle's work.
Stage == IF depth = 0 THEN "idle"
         ELSE CASE frame[1].pc \in {"loop", "execute"} -> "working"
                [] frame[1].pc = "commit" -> "committing"
                [] OTHER -> "closing"

Cycle == INSTANCE TransactionalCycle WITH
            Store <- Setting, Work <- Write, stage <- Stage,
            work <- [s \in Setting |-> IF uows[s].status = "open" THEN uows[s].flushed ELSE {}]

TransactionalCycle == Cycle!CycleSpec
===============================================================================
