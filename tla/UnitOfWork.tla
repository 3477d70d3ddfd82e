------------------------------ MODULE UnitOfWork ------------------------------
(***************************************************************************)
(* One entry of DefaultDispatcher.UnitOfWorkCollection: a Lazy<IUnitOfWork> *)
(* and, once it is created, the session and the transaction it owns        *)
(* (UnitOfWorkBase and the Entity Framework provider).                     *)
(*                                                                         *)
(* A write is a token; what it stores is irrelevant here.  What matters is *)
(* whether the session tracks it: entities that are added or removed       *)
(* always are, a changed entity only when the unit of work was created for *)
(* flushing (AutoDetectChangesEnabled; DefaultReadOnly in NHibernate).     *)
(***************************************************************************)
EXTENDS Integers

CONSTANTS
    Setting,        \* the distinct MessageExecuteSettings (database, connection, isolation)
    MaxWrites       \* bound on the writes of one behaviour

ASSUME WritesAssumption == MaxWrites \in Nat

Write == [store : Setting, id : 1..MaxWrites, tracked : BOOLEAN]

Status == {"absent",     \* no entry under this setting
           "lazy",       \* the Lazy is there, its value is not created
           "faulted",    \* the factory threw: the Lazy rethrows from then on
           "open",       \* created, transaction running
           "committed",  \* transaction committed, not disposed yet
           "disposed",   \* rolled back if it was not committed, session closed
           "broken"}     \* Dispose threw: the connection is gone, "disposed" is not set

UnitsOfWork == [status  : Status,
                isFlush : BOOLEAN,
                pending : SUBSET Write,   \* held by the session
                flushed : SUBSET Write]   \* sent to the transaction

Absent == [status |-> "absent", isFlush |-> FALSE, pending |-> {}, flushed |-> {}]

\* AddOrGet: the first message under a setting decides how the unit of work is created.
AddOrGet(u, isFlush) ==
    IF u.status = "absent" THEN [u EXCEPT !.status = "lazy", !.isFlush = isFlush] ELSE u

IsValueCreated(u) == u.status \in {"open", "committed", "disposed", "broken"}

Usable(u) == u.status \in {"open", "committed"}

Tracked(u) == {w \in u.pending : w.tracked}

\* SaveChanges sends what the session tracks.
Flushed(u) == [u EXCEPT !.flushed = @ \cup Tracked(u), !.pending = @ \ Tracked(u)]

\* Without a running transaction the statements of SaveChanges commit one by one
\* (AutoTransactionsEnabled is off), and a disposed unit of work ignores Flush.
FlushUnit(u) == IF Usable(u) THEN Flushed(u) ELSE u

Autocommitted(u) == IF u.status = "committed" THEN Tracked(u) ELSE {}

Disposed(u) == [u EXCEPT !.status = "disposed", !.pending = {}, !.flushed = {}]
===============================================================================
