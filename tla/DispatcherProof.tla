---------------------------- MODULE DispatcherProof ----------------------------
(***************************************************************************)
(* What holds of Dispatcher for every set of settings and composites, every *)
(* bound and either way of handling exceptions: its types, the discipline   *)
(* of its cycles, what is durable when one ends, and that it implements     *)
(* TransactionalCycle.                                                      *)
(***************************************************************************)
EXTENDS Dispatcher, TLAPS

USE DEF UnitsOfWork, Status

-------------------------------------------------------------------------------
(* The units of work keep their type *)

LEMMA UnitOfWorkTypes ==
    ASSUME NEW u \in UnitsOfWork, NEW b \in BOOLEAN
    PROVE  /\ AddOrGet(u, b) \in UnitsOfWork
           /\ FlushUnit(u) \in UnitsOfWork
           /\ Disposed(u) \in UnitsOfWork
           /\ Tracked(u) \in SUBSET Write
           /\ Autocommitted(u) \in SUBSET Write
  BY DEF AddOrGet, FlushUnit, Flushed, Disposed, Tracked, Autocommitted, Usable

LEMMA AbsentType == Absent \in UnitsOfWork
  BY DEF Absent

LEMMA CompositeType ==
    ASSUME NEW c \in Composites
    PROVE  /\ c \in Seq(Part)
           /\ DOMAIN c \in SUBSET Nat
           /\ \A i \in DOMAIN c : c[i] \in Part
           /\ IsFlush(c) \in BOOLEAN
  BY DispatcherAssumption DEF IsFlush

LEMMA CallerType == Caller \in Frame
  BY DEF Caller, Frame, Pcs

\* A frame that executes has a part, and the part has a setting.
LEMMA CurrentType ==
    ASSUME TypeOK, Executing
    PROVE  /\ Top \in Frame
           /\ Top.at \in DOMAIN Top.parts
           /\ Current \in Part
           /\ Current.setting \in Setting
           /\ Unit \in UnitsOfWork
  <1>1. Top \in Frame /\ Top.at \in DOMAIN Top.parts
    BY DEF TypeOK, Executing, Top
  <1>2. Top.parts \in Composites
    BY <1>1 DEF Frame
  <1>3. Current \in Part
    BY <1>1, <1>2, CompositeType DEF Current
  <1> QED
    BY <1>1, <1>3 DEF Part, Unit, TypeOK

LEMMA RaisedType ==
    ASSUME NEW f \in Frame
    PROVE  Raised(f) \in Frame /\ Raised(f).left = f.left /\ Raised(f).parts = f.parts
                               /\ Raised(f).pc = "finally"
  BY DEF Raised, Frame, Pcs

-------------------------------------------------------------------------------
(* Type correctness *)

\* The conjuncts of TypeOK that speak of frames.
FramesOK ==
    /\ frame \in [0..MaxDepth -> Frame]
    /\ \A d \in 0..MaxDepth : frame[d].left \subseteq DOMAIN frame[d].parts
    /\ \A d \in 1..depth : frame[d].pc = "execute" => frame[d].at \in DOMAIN frame[d].parts

LEMMA SetTopTypes ==
    ASSUME TypeOK, depth > 0, NEW f \in Frame, SetTop(f),
           f.left \subseteq DOMAIN f.parts,
           f.pc = "execute" => f.at \in DOMAIN f.parts,
           UNCHANGED depth
    PROVE  FramesOK'
  BY DEF TypeOK, SetTop, FramesOK

LEMMA LeaveTypes ==
    ASSUME TypeOK, depth > 0, NEW exn \in BOOLEAN, Leave(exn)
    PROVE  FramesOK' /\ depth' \in 0..MaxDepth /\ failed' \in SUBSET Write
                     /\ last' \in [ok : BOOLEAN, isFlush : BOOLEAN]
  <1>1. Top \in Frame /\ frame[depth - 1] \in Frame
    BY DispatcherAssumption DEF TypeOK, Top
  <1>2. /\ Raised(frame[depth - 1]) \in Frame
        /\ Raised(frame[depth - 1]).left = frame[depth - 1].left
        /\ Raised(frame[depth - 1]).parts = frame[depth - 1].parts
        /\ Raised(frame[depth - 1]).pc = "finally"
    BY <1>1, RaisedType
  <1>3. Caller \in Frame /\ Caller.left = {}
    BY CallerType DEF Caller
  <1>4. FramesOK'
    <2>1. PICK g : /\ frame' = [frame EXCEPT ![depth] = Caller, ![depth - 1] = g]
                   /\ g \in {Raised(frame[depth - 1]), frame[depth - 1]}
      BY DEF Leave
    <2>2. g \in Frame /\ g.left = frame[depth - 1].left /\ g.parts = frame[depth - 1].parts
      BY <1>1, <1>2, <2>1
    <2>3. g.pc = "execute" => g.pc = frame[depth - 1].pc /\ g.at = frame[depth - 1].at
      BY <1>2, <2>1
    <2>4. depth \in 1..MaxDepth /\ depth' = depth - 1
      BY DispatcherAssumption DEF TypeOK, Leave
    <2>5. /\ frame' \in [0..MaxDepth -> Frame]
          /\ \A d \in 0..MaxDepth : frame'[d] = IF d = depth THEN Caller
                                                ELSE IF d = depth - 1 THEN g ELSE frame[d]
      <3>1. frame \in [0..MaxDepth -> Frame] /\ Caller \in Frame
        BY <1>3 DEF TypeOK
      <3>2. depth \in 0..MaxDepth /\ depth - 1 \in 0..MaxDepth
        BY <2>4, DispatcherAssumption
      <3>3. \A d \in 0..MaxDepth : frame'[d] = IF d = depth - 1 THEN g
                                               ELSE IF d = depth THEN Caller ELSE frame[d]
        BY <2>1, <3>1, <3>2
      <3> QED
        BY <2>1, <2>2, <2>4, <3>1, <3>2, <3>3
    <2>6. \A d \in 0..MaxDepth : frame'[d].left \subseteq DOMAIN frame'[d].parts
      BY <1>3, <2>2, <2>4, <2>5 DEF TypeOK
    <2>7. \A d \in 1..depth' : frame'[d].pc = "execute" => frame'[d].at \in DOMAIN frame'[d].parts
      BY <2>2, <2>3, <2>4, <2>5, DispatcherAssumption DEF TypeOK
    <2> QED
      BY <2>5, <2>6, <2>7 DEF FramesOK
  <1>5. failed' \in SUBSET Write
    BY <1>1 DEF TypeOK, Leave, Frame
  <1>6. last' \in [ok : BOOLEAN, isFlush : BOOLEAN]
    BY <1>1 DEF TypeOK, Leave, Frame
  <1>7. depth \in 0..MaxDepth
    BY DEF TypeOK
  <1>8. depth' = depth - 1
    BY DEF Leave
  <1>9. depth' \in 0..MaxDepth
    BY <1>7, <1>8, DispatcherAssumption
  <1> QED
    BY <1>4, <1>5, <1>6, <1>9

LEMMA TypeInit == Init => TypeOK
  BY CallerType, AbsentType, DispatcherAssumption, WritesAssumption DEF Init, TypeOK, Caller

LEMMA TypeNext == TypeOK /\ [Next]_vars => TypeOK'
  <1> SUFFICES ASSUME TypeOK, [Next]_vars PROVE TypeOK'
    OBVIOUS
  <1>0. depth > 0 => Top \in Frame /\ Top.left \subseteq DOMAIN Top.parts
    BY DEF TypeOK, Top
  <1>1. ASSUME NEW parts \in Composites, Push(parts) PROVE TypeOK'
    <2> DEFINE f == [Caller EXCEPT !.parts = parts, !.left = DOMAIN parts, !.pc = "loop",
                                   !.isOuter = IsOuterCycle, !.isFlush = IsFlush(parts)]
    <2>1. f \in Frame /\ f.left = DOMAIN f.parts /\ f.pc = "loop"
      BY CompositeType DEF Caller, Frame, Pcs, IsOuterCycle
    <2>2. depth' = depth + 1 /\ depth \in 0..MaxDepth /\ depth' \in 1..MaxDepth
      BY <1>1, DispatcherAssumption DEF Push, TypeOK
    <2>3. frame' = [frame EXCEPT ![depth'] = f]
      BY <1>1 DEF Push
    <2>4. FramesOK'
      BY <2>1, <2>2, <2>3 DEF TypeOK, FramesOK
    <2> QED
      BY <1>1, <2>2, <2>4 DEF Push, TypeOK, FramesOK
  <1>2. ASSUME NEW i \in DOMAIN Top.parts, StartPart(i) PROVE TypeOK'
    <2>1. Top \in Frame /\ Top.parts \in Composites /\ i \in Nat /\ Top.isFlush \in BOOLEAN
      BY <1>0, <1>2, CompositeType DEF StartPart, Frame
    <2> DEFINE f == [Top EXCEPT !.at = i, !.left = @ \ {i}, !.pc = "execute", !.wrote = {}]
    <2>2. f \in Frame /\ f.left \subseteq DOMAIN f.parts /\ f.at \in DOMAIN f.parts
      BY <1>0, <1>2, <2>1 DEF Frame, Pcs, StartPart
    <2>3. FramesOK'
      BY <1>2, <2>2, SetTopTypes DEF StartPart
    <2>4. uows' \in [Setting -> UnitsOfWork]
      <3>1. Top.parts[i].setting \in Setting
        BY <1>2, <2>1, CompositeType DEF Part
      <3>2. AddOrGet(uows[Top.parts[i].setting], Top.isFlush) \in UnitsOfWork
        BY <2>1, <3>1, UnitOfWorkTypes DEF TypeOK
      <3> QED
        BY <1>2, <3>1, <3>2 DEF StartPart, TypeOK
    <2> QED
      BY <1>2, <2>3, <2>4 DEF StartPart, TypeOK, FramesOK, history
  <1>3. CASE OpenUnitOfWork
    <2>1. uows' \in [Setting -> UnitsOfWork]
      BY <1>3, CurrentType DEF OpenUnitOfWork, SetUnit, TypeOK
    <2> QED
      BY <1>3, <2>1 DEF OpenUnitOfWork, TypeOK, history
  <1>4. ASSUME Raise, depth > 0, uows' \in [Setting -> UnitsOfWork],
               UNCHANGED <<depth, db, serial, mine, done, last>>
        PROVE  TypeOK'
    <2>1. FramesOK'
      BY <1>0, <1>4, RaisedType, SetTopTypes DEF Raise
    <2>2. failed' \in SUBSET Write
      BY <1>0, <1>4 DEF Raise, TypeOK, Frame
    <2> QED
      BY <1>4, <2>1, <2>2 DEF TypeOK, FramesOK
  <1>5. CASE RepositoryFails
    <2>1. uows' \in [Setting -> UnitsOfWork]
      BY <1>5, CurrentType DEF RepositoryFails, SetUnit, TypeOK
    <2> QED
      BY <1>4, <1>5, <2>1 DEF RepositoryFails, Executing
  <1>6. ASSUME NEW changes \in BOOLEAN, WriteEntity(changes) PROVE TypeOK'
    <2> DEFINE w == [store |-> Current.setting, id |-> serial + 1,
                     tracked |-> Unit.isFlush \/ ~ changes]
    <2>0. Executing /\ serial < MaxWrites /\ serial' = serial + 1
      BY <1>6 DEF WriteEntity
    <2>1. w \in Write
      BY <2>0, CurrentType, WritesAssumption DEF Write, TypeOK
    <2>2. uows' \in [Setting -> UnitsOfWork]
      <3>1. SetUnit([Unit EXCEPT !.pending = @ \cup {w}])
        BY <1>6 DEF WriteEntity
      <3>2. [Unit EXCEPT !.pending = @ \cup {w}] \in UnitsOfWork
        BY <2>0, <2>1, CurrentType
      <3> QED
        BY <3>1, <3>2 DEF SetUnit, TypeOK
    <2>3. FramesOK'
      <3> DEFINE f == [Top EXCEPT !.wrote = @ \cup {w}]
      <3>1. SetTop(f) /\ depth > 0 /\ UNCHANGED depth
        BY <1>6 DEF WriteEntity, Executing
      <3>2. f \in Frame /\ f.left \subseteq DOMAIN f.parts /\ f.at \in DOMAIN f.parts
        BY <1>0, <2>0, <2>1, <3>1, CurrentType DEF Frame
      <3> QED
        BY <3>1, <3>2, SetTopTypes
    <2>4. mine' \in SUBSET Write
      BY <1>6, <2>1 DEF WriteEntity, TypeOK
    <2>5. serial' \in 0..MaxWrites
      BY <2>0, WritesAssumption DEF TypeOK
    <2> QED
      BY <1>6, <2>2, <2>3, <2>4, <2>5 DEF WriteEntity, TypeOK, FramesOK
  <1>7. CASE FlushRepository
    <2>1. uows' \in [Setting -> UnitsOfWork] /\ db' \in SUBSET Write
      BY <1>7, CurrentType, UnitOfWorkTypes DEF FlushRepository, SetUnit, TypeOK
    <2> QED
      BY <1>7, <2>1 DEF FlushRepository, TypeOK, history
  <1>8. CASE EndPart
    <2>1. uows' \in [Setting -> UnitsOfWork] /\ db' \in SUBSET Write
      <3>1. Unit \in UnitsOfWork /\ Current.setting \in Setting
        BY <1>8, CurrentType DEF EndPart
      <3>2. FlushUnit(Unit) \in UnitsOfWork /\ Autocommitted(Unit) \in SUBSET Write
        BY <3>1, UnitOfWorkTypes
      <3>3. CASE Current.command
        BY <1>8, <3>1, <3>2, <3>3 DEF EndPart, SetUnit, TypeOK
      <3>4. CASE ~ Current.command
        BY <1>8, <3>4 DEF EndPart, TypeOK
      <3> QED
        BY <3>3, <3>4
    <2>2. FramesOK'
      <3> DEFINE f == [Top EXCEPT !.at = 0, !.pc = "loop", !.wrote = {}]
      <3>1. SetTop(f) /\ depth > 0 /\ UNCHANGED depth
        BY <1>8 DEF EndPart, Executing
      <3>2. f \in Frame /\ f.left \subseteq DOMAIN f.parts /\ f.pc # "execute"
        BY <1>0, <3>1 DEF Frame, Pcs
      <3> QED
        BY <3>1, <3>2, SetTopTypes
    <2>3. done' \in SUBSET Write
      BY <1>0, <1>8 DEF EndPart, Executing, TypeOK, Frame
    <2> QED
      BY <1>8, <2>1, <2>2, <2>3 DEF EndPart, TypeOK, FramesOK
  <1>9. CASE Throw
    BY <1>4, <1>9 DEF Throw, Executing, TypeOK
  <1>10. CASE FlushFails
    BY <1>4, <1>10 DEF FlushFails, Executing, TypeOK
  <1>11. CASE EndLoop
    <2> DEFINE f == [Top EXCEPT !.pc = IF Top.isOuter /\ Top.isFlush THEN "commit" ELSE "finally"]
    <2>1. SetTop(f) /\ depth > 0 /\ UNCHANGED depth
      BY <1>11 DEF EndLoop
    <2>2. f \in Frame /\ f.left \subseteq DOMAIN f.parts /\ f.pc # "execute"
      BY <1>0, <2>1 DEF Frame, Pcs
    <2>3. FramesOK'
      BY <2>1, <2>2, SetTopTypes
    <2> QED
      BY <1>11, <2>3 DEF EndLoop, TypeOK, FramesOK, history
  <1>12. CASE EndCommit
    <2>1. SetTop([Top EXCEPT !.pc = "finally"]) /\ depth > 0 /\ UNCHANGED depth
      BY <1>12 DEF EndCommit
    <2>2. FramesOK'
      BY <1>0, <2>1, SetTopTypes DEF Frame, Pcs
    <2> QED
      BY <1>12, <2>2 DEF EndCommit, TypeOK, FramesOK, history
  <1>13. CASE EndPush
    <2>1. Top.exn \in BOOLEAN /\ depth > 0
      BY <1>0, <1>13 DEF EndPush, Frame
    <2>2. uows' \in [Setting -> UnitsOfWork]
      BY <1>13, AbsentType DEF EndPush, TypeOK
    <2> QED
      BY <1>13, <2>1, <2>2, LeaveTypes DEF EndPush, TypeOK, FramesOK
  <1>14. ASSUME NEW s \in Setting, CommitUnit(s) PROVE TypeOK'
    BY <1>14 DEF CommitUnit, TypeOK, history
  <1>15. ASSUME NEW s \in Setting, CommitFails(s) PROVE TypeOK'
    BY <1>4, <1>15 DEF CommitFails, TypeOK
  <1>16. ASSUME NEW s \in Setting, DisposeUnit(s) PROVE TypeOK'
    BY <1>16, UnitOfWorkTypes DEF DisposeUnit, TypeOK, history
  <1>17. ASSUME NEW s \in Setting, DisposeFails(s) PROVE TypeOK'
    <2>1. uows' \in [Setting -> UnitsOfWork]
      <3>1. uows[s] \in UnitsOfWork
        BY DEF TypeOK
      <3>2. uows' = [uows EXCEPT ![s] = [uows[s] EXCEPT !.status = "broken", !.flushed = {}]]
        BY <1>17 DEF DisposeFails, TypeOK
      <3>3. [uows[s] EXCEPT !.status = "broken", !.flushed = {}] \in UnitsOfWork
        BY <3>1
      <3> QED
        BY <3>2, <3>3 DEF TypeOK
    <2> QED
      BY <1>17, <2>1, LeaveTypes DEF DisposeFails, TypeOK, FramesOK
  <1>18. CASE UNCHANGED vars
    BY <1>18 DEF vars, TypeOK
  <1> QED
    BY <1>1, <1>2, <1>3, <1>5, <1>6, <1>7, <1>8, <1>9, <1>10, <1>11, <1>12, <1>13, <1>14,
       <1>15, <1>16, <1>17, <1>18 DEF Next, Message, Loop

\* Type correctness, whatever the messages do and whatever fails.
THEOREM TypeCorrect == Spec => []TypeOK
  BY TypeInit, TypeNext, PTL DEF Spec

-------------------------------------------------------------------------------
(* The cycle discipline *)

\* The properties of the frames and units of work that the conjuncts below speak of.
LEMMA WhereTheTopIs ==
    ASSUME TypeOK, StackDiscipline, depth > 0
    PROVE  /\ depth \in 1..MaxDepth
           /\ Top.isOuter <=> depth = 1
           /\ depth > 1 => frame[1].pc = "execute"
           /\ Top.pc = "commit" => depth = 1
           /\ depth = 1 => Top = frame[1]
           /\ Top.pc \in {"loop", "execute"} => frame[1].pc \in {"loop", "execute"}
  <1>1. depth \in 1..MaxDepth
    BY DispatcherAssumption DEF TypeOK
  <1> QED
    BY <1>1 DEF StackDiscipline, Top

LEMMA SetTopDiscipline ==
    ASSUME TypeOK, StackDiscipline, depth > 0, NEW f, SetTop(f),
           f.isOuter = Top.isOuter, f.pc = "commit" => f.isOuter, UNCHANGED depth
    PROVE  /\ StackDiscipline'
           /\ frame'[1] = IF depth = 1 THEN f ELSE frame[1]
  <1>1. depth \in 1..MaxDepth
    BY DispatcherAssumption DEF TypeOK
  <1>2. \A d \in 1..depth : frame'[d] = IF d = depth THEN f ELSE frame[d]
    BY <1>1 DEF SetTop, TypeOK
  <1> QED
    BY <1>1, <1>2 DEF StackDiscipline, Top

LEMMA LeaveDiscipline ==
    ASSUME TypeOK, StackDiscipline, depth > 0, NEW exn \in BOOLEAN, Leave(exn)
    PROVE  /\ StackDiscipline'
           /\ depth' = depth - 1
           /\ depth' > 0 => \/ frame'[1] = frame[1]
                            \/ frame'[1].pc = "finally"
  <1>1. depth \in 1..MaxDepth /\ depth' = depth - 1
    BY DispatcherAssumption DEF TypeOK, Leave
  <1>2. PICK g : /\ frame' = [frame EXCEPT ![depth] = Caller, ![depth - 1] = g]
                 /\ g \in {Raised(frame[depth - 1]), frame[depth - 1]}
    BY DEF Leave
  <1>3. \A d \in 1..depth' : frame'[d] = IF d = depth - 1 THEN g ELSE frame[d]
    <2>1. frame \in [0..MaxDepth -> Frame] /\ MaxDepth \in Nat
      BY DispatcherAssumption DEF TypeOK
    <2> QED
      BY <1>1, <1>2, <2>1
  <1>4. depth > 1 => frame[depth - 1] \in Frame
    BY <1>1, DispatcherAssumption DEF TypeOK
  <1>5. depth > 1 => /\ g.isOuter = frame[depth - 1].isOuter
                     /\ g.pc = "finally" \/ g = frame[depth - 1]
    <2> SUFFICES ASSUME depth > 1 PROVE /\ g.isOuter = frame[depth - 1].isOuter
                                        /\ g.pc = "finally" \/ g = frame[depth - 1]
      OBVIOUS
    <2>1. CASE g = frame[depth - 1]
      BY <2>1
    <2>2. CASE g = Raised(frame[depth - 1])
      BY <1>4, <2>2 DEF Raised, Frame
    <2> QED
      BY <1>2, <2>1, <2>2
  <1>6. depth > 1 => frame[depth - 1].pc = "execute"
    BY <1>1 DEF StackDiscipline
  <1>7. StackDiscipline'
    BY <1>1, <1>3, <1>5, <1>6 DEF StackDiscipline
  <1> QED
    BY <1>1, <1>3, <1>5, <1>7

LEMMA DisciplineInit == Init => CycleDiscipline /\ NothingDurableBeforeCommit
  BY DEF Init, CycleDiscipline, StackDiscipline, UnitsDiscipline, SerialBoundsWrites,
         NothingDurableBeforeCommit, Absent

\* While messages run, every unit of work is at most open.
LEMMA UnitsWhileWorking ==
    ASSUME TypeOK, UnitsDiscipline, NEW s \in Setting, frame[1].pc \in {"loop", "execute"}
    PROVE  uows[s].status \in {"absent", "lazy", "faulted", "open"} /\ Autocommitted(uows[s]) = {}
  <1>1. uows[s] \in UnitsOfWork
    BY DEF TypeOK
  <1> QED
    BY <1>1 DEF UnitsDiscipline, Autocommitted

\* A step that raises an exception in the message that runs.
LEMMA RaiseDiscipline ==
    ASSUME TypeOK, StackDiscipline, depth > 0, Raise, UNCHANGED depth
    PROVE  /\ StackDiscipline'
           /\ frame'[1] = frame[1] \/ frame'[1].pc = "finally"
  <1>1. Top \in Frame
    BY DEF TypeOK, Top
  <1>2. Raised(Top).isOuter = Top.isOuter /\ Raised(Top).pc = "finally"
    BY <1>1 DEF Raised, Frame
  <1> QED
    BY <1>2, SetTopDiscipline DEF Raise

\* Steps that leave the units of work, the durable writes and the numbering alone.
LEMMA QuietStep ==
    ASSUME UnitsDiscipline, SerialBoundsWrites, NothingDurableBeforeCommit, depth > 0,
           UNCHANGED <<uows, db, serial, mine, depth>>,
           \/ frame'[1] = frame[1]
           \/ frame'[1].pc = "finally"
           \/ frame'[1].pc = "loop" /\ frame[1].pc = "execute"
           \/ frame'[1].pc = "commit" /\ frame[1].pc = "loop"
    PROVE  UnitsDiscipline' /\ SerialBoundsWrites' /\ NothingDurableBeforeCommit'
  <1>1. UnitsDiscipline'
    BY DEF UnitsDiscipline
  <1>2. SerialBoundsWrites'
    BY DEF SerialBoundsWrites
  <1>3. NothingDurableBeforeCommit'
    BY DEF NothingDurableBeforeCommit
  <1> QED
    BY <1>1, <1>2, <1>3

\* A message uses the unit of work of its setting: what becomes of it is no write that
\* was not numbered, and it stays in the collection.
LEMMA UnitStep ==
    ASSUME TypeOK, UnitsDiscipline, SerialBoundsWrites, NothingDurableBeforeCommit,
           depth > 0, depth' = depth, frame[1].pc \in {"loop", "execute"},
           NEW s \in Setting, NEW u \in UnitsOfWork, uows' = [uows EXCEPT ![s] = u],
           u.status \in {"lazy", "faulted", "open"},
           \A w \in u.pending \cup u.flushed : w.id <= serial',
           serial' \in {serial, serial + 1},
           \A w \in mine' \ mine : w.id = serial + 1,
           db' = db,
           frame'[1].pc \in Pcs
    PROVE  UnitsDiscipline' /\ SerialBoundsWrites' /\ NothingDurableBeforeCommit'
  <1>1. \A r \in Setting : uows'[r] = IF r = s THEN u ELSE uows[r]
    BY DEF TypeOK
  <1>2. serial <= serial' /\ serial \in Nat /\ serial' \in Nat
    BY DEF TypeOK
  <1>3. \A r \in Setting : uows[r].status \in {"absent", "lazy", "faulted", "open"}
    BY UnitsWhileWorking
  <1>4. UnitsDiscipline'
    BY <1>1, <1>3 DEF UnitsDiscipline
  <1>5. SerialBoundsWrites'
    <2>1. \A w \in db' : w.id <= serial'
      BY <1>2 DEF SerialBoundsWrites, TypeOK, Write
    <2>2. ASSUME NEW r \in Setting, NEW w \in uows'[r].pending \cup uows'[r].flushed
          PROVE  w.id <= serial'
      <3>1. CASE r = s
        BY <1>1, <2>2, <3>1
      <3>2. CASE r # s
        <4>1. w \in uows[r].pending \cup uows[r].flushed /\ uows[r] \in UnitsOfWork
          BY <1>1, <2>2, <3>2 DEF TypeOK
        <4>2. w.id <= serial /\ w.id \in Nat
          BY <4>1 DEF SerialBoundsWrites, Write
        <4> QED
          BY <1>2, <4>2
      <3> QED
        BY <3>1, <3>2
    <2> QED
      BY <2>1, <2>2 DEF SerialBoundsWrites
  <1>6. NothingDurableBeforeCommit'
    <2>1. mine \cap db = {}
      BY DEF NothingDurableBeforeCommit
    <2>2. \A w \in db : w.id <= serial /\ w.id \in Nat
      BY DEF SerialBoundsWrites, TypeOK, Write
    <2>3. mine' \cap db' = {}
      BY <1>2, <2>1, <2>2
    <2> QED
      BY <2>3 DEF NothingDurableBeforeCommit
  <1> QED
    BY <1>4, <1>5, <1>6

Discipline == CycleDiscipline /\ NothingDurableBeforeCommit

LEMMA DisciplineNext ==
    ASSUME TypeOK, TypeOK', Discipline, [Next]_vars
    PROVE  Discipline' \/ Poisoned'
  <1> USE DEF Discipline, CycleDiscipline
  <1>0. depth > 0 => /\ Top.isOuter <=> depth = 1
                     /\ depth \in 1..MaxDepth
                     /\ depth > 1 => frame[1].pc = "execute"
                     /\ Top.pc = "commit" => depth = 1
                     /\ depth = 1 => Top = frame[1]
                     /\ Top.pc \in {"loop", "execute"} => frame[1].pc \in {"loop", "execute"}
                     /\ Top \in Frame
    BY WhereTheTopIs DEF TypeOK, Top
  <1>01. serial \in Nat /\ (depth > 0 => frame'[1].pc \in Pcs)
    <2>1. 1 \in 0..MaxDepth
      BY DispatcherAssumption
    <2> QED
      BY <2>1 DEF TypeOK, Frame
  <1>02. Executing => /\ frame[1].pc \in {"loop", "execute"} /\ Autocommitted(Unit) = {}
                      /\ Unit.status \in {"absent", "lazy", "faulted", "open"}
    BY <1>0, CurrentType, UnitsWhileWorking DEF Unit, Executing
  <1>03. Executing => \A w \in Unit.pending \cup Unit.flushed : w.id <= serial
    BY CurrentType DEF Unit, SerialBoundsWrites
  <1>1. ASSUME NEW parts \in Composites, Push(parts) PROVE Discipline'
    <2> DEFINE f == [Caller EXCEPT !.parts = parts, !.left = DOMAIN parts, !.pc = "loop",
                                   !.isOuter = IsOuterCycle, !.isFlush = IsFlush(parts)]
    <2>1. depth' = depth + 1 /\ depth \in 0..MaxDepth /\ depth' \in 1..MaxDepth
      BY <1>1, DispatcherAssumption DEF Push, TypeOK
    <2>2. \A d \in 1..depth' : frame'[d] = IF d = depth' THEN f ELSE frame[d]
      BY <1>1, <2>1 DEF Push, TypeOK
    <2>3. f.isOuter = IsOuterCycle /\ f.pc = "loop"
      BY DEF Caller
    <2>4. depth = 0 => IsOuterCycle
      BY DEF UnitsDiscipline, IsOuterCycle
    <2>5. depth > 0 => ~ IsOuterCycle
      BY <1>0, <1>1 DEF Push, UnitsDiscipline, IsOuterCycle
    <2> HIDE DEF f
    <2>6. StackDiscipline'
      <3>1. depth > 0 => frame[depth].pc = "execute"
        BY <1>1 DEF Push, Top
      <3>2. f.isOuter <=> depth' = 1
        BY <2>1, <2>3, <2>4, <2>5
      <3>3. \A d \in 1..depth' : d # depth' => d \in 1..depth /\ d # 1 + depth
        BY <2>1
      <3>4. ASSUME NEW d \in 1..depth'
            PROVE  /\ frame'[d].isOuter <=> d = 1
                   /\ frame'[d].pc = "commit" => frame'[d].isOuter
                   /\ d < depth' => frame'[d].pc = "execute"
        <4>1. CASE d = depth'
          BY <2>1, <2>2, <2>3, <3>2, <4>1
        <4>2. CASE d # depth'
          BY <2>1, <2>2, <3>1, <3>3, <4>2 DEF StackDiscipline
        <4> QED
          BY <4>1, <4>2
      <3> QED
        BY <3>4 DEF StackDiscipline
    <2>7. depth > 0 => frame'[1] = frame[1]
      BY <2>1, <2>2
    <2>8. depth = 0 => frame'[1].pc = "loop"
      <3>1. depth = 0 => 1 \in 1..depth' /\ depth' = 1
        BY <2>1
      <3> QED
        BY <2>2, <2>3, <3>1
    <2>9. UnitsDiscipline'
      BY <1>1, <2>1, <2>7, <2>8 DEF UnitsDiscipline, Push
    <2>10. SerialBoundsWrites'
      BY <1>1 DEF SerialBoundsWrites, Push
    <2>11. NothingDurableBeforeCommit'
      BY <1>1, <2>1, <2>7 DEF NothingDurableBeforeCommit, Push
    <2> QED
      BY <2>6, <2>9, <2>10, <2>11
  <1>2. ASSUME NEW i \in DOMAIN Top.parts, StartPart(i) PROVE Discipline'
    <2> DEFINE f == [Top EXCEPT !.at = i, !.left = @ \ {i}, !.pc = "execute", !.wrote = {}]
               r == Top.parts[i].setting
               u == AddOrGet(uows[r], Top.isFlush)
    <2>1. depth > 0 /\ depth' = depth /\ Top.pc = "loop" /\ SetTop(f)
      BY <1>2 DEF StartPart, history
    <2>2. f.isOuter = Top.isOuter /\ f.pc = "execute"
      BY <1>0, <2>1 DEF Frame
    <2>3. StackDiscipline'
      BY <2>1, <2>2, SetTopDiscipline
    <2>4. r \in Setting /\ Top.isFlush \in BOOLEAN
      BY <1>0, <2>1, CompositeType DEF Frame, Part
    <2>5. uows[r] \in UnitsOfWork /\ u \in UnitsOfWork
      <3>1. uows[r] \in UnitsOfWork
        BY <2>4 DEF TypeOK
      <3> QED
        BY <2>4, <3>1, UnitOfWorkTypes
    <2>6. u.status \in {"lazy", "faulted", "open"} /\ u.pending = uows[r].pending
                                                  /\ u.flushed = uows[r].flushed
      <3>1. uows[r].status \in {"absent", "lazy", "faulted", "open"}
        BY <1>0, <2>1, <2>4, UnitsWhileWorking
      <3> QED
        BY <2>5, <3>1 DEF AddOrGet
    <2>7. \A w \in u.pending \cup u.flushed : w.id <= serial
      BY <2>4, <2>6 DEF SerialBoundsWrites
    <2>8. UNCHANGED <<db, serial, mine>> /\ uows' = [uows EXCEPT ![r] = u]
      BY <1>2 DEF StartPart, history
    <2>9. UnitsDiscipline' /\ SerialBoundsWrites' /\ NothingDurableBeforeCommit'
      BY <1>0, <1>01, <2>1, <2>4, <2>5, <2>6, <2>7, <2>8, UnitStep
    <2> QED
      BY <2>3, <2>9
  <1>3. CASE OpenUnitOfWork
    <2> DEFINE u == [Unit EXCEPT !.status = "open"]
    <2>1. Executing /\ UNCHANGED <<frame, depth, db, serial, mine>>
          /\ uows' = [uows EXCEPT ![Current.setting] = u]
      BY <1>3 DEF OpenUnitOfWork, SetUnit, history
    <2>2. u \in UnitsOfWork /\ u.status = "open" /\ u.pending = Unit.pending
          /\ u.flushed = Unit.flushed /\ Current.setting \in Setting
      BY <2>1, CurrentType
    <2>3. UnitsDiscipline' /\ SerialBoundsWrites' /\ NothingDurableBeforeCommit'
      BY <1>01, <1>02, <1>03, <2>1, <2>2, UnitStep DEF Executing
    <2>4. StackDiscipline'
      BY <2>1 DEF StackDiscipline
    <2> QED
      BY <2>3, <2>4
  <1>4. ASSUME Raise, depth > 0, UNCHANGED <<uows, depth, db, serial, mine>> PROVE Discipline'
    BY <1>4, RaiseDiscipline, QuietStep
  <1>5. CASE RepositoryFails
    <2> DEFINE u == IF Unit.status = "lazy" THEN [Unit EXCEPT !.status = "faulted"] ELSE Unit
    <2>1. Executing /\ Raise /\ UNCHANGED <<depth, db, serial, mine>>
          /\ uows' = [uows EXCEPT ![Current.setting] = u]
      BY <1>5 DEF RepositoryFails, SetUnit
    <2>2. CASE Unit.status = "absent"
      <3>1. uows' = uows
        BY <2>1, <2>2, CurrentType DEF Unit, TypeOK
      <3> QED
        BY <1>4, <2>1, <3>1 DEF Executing
    <2>3. CASE Unit.status # "absent"
      <3>1. u \in UnitsOfWork /\ u.pending = Unit.pending /\ u.flushed = Unit.flushed
            /\ Current.setting \in Setting
        BY <2>1, CurrentType
      <3>2. u.status \in {"lazy", "faulted", "open"}
        BY <1>02, <2>1, <2>3, CurrentType
      <3>3. UnitsDiscipline' /\ SerialBoundsWrites' /\ NothingDurableBeforeCommit'
        BY <1>01, <1>02, <1>03, <2>1, <3>1, <3>2, UnitStep DEF Executing
      <3> QED
        BY <2>1, <3>3, RaiseDiscipline DEF Executing
    <2> QED
      BY <2>2, <2>3
  <1>6. ASSUME NEW changes \in BOOLEAN, WriteEntity(changes) PROVE Discipline'
    <2> DEFINE w == [store |-> Current.setting, id |-> serial + 1,
                     tracked |-> Unit.isFlush \/ ~ changes]
               u == [Unit EXCEPT !.pending = @ \cup {w}]
               f == [Top EXCEPT !.wrote = @ \cup {w}]
    <2>1. /\ Executing /\ Usable(Unit) /\ serial < MaxWrites /\ serial' = serial + 1
          /\ uows' = [uows EXCEPT ![Current.setting] = u] /\ SetTop(f)
          /\ mine' = mine \cup {w} /\ UNCHANGED <<depth, db>>
      BY <1>6 DEF WriteEntity, SetUnit
    <2>2. w \in Write
      BY <2>1, CurrentType, WritesAssumption DEF Write, TypeOK
    <2>3. /\ u \in UnitsOfWork /\ u.status = "open" /\ u.pending = Unit.pending \cup {w}
          /\ u.flushed = Unit.flushed /\ Current.setting \in Setting
      BY <1>02, <2>1, <2>2, CurrentType DEF Usable
    <2>4. \A v \in u.pending \cup u.flushed : v.id <= serial'
      <3>1. \A v \in Unit.pending \cup Unit.flushed : v.id <= serial /\ v.id \in Nat
        BY <1>03, <2>1, CurrentType DEF Write
      <3>2. w.id = serial + 1
        OBVIOUS
      <3> QED
        BY <1>01, <2>1, <2>3, <3>1, <3>2
    <2>5. \A v \in mine' \ mine : v.id = serial + 1
      BY <2>1
    <2>6. UnitsDiscipline' /\ SerialBoundsWrites' /\ NothingDurableBeforeCommit'
      BY <1>01, <1>02, <2>1, <2>3, <2>4, <2>5, UnitStep DEF Executing
    <2>7. f.isOuter = Top.isOuter /\ f.pc = "execute"
      BY <1>0, <2>1 DEF Frame, Executing
    <2>8. StackDiscipline'
      BY <2>1, <2>7, SetTopDiscipline DEF Executing
    <2> QED
      BY <2>6, <2>8
  <1>7. ASSUME Executing, uows' = [uows EXCEPT ![Current.setting] = FlushUnit(Unit)],
               db' = db \cup Autocommitted(Unit), UNCHANGED <<serial, mine, depth>>,
               Unit.status = "open"
        PROVE  UnitsDiscipline' /\ SerialBoundsWrites' /\ NothingDurableBeforeCommit'
    <2> DEFINE u == FlushUnit(Unit)
    <2>1. u \in UnitsOfWork /\ Current.setting \in Setting /\ Unit \in UnitsOfWork
      BY <1>7, CurrentType, UnitOfWorkTypes
    <2>2. u.status = "open" /\ u.pending \cup u.flushed = Unit.pending \cup Unit.flushed
      BY <1>7, <2>1 DEF FlushUnit, Usable, Flushed, Tracked
    <2>3. \A w \in u.pending \cup u.flushed : w.id <= serial'
      BY <1>03, <1>7, <2>2
    <2>4. db' = db
      BY <1>02, <1>7
    <2> QED
      BY <1>01, <1>02, <1>7, <2>1, <2>2, <2>3, <2>4, UnitStep DEF Executing
  <1>8. CASE FlushRepository
    <2>1. Unit.status = "open"
      BY <1>02, <1>8 DEF FlushRepository, Usable
    <2>2. UnitsDiscipline' /\ SerialBoundsWrites' /\ NothingDurableBeforeCommit'
      BY <1>7, <1>8, <2>1 DEF FlushRepository, SetUnit, history
    <2>3. StackDiscipline'
      BY <1>8 DEF FlushRepository, StackDiscipline, history
    <2> QED
      BY <2>2, <2>3
  <1>9. CASE EndPart
    <2> DEFINE f == [Top EXCEPT !.at = 0, !.pc = "loop", !.wrote = {}]
    <2>1. Executing /\ SetTop(f) /\ UNCHANGED <<depth, serial, mine>>
      BY <1>9 DEF EndPart
    <2>2. f.isOuter = Top.isOuter /\ f.pc = "loop"
      BY <1>0, <2>1 DEF Frame, Executing
    <2>3. StackDiscipline' /\ frame'[1] = IF depth = 1 THEN f ELSE frame[1]
      BY <2>1, <2>2, SetTopDiscipline DEF Executing
    <2>4. CASE Current.command /\ Unit.status = "open"
      BY <1>7, <1>9, <2>1, <2>3, <2>4 DEF EndPart, SetUnit
    <2>5. CASE ~ Current.command \/ Unit.status # "open"
      <3>1. UNCHANGED <<uows, db>>
        <4>1. CASE ~ Current.command
          BY <1>9, <4>1 DEF EndPart
        <4>2. CASE Current.command
          <5>1. ~ Usable(Unit)
            BY <1>02, <2>1, <2>5, <4>2 DEF Usable
          <5>2. uows' = [uows EXCEPT ![Current.setting] = Unit]
            BY <1>9, <4>2, <5>1 DEF EndPart, SetUnit, FlushUnit
          <5>3. uows' = uows
            BY <2>1, <5>2, CurrentType DEF Unit, TypeOK
          <5> QED
            BY <1>02, <1>9, <2>1, <4>2, <5>3 DEF EndPart
        <4> QED
          BY <4>1, <4>2
      <3>2. frame'[1] = frame[1] \/ (frame'[1].pc = "loop" /\ frame[1].pc = "execute")
        BY <1>0, <2>1, <2>2, <2>3 DEF Executing
      <3> QED
        BY <2>1, <2>3, <3>1, <3>2, QuietStep DEF Executing
    <2> QED
      BY <2>4, <2>5
  <1>10. CASE Throw
    BY <1>4, <1>10 DEF Throw, Executing
  <1>11. CASE FlushFails
    BY <1>4, <1>11 DEF FlushFails, Executing
  <1>12. CASE EndLoop
    <2> DEFINE f == [Top EXCEPT !.pc = IF Top.isOuter /\ Top.isFlush THEN "commit" ELSE "finally"]
    <2>1. SetTop(f) /\ depth > 0 /\ Top.pc = "loop" /\ UNCHANGED <<uows, depth, db, serial, mine>>
      BY <1>12 DEF EndLoop, history
    <2>2. f.isOuter = Top.isOuter /\ (f.pc = "finally" \/ (f.pc = "commit" /\ f.isOuter))
      BY <1>0, <2>1 DEF Frame
    <2>3. StackDiscipline' /\ frame'[1] = IF depth = 1 THEN f ELSE frame[1]
      BY <2>1, <2>2, SetTopDiscipline
    <2> QED
      BY <1>0, <2>1, <2>2, <2>3, QuietStep
  <1>13. CASE EndCommit
    <2> DEFINE f == [Top EXCEPT !.pc = "finally"]
    <2>1. SetTop(f) /\ depth > 0 /\ UNCHANGED <<uows, depth, db, serial, mine>>
      BY <1>13 DEF EndCommit, history
    <2>2. f.isOuter = Top.isOuter /\ f.pc = "finally"
      BY <1>0, <2>1 DEF Frame
    <2>3. StackDiscipline' /\ frame'[1] = IF depth = 1 THEN f ELSE frame[1]
      BY <2>1, <2>2, SetTopDiscipline
    <2> QED
      BY <2>1, <2>2, <2>3, QuietStep
  <1>14. CASE EndPush
    <2>1. depth > 0 /\ Top.exn \in BOOLEAN /\ Leave(Top.exn) /\ UNCHANGED <<db, serial, mine>>
      BY <1>0, <1>14 DEF EndPush, Frame
    <2>2. /\ StackDiscipline' /\ depth' = depth - 1
          /\ depth' > 0 => frame'[1] = frame[1] \/ frame'[1].pc = "finally"
      BY <2>1, LeaveDiscipline
    <2>3. CASE Top.isOuter
      <3>1. depth' = 0 /\ uows' = [s \in Setting |-> Absent]
        BY <1>0, <1>14, <2>1, <2>2, <2>3 DEF EndPush
      <3>2. UnitsDiscipline'
        BY <3>1 DEF UnitsDiscipline, Absent
      <3>3. SerialBoundsWrites' /\ NothingDurableBeforeCommit'
        BY <2>1, <3>1 DEF SerialBoundsWrites, NothingDurableBeforeCommit, Absent
      <3> QED
        BY <2>2, <3>2, <3>3
    <2>4. CASE ~ Top.isOuter
      <3>1. depth > 1 /\ depth' > 0 /\ uows' = uows
        BY <1>0, <1>14, <2>1, <2>2, <2>4 DEF EndPush
      <3>2. UnitsDiscipline'
        BY <2>1, <2>2, <3>1 DEF UnitsDiscipline
      <3>3. SerialBoundsWrites'
        BY <2>1, <3>1 DEF SerialBoundsWrites
      <3>4. NothingDurableBeforeCommit'
        BY <2>1, <2>2, <3>1 DEF NothingDurableBeforeCommit
      <3> QED
        BY <2>2, <3>2, <3>3, <3>4
    <2> QED
      BY <2>3, <2>4
  <1>15. ASSUME NEW s \in Setting, CommitUnit(s) PROVE Discipline'
    <2>1. /\ depth = 1 /\ frame[1].pc = "commit" /\ depth' = depth /\ frame' = frame
          /\ UNCHANGED <<serial, mine>> /\ db' = db \cup uows[s].flushed
          /\ uows' = [uows EXCEPT ![s] = [uows[s] EXCEPT !.status = "committed"]]
      BY <1>0, <1>15 DEF CommitUnit, history
    <2>2. uows[s] \in UnitsOfWork
      BY DEF TypeOK
    <2>3. \A r \in Setting : /\ uows'[r].status = IF r = s THEN "committed" ELSE uows[r].status
                             /\ uows'[r].pending = uows[r].pending
                             /\ uows'[r].flushed = uows[r].flushed
      BY <2>1, <2>2 DEF TypeOK
    <2>4. StackDiscipline'
      BY <2>1 DEF StackDiscipline
    <2>5. UnitsDiscipline'
      BY <2>1, <2>3 DEF UnitsDiscipline
    <2>6. SerialBoundsWrites'
      BY <2>1, <2>3 DEF SerialBoundsWrites
    <2>7. NothingDurableBeforeCommit'
      BY <2>1 DEF NothingDurableBeforeCommit
    <2> QED
      BY <2>4, <2>5, <2>6, <2>7
  <1>16. ASSUME NEW s \in Setting, CommitFails(s) PROVE Discipline'
    BY <1>4, <1>16 DEF CommitFails
  <1>17. ASSUME NEW s \in Setting, DisposeUnit(s) PROVE Discipline'
    <2>1. /\ depth = 1 /\ frame[1].pc = "finally" /\ depth' = depth /\ frame' = frame
          /\ UNCHANGED <<serial, mine, db>>
          /\ uows' = [uows EXCEPT ![s] = Disposed(uows[s])]
      BY <1>0, <1>17 DEF DisposeUnit, history
    <2>2. uows[s] \in UnitsOfWork
      BY DEF TypeOK
    <2>3. \A r \in Setting : /\ uows'[r].status = IF r = s THEN "disposed" ELSE uows[r].status
                             /\ uows'[r].pending \subseteq uows[r].pending
                             /\ uows'[r].flushed \subseteq uows[r].flushed
      BY <2>1, <2>2 DEF TypeOK, Disposed
    <2>4. StackDiscipline'
      BY <2>1 DEF StackDiscipline
    <2>5. UnitsDiscipline'
      BY <2>1, <2>3 DEF UnitsDiscipline
    <2>6. SerialBoundsWrites'
      BY <2>1, <2>3 DEF SerialBoundsWrites
    <2>7. NothingDurableBeforeCommit'
      BY <2>1 DEF NothingDurableBeforeCommit
    <2> QED
      BY <2>4, <2>5, <2>6, <2>7
  <1>18. ASSUME NEW s \in Setting, DisposeFails(s) PROVE Poisoned'
    <2>1. DisposeMayFail /\ depth = 1 /\ depth' = 0
      BY <1>0, <1>18 DEF DisposeFails, Leave
    <2>2. uows'[s].status = "broken"
      BY <1>18 DEF DisposeFails, TypeOK
    <2> QED
      BY <2>1, <2>2 DEF Poisoned
  <1>19. CASE UNCHANGED vars
    BY <1>19 DEF vars, StackDiscipline, UnitsDiscipline, SerialBoundsWrites,
                 NothingDurableBeforeCommit
  <1> HIDE DEF Discipline, CycleDiscipline
  <1> QED
    BY <1>1, <1>2, <1>3, <1>5, <1>6, <1>8, <1>9, <1>10, <1>11, <1>12, <1>13, <1>14, <1>15,
       <1>16, <1>17, <1>18, <1>19 DEF Next, Message, Loop

\* After a Dispose threw, no push is an outer cycle: nothing is disposed or committed.
LEMMA PoisonedNext ==
    ASSUME TypeOK, TypeOK', Poisoned, [Next]_vars
    PROVE  Poisoned'
  <1>0. DisposeMayFail
    BY DEF Poisoned
  <1>1. PICK s \in Setting : uows[s].status = "broken"
    BY DEF Poisoned
  <1>2. \A d \in 1..depth : ~ frame[d].isOuter
    BY DEF Poisoned
  <1>3. uows[s] \in UnitsOfWork
    BY DEF TypeOK
  <1>4. depth > 0 => Top \in Frame /\ ~ Top.isOuter
    BY <1>2, DispatcherAssumption DEF TypeOK, Top
  <1>5. ASSUME depth > 0, depth' = depth, NEW f, SetTop(f), f.isOuter = Top.isOuter
        PROVE  \A d \in 1..depth' : ~ frame'[d].isOuter
    BY <1>2, <1>4, <1>5, DispatcherAssumption DEF SetTop, TypeOK
  <1>6. ASSUME depth > 0, depth' = depth, Raise
        PROVE  \A d \in 1..depth' : ~ frame'[d].isOuter
    <2>1. Raised(Top).isOuter = Top.isOuter
      BY <1>4, <1>6 DEF Raised, Frame
    <2> QED
      BY <1>5, <1>6, <2>1 DEF Raise
  <1>7. ASSUME NEW u \in UnitsOfWork, Executing, uows' = [uows EXCEPT ![Current.setting] = u],
               Unit.status = "broken" => u.status = "broken"
        PROVE  uows'[s].status = "broken"
    BY <1>1, <1>3, <1>7 DEF Unit, TypeOK
  <1>8. ASSUME NEW u \in UnitsOfWork, NEW b \in BOOLEAN
        PROVE  /\ FlushUnit(u).status = u.status
               /\ u.status = "broken" => AddOrGet(u, b).status = "broken"
    BY <1>8 DEF FlushUnit, Flushed, AddOrGet
  <1>9. ASSUME UNCHANGED frame, depth' = depth PROVE \A d \in 1..depth' : ~ frame'[d].isOuter
    BY <1>2, <1>9
  <1>10. ASSUME NEW parts \in Composites, Push(parts) PROVE Poisoned'
    <2> DEFINE f == [Caller EXCEPT !.parts = parts, !.left = DOMAIN parts, !.pc = "loop",
                                   !.isOuter = IsOuterCycle, !.isFlush = IsFlush(parts)]
    <2>1. depth' = depth + 1 /\ depth \in 0..MaxDepth /\ depth' \in 1..MaxDepth
      BY <1>10, DispatcherAssumption DEF Push, TypeOK
    <2>2. \A d \in 1..depth' : frame'[d] = IF d = depth' THEN f ELSE frame[d]
      BY <1>10, <2>1 DEF Push, TypeOK
    <2>3. ~ f.isOuter
      BY <1>1 DEF Caller, IsOuterCycle
    <2>4. \A d \in 1..depth' : ~ frame'[d].isOuter
      <3> HIDE DEF f
      <3>1. \A d \in 1..depth' : d # depth' => d \in 1..depth
        BY <2>1
      <3> QED
        BY <1>2, <2>2, <2>3, <3>1
    <2> QED
      BY <1>0, <1>1, <1>10, <2>4 DEF Poisoned, Push
  <1>11. ASSUME NEW i \in DOMAIN Top.parts, StartPart(i) PROVE Poisoned'
    <2> DEFINE f == [Top EXCEPT !.at = i, !.left = @ \ {i}, !.pc = "execute", !.wrote = {}]
               r == Top.parts[i].setting
    <2>1. depth > 0 /\ depth' = depth /\ SetTop(f)
          /\ uows' = [uows EXCEPT ![r] = AddOrGet(uows[r], Top.isFlush)]
      BY <1>11 DEF StartPart, history
    <2>2. f.isOuter = Top.isOuter /\ Top.isFlush \in BOOLEAN
      BY <1>4, <2>1 DEF Frame
    <2>3. \A d \in 1..depth' : ~ frame'[d].isOuter
      BY <1>5, <2>1, <2>2
    <2>4. AddOrGet(uows[s], Top.isFlush).status = "broken"
      BY <1>1, <1>3, <1>8, <2>2
    <2>5. uows'[s].status = "broken"
      BY <1>1, <2>1, <2>4 DEF TypeOK
    <2> QED
      BY <1>0, <2>3, <2>5 DEF Poisoned
  <1>12. CASE OpenUnitOfWork
    <2>1. uows'[s].status = "broken"
      BY <1>1, <1>7, <1>12, CurrentType DEF OpenUnitOfWork, SetUnit
    <2> QED
      BY <1>0, <1>9, <1>12, <2>1 DEF OpenUnitOfWork, history, Poisoned
  <1>13. CASE RepositoryFails
    <2>1. uows'[s].status = "broken"
      BY <1>1, <1>7, <1>13, CurrentType DEF RepositoryFails, SetUnit
    <2> QED
      BY <1>0, <1>6, <1>13, <2>1 DEF RepositoryFails, Executing, Poisoned
  <1>14. ASSUME NEW changes \in BOOLEAN, WriteEntity(changes) PROVE Poisoned'
    <2> DEFINE w == [store |-> Current.setting, id |-> serial + 1,
                     tracked |-> Unit.isFlush \/ ~ changes]
               u == [Unit EXCEPT !.pending = @ \cup {w}]
               f == [Top EXCEPT !.wrote = @ \cup {w}]
    <2>1. /\ Executing /\ Usable(Unit) /\ depth' = depth /\ SetTop(f)
          /\ uows' = [uows EXCEPT ![Current.setting] = u]
      BY <1>14 DEF WriteEntity, SetUnit
    <2>2. u.status = Unit.status /\ Unit.status # "broken"
      BY <2>1, CurrentType DEF Usable
    <2>3. uows'[s].status = "broken"
      BY <1>1, <1>3, <2>1, <2>2 DEF Unit, TypeOK
    <2>4. f.isOuter = Top.isOuter /\ depth > 0
      BY <1>4, <2>1 DEF Frame, Executing
    <2> QED
      BY <1>0, <1>5, <2>1, <2>3, <2>4 DEF Poisoned
  <1>15. ASSUME Executing, uows' = [uows EXCEPT ![Current.setting] = FlushUnit(Unit)]
         PROVE  uows'[s].status = "broken"
    BY <1>7, <1>8, <1>15, CurrentType, UnitOfWorkTypes
  <1>16. CASE FlushRepository
    BY <1>0, <1>9, <1>15, <1>16 DEF FlushRepository, SetUnit, history, Poisoned
  <1>17. CASE EndPart
    <2> DEFINE f == [Top EXCEPT !.at = 0, !.pc = "loop", !.wrote = {}]
    <2>1. Executing /\ SetTop(f) /\ depth' = depth /\ depth > 0
      BY <1>17 DEF EndPart, Executing
    <2>2. f.isOuter = Top.isOuter
      BY <1>4, <2>1 DEF Frame
    <2>3. uows'[s].status = "broken"
      <3>1. CASE Current.command
        BY <1>15, <1>17, <3>1 DEF EndPart, SetUnit
      <3>2. CASE ~ Current.command
        BY <1>1, <1>17, <3>2 DEF EndPart
      <3> QED
        BY <3>1, <3>2
    <2> QED
      BY <1>0, <1>5, <2>1, <2>2, <2>3 DEF Poisoned
  <1>18. CASE Throw
    BY <1>0, <1>1, <1>6, <1>18 DEF Throw, Executing, Poisoned
  <1>19. CASE FlushFails
    BY <1>0, <1>1, <1>6, <1>19 DEF FlushFails, Executing, Poisoned
  <1>20. CASE EndLoop
    <2> DEFINE f == [Top EXCEPT !.pc = IF Top.isOuter /\ Top.isFlush THEN "commit" ELSE "finally"]
    <2>1. SetTop(f) /\ depth > 0 /\ UNCHANGED <<uows, depth>>
      BY <1>20 DEF EndLoop, history
    <2>2. f.isOuter = Top.isOuter
      BY <1>4, <2>1 DEF Frame
    <2> QED
      BY <1>0, <1>1, <1>5, <2>1, <2>2 DEF Poisoned
  <1>21. CASE EndCommit
    <2> DEFINE f == [Top EXCEPT !.pc = "finally"]
    <2>1. SetTop(f) /\ depth > 0 /\ UNCHANGED <<uows, depth>>
      BY <1>21 DEF EndCommit, history
    <2>2. f.isOuter = Top.isOuter
      BY <1>4, <2>1 DEF Frame
    <2> QED
      BY <1>0, <1>1, <1>5, <2>1, <2>2 DEF Poisoned
  <1>22. CASE EndPush
    <2>1. depth > 0 /\ Leave(Top.exn) /\ uows' = uows
      BY <1>4, <1>22 DEF EndPush
    <2>2. depth \in 1..MaxDepth /\ depth' = depth - 1 /\ MaxDepth \in Nat
      BY <2>1, DispatcherAssumption DEF TypeOK, Leave
    <2>3. PICK g : /\ frame' = [frame EXCEPT ![depth] = Caller, ![depth - 1] = g]
                   /\ g \in {Raised(frame[depth - 1]), frame[depth - 1]}
      BY <2>1 DEF Leave
    <2>4. \A d \in 1..depth' : frame'[d] = IF d = depth - 1 THEN g ELSE frame[d]
      BY <2>2, <2>3 DEF TypeOK
    <2>5. depth > 1 => frame[depth - 1] \in Frame /\ ~ frame[depth - 1].isOuter
      BY <1>2, <2>2 DEF TypeOK
    <2>6. depth > 1 => ~ g.isOuter
      BY <2>3, <2>5 DEF Raised, Frame
    <2>7. \A d \in 1..depth' : ~ frame'[d].isOuter
      BY <1>2, <2>2, <2>4, <2>6
    <2> QED
      BY <1>0, <1>1, <2>1, <2>7 DEF Poisoned
  <1>23. ASSUME NEW t \in Setting, CommitUnit(t) PROVE Poisoned'
    <2>1. uows'[s].status = "broken"
      BY <1>1, <1>23 DEF CommitUnit, TypeOK
    <2> QED
      BY <1>0, <1>9, <1>23, <2>1 DEF CommitUnit, history, Poisoned
  <1>24. ASSUME NEW t \in Setting, CommitFails(t) PROVE Poisoned'
    BY <1>0, <1>1, <1>6, <1>24 DEF CommitFails, Poisoned
  <1>25. ASSUME NEW t \in Setting, DisposeUnit(t) \/ DisposeFails(t) PROVE Poisoned'
    BY <1>4, <1>25 DEF DisposeUnit, DisposeFails
  <1>26. CASE UNCHANGED vars
    BY <1>26 DEF vars, Poisoned
  <1> QED
    BY <1>10, <1>11, <1>12, <1>13, <1>14, <1>16, <1>17, <1>18, <1>19, <1>20, <1>21, <1>22,
       <1>23, <1>24, <1>25, <1>26 DEF Next, Message, Loop

-------------------------------------------------------------------------------
(* Theorems *)

\* The cycle discipline holds, for every choice of the constants, until a Dispose throws.
THEOREM DisciplineTheorem == Spec => []DisciplineUnlessPoisoned
  <1>1. Init => DisciplineUnlessPoisoned
    BY DisciplineInit DEF DisciplineUnlessPoisoned
  <1>2. TypeOK /\ TypeOK' /\ DisciplineUnlessPoisoned /\ [Next]_vars => DisciplineUnlessPoisoned'
    BY DisciplineNext, PoisonedNext DEF DisciplineUnlessPoisoned, Discipline
  <1> QED
    BY <1>1, <1>2, TypeCorrect, PTL DEF Spec

\* No unit of work outlives its cycle unless a Dispose threw.
THEOREM NoLeak == Spec => []LeakOnlyAfterFailedDispose
  <1>1. DisciplineUnlessPoisoned => LeakOnlyAfterFailedDispose
    BY DEF DisciplineUnlessPoisoned, CycleDiscipline, UnitsDiscipline, Poisoned,
           LeakOnlyAfterFailedDispose
  <1> QED
    BY <1>1, DisciplineTheorem, PTL

\* With providers whose Dispose does not throw, nothing becomes durable before the
\* outermost Push has executed all of its messages.
THEOREM AtomicCycle ==
    ASSUME ~ DisposeMayFail
    PROVE  Spec => []NothingDurableBeforeCommit
  <1>1. DisciplineUnlessPoisoned => NothingDurableBeforeCommit
    BY DEF DisciplineUnlessPoisoned, Poisoned
  <1> QED
    BY <1>1, DisciplineTheorem, PTL

-------------------------------------------------------------------------------
(* What is durable when a cycle ends: steps *)

\* A unit of work that is open keeps what it holds, and keeps as sent what it has sent.
Grows(before, after) ==
    \A s \in Setting : before[s].status = "open" =>
        /\ after[s].status = "open"
        /\ before[s].pending \cup before[s].flushed \subseteq after[s].pending \cup after[s].flushed
        /\ before[s].flushed \subseteq after[s].flushed

\* What is known of the running frame.
LEMMA TheTop ==
    ASSUME TypeOK, Discipline, depth > 0
    PROVE  /\ depth \in 1..MaxDepth
           /\ Top = frame[depth] /\ Top \in Frame
           /\ Top.isOuter <=> depth = 1
           /\ depth > 1 => frame[1].pc = "execute"
           /\ Top.pc = "commit" => depth = 1
           /\ Top.pc \in {"loop", "execute"} => frame[1].pc \in {"loop", "execute"}
           /\ \A d \in 1..depth : frame[d] \in Frame
           /\ \A d \in 1..depth : d # depth => frame[d].pc = "execute"
  <1>1. depth \in 1..MaxDepth
    BY DispatcherAssumption DEF TypeOK
  <1>2. \A d \in 1..depth : frame[d] \in Frame
    BY <1>1, DispatcherAssumption DEF TypeOK
  <1>3. \A d \in 1..depth : d # depth => frame[d].pc = "execute"
    BY <1>1 DEF Discipline, CycleDiscipline, StackDiscipline
  <1> QED
    BY <1>1, <1>2, <1>3, WhereTheTopIs DEF Discipline, CycleDiscipline, Top

LEMMA SetTopAt ==
    ASSUME TypeOK, depth > 0, UNCHANGED depth, NEW f, SetTop(f)
    PROVE  \A d \in 1..depth : frame'[d] = IF d = depth THEN f ELSE frame[d]
  <1>1. depth \in 1..MaxDepth
    BY DispatcherAssumption DEF TypeOK
  <1> QED
    BY <1>1 DEF SetTop, TypeOK

LEMMA PushAt ==
    ASSUME TypeOK, NEW parts \in Composites, Push(parts)
    PROVE  /\ depth' = depth + 1 /\ depth \in 0..MaxDepth
           /\ frame'[depth + 1].wrote = {} /\ ~ frame'[depth + 1].exn
           /\ frame'[depth + 1].pc = "loop"
           /\ \A d \in 1..depth : frame'[d] = frame[d]
  <1> DEFINE f == [Caller EXCEPT !.parts = parts, !.left = DOMAIN parts, !.pc = "loop",
                                 !.isOuter = IsOuterCycle, !.isFlush = IsFlush(parts)]
  <1>1. depth' = depth + 1 /\ depth \in 0..MaxDepth /\ depth + 1 \in 1..MaxDepth
    BY DispatcherAssumption DEF Push, TypeOK
  <1>2. frame'[depth + 1] = f /\ \A d \in 1..depth : frame'[d] = frame[d]
    BY <1>1 DEF Push, TypeOK
  <1>3. f.wrote = {} /\ ~ f.exn /\ f.pc = "loop"
    BY DEF Caller
  <1> QED
    BY <1>1, <1>2, <1>3

\* The frame below the one that ends goes on, or ends with the exception.
LEMMA LeaveAt ==
    ASSUME TypeOK, depth > 0, NEW exn \in BOOLEAN, Leave(exn)
    PROVE  /\ depth' = depth - 1
           /\ last' = IF depth = 1 THEN [ok |-> ~ exn, isFlush |-> Top.isFlush] ELSE last
           /\ \/ /\ failed' = failed
                 /\ \A d \in 1..depth - 1 : frame'[d] = frame[d]
                 /\ exn => CatchNested \/ depth = 1
              \/ /\ depth > 1 /\ exn
                 /\ failed' = failed \cup frame[depth - 1].wrote
                 /\ \A d \in 1..depth - 1 :
                       frame'[d] = IF d = depth - 1 THEN Raised(frame[d]) ELSE frame[d]
  <1>1. depth \in 1..MaxDepth /\ depth' = depth - 1
    BY DispatcherAssumption DEF TypeOK, Leave
  <1>2. PICK e \in IF exn /\ depth > 1 THEN IF CatchNested THEN BOOLEAN ELSE {TRUE} ELSE {FALSE} :
            /\ frame' = [frame EXCEPT ![depth] = Caller,
                                      ![depth - 1] = IF e THEN Raised(@) ELSE @]
            /\ failed' = IF e THEN failed \cup frame[depth - 1].wrote ELSE failed
    BY DEF Leave
  <1>3. \A d \in 1..depth - 1 :
           frame'[d] = IF d = depth - 1 /\ e THEN Raised(frame[d]) ELSE frame[d]
    <2>1. frame \in [0..MaxDepth -> Frame] /\ MaxDepth \in Nat
      BY DispatcherAssumption DEF TypeOK
    <2> QED
      BY <1>1, <1>2, <2>1
  <1>4. last' = IF depth = 1 THEN [ok |-> ~ exn, isFlush |-> Top.isFlush] ELSE last
    BY DEF Leave
  <1>5. CASE e = TRUE
    <2>1. exn /\ depth > 1
      BY <1>2, <1>5
    <2> QED
      BY <1>1, <1>2, <1>3, <1>4, <1>5, <2>1
  <1>6. CASE e = FALSE
    <2>1. exn => CatchNested \/ depth = 1
      <3>1. exn /\ depth > 1 /\ ~ CatchNested => e \in {TRUE}
        OBVIOUS
      <3>2. depth > 1 \/ depth = 1
        BY <1>1
      <3> QED
        BY <1>6, <3>1, <3>2, Zenon
    <2> QED
      BY <1>1, <1>2, <1>3, <1>4, <1>6, <2>1
  <1>7. e \in BOOLEAN
    BY <1>2
  <1> QED
    BY <1>5, <1>6, <1>7

LEMMA RaisedFrame ==
    ASSUME NEW f \in Frame
    PROVE  Raised(f).wrote = {} /\ Raised(f).exn /\ Raised(f).pc = "finally"
  BY DEF Raised, Frame

\* The units of work while a message uses one.
LEMMA UnitGrows ==
    ASSUME TypeOK, NEW s \in Setting, NEW u, uows' = [uows EXCEPT ![s] = u],
           \/ uows[s].status # "open"
           \/ /\ u.status = "open"
              /\ uows[s].pending \cup uows[s].flushed \subseteq u.pending \cup u.flushed
              /\ uows[s].flushed \subseteq u.flushed
    PROVE  Grows(uows, uows')
  <1>1. \A r \in Setting : uows'[r] = IF r = s THEN u ELSE uows[r]
    BY DEF TypeOK
  <1> QED
    BY <1>1 DEF Grows

LEMMA FlushGrows ==
    ASSUME NEW u \in UnitsOfWork, u.status = "open"
    PROVE  /\ FlushUnit(u).status = "open"
           /\ FlushUnit(u).pending \cup FlushUnit(u).flushed = u.pending \cup u.flushed
           /\ u.flushed \subseteq FlushUnit(u).flushed
           /\ \A w \in u.pending \cup u.flushed : w.tracked => w \in FlushUnit(u).flushed
           /\ FlushUnit(u).flushed = u.flushed \cup Tracked(u)
           /\ FlushUnit(u).pending = u.pending \ Tracked(u)
  BY DEF FlushUnit, Usable, Flushed, Tracked

\* While messages execute, a flush commits nothing by itself, and what it does not send is
\* nowhere to be sent.
LEMMA Messaging ==
    ASSUME TypeOK, Discipline, Executing
    PROVE  /\ depth > 0 /\ Top.pc = "execute"
           /\ Current.setting \in Setting /\ Unit = uows[Current.setting]
           /\ Unit \in UnitsOfWork
           /\ Unit.status \in {"absent", "lazy", "faulted", "open"}
           /\ Autocommitted(Unit) = {}
           /\ Usable(Unit) <=> Unit.status = "open"
           /\ frame[1].pc \in {"loop", "execute"}
           /\ mine \cap db = {}
  <1>1. depth > 0 /\ Top.pc = "execute" /\ frame[1].pc \in {"loop", "execute"}
    BY TheTop DEF Executing
  <1>2. Current.setting \in Setting /\ Unit = uows[Current.setting] /\ Unit \in UnitsOfWork
    BY CurrentType DEF Unit
  <1>3. Unit.status \in {"absent", "lazy", "faulted", "open"} /\ Autocommitted(Unit) = {}
    BY <1>1, <1>2, UnitsWhileWorking DEF Discipline, CycleDiscipline
  <1>4. Usable(Unit) <=> Unit.status = "open"
    BY <1>3 DEF Usable
  <1>5. mine \cap db = {}
    BY <1>1 DEF Discipline, NothingDurableBeforeCommit
  <1> QED
    BY <1>1, <1>2, <1>3, <1>4, <1>5

\* What each step of a message does to the units of work.
LEMMA MessageGrows ==
    ASSUME TypeOK, Discipline,
           \/ OpenUnitOfWork
           \/ RepositoryFails
           \/ \E changes \in BOOLEAN : WriteEntity(changes)
           \/ FlushRepository
           \/ EndPart
    PROVE  Grows(uows, uows') /\ db' = db /\ depth' = depth
  <1>1. Executing
    BY DEF OpenUnitOfWork, RepositoryFails, WriteEntity, FlushRepository, EndPart
  <1>2. /\ Current.setting \in Setting /\ Unit = uows[Current.setting] /\ Unit \in UnitsOfWork
        /\ Autocommitted(Unit) = {}
        /\ Usable(Unit) <=> Unit.status = "open"
    BY <1>1, Messaging
  <1>3. CASE OpenUnitOfWork
    <2>1. Unit.status # "open" /\ uows' = [uows EXCEPT ![Current.setting] = [Unit EXCEPT !.status = "open"]]
      BY <1>3 DEF OpenUnitOfWork, SetUnit
    <2> QED
      BY <1>2, <1>3, <2>1, UnitGrows DEF OpenUnitOfWork
  <1>4. CASE RepositoryFails
    <2> DEFINE u == IF Unit.status = "lazy" THEN [Unit EXCEPT !.status = "faulted"] ELSE Unit
    <2>1. Unit.status # "open" /\ uows' = [uows EXCEPT ![Current.setting] = u]
      BY <1>2, <1>4 DEF RepositoryFails, SetUnit
    <2> QED
      BY <1>2, <1>4, <2>1, UnitGrows DEF RepositoryFails
  <1>5. ASSUME NEW changes \in BOOLEAN, WriteEntity(changes)
        PROVE  Grows(uows, uows') /\ db' = db /\ depth' = depth
    <2>1. PICK w : uows' = [uows EXCEPT ![Current.setting] = [Unit EXCEPT !.pending = @ \cup {w}]]
      BY <1>5 DEF WriteEntity, SetUnit
    <2> DEFINE u == [Unit EXCEPT !.pending = @ \cup {w}]
    <2>2. Usable(Unit)
      BY <1>5 DEF WriteEntity
    <2>4. u.status = "open" /\ u.pending = Unit.pending \cup {w} /\ u.flushed = Unit.flushed
      BY <1>2, <2>2
    <2>3. Grows(uows, uows')
      <3> HIDE DEF u
      <3> QED
        BY <1>2, <2>1, <2>4, UnitGrows DEF u
    <2> QED
      BY <1>5, <2>3 DEF WriteEntity
  <1>6. ASSUME uows' = [uows EXCEPT ![Current.setting] = FlushUnit(Unit)]
        PROVE  Grows(uows, uows')
    <2>1. CASE Unit.status = "open"
      BY <1>2, <1>6, <2>1, FlushGrows, UnitGrows
    <2>2. CASE Unit.status # "open"
      BY <1>2, <1>6, <2>2, UnitGrows
    <2> QED
      BY <2>1, <2>2
  <1>7. CASE FlushRepository
    <2>1. uows' = [uows EXCEPT ![Current.setting] = FlushUnit(Unit)]
      BY <1>7 DEF FlushRepository, SetUnit
    <2> QED
      BY <1>2, <1>6, <1>7, <2>1 DEF FlushRepository
  <1>8. CASE EndPart
    <2>1. CASE Current.command
      <3>1. uows' = [uows EXCEPT ![Current.setting] = FlushUnit(Unit)]
        BY <1>8, <2>1 DEF EndPart, SetUnit
      <3>2. db' = db \cup Autocommitted(Unit) /\ depth' = depth
        BY <1>8, <2>1 DEF EndPart
      <3> QED
        BY <1>2, <1>6, <3>1, <3>2
    <2>2. CASE ~ Current.command
      <3>1. uows' = uows /\ db' = db /\ depth' = depth
        BY <1>8, <2>2 DEF EndPart
      <3> QED
        BY <3>1 DEF Grows
    <2> QED
      BY <2>1, <2>2
  <1> QED
    BY <1>3, <1>4, <1>5, <1>7, <1>8

\* The collection gets an entry where there was none.
LEMMA StartGrows ==
    ASSUME TypeOK, Discipline, NEW i \in DOMAIN Top.parts, StartPart(i)
    PROVE  /\ Grows(uows, uows')
           /\ \A s \in Setting : /\ uows'[s].pending = uows[s].pending
                                 /\ uows'[s].flushed = uows[s].flushed
  <1> DEFINE r == Top.parts[i].setting
             u == AddOrGet(uows[r], Top.isFlush)
  <1>1. depth > 0 /\ Top \in Frame /\ Top.left \subseteq DOMAIN Top.parts
    BY TheTop DEF StartPart, TypeOK, Top
  <1>2. r \in Setting
    BY <1>1, CompositeType DEF Frame, Part
  <1>3. uows' = [uows EXCEPT ![r] = u] /\ uows[r] \in UnitsOfWork
    BY <1>2 DEF StartPart, TypeOK
  <1>4. u.pending = uows[r].pending /\ u.flushed = uows[r].flushed
    BY <1>3 DEF AddOrGet
  <1>5. uows[r].status = "open" => u = uows[r]
    BY DEF AddOrGet
  <1>6. \A s \in Setting : uows'[s] = IF s = r THEN u ELSE uows[s]
    BY <1>2, <1>3 DEF TypeOK
  <1>7. Grows(uows, uows')
    BY <1>5, <1>6 DEF Grows
  <1> HIDE DEF u, r
  <1> QED
    BY <1>4, <1>6, <1>7

LEMMA DisposeFailsPoisons ==
    ASSUME TypeOK, Discipline, NEW s \in Setting, DisposeFails(s)
    PROVE  Poisoned'
  <1>1. DisposeMayFail /\ depth = 1 /\ depth' = 0
    BY TheTop DEF DisposeFails, Leave
  <1>2. uows'[s].status = "broken"
    BY DEF DisposeFails, TypeOK
  <1> QED
    BY <1>1, <1>2 DEF Poisoned

-------------------------------------------------------------------------------
(* Where the writes of a message are while it runs *)

\* A message that runs is a command of an open unit of work, which holds what it wrote.
Holds(f, units, written) ==
    /\ f.wrote \subseteq written
    /\ f.pc # "execute" => f.wrote = {}
    /\ \A w \in f.wrote : /\ f.parts[f.at].command
                          /\ f.parts[f.at].setting = w.store
                          /\ units[w.store].status = "open"
                          /\ w \in units[w.store].pending \cup units[w.store].flushed

Messages == \A d \in 1..depth : Holds(frame[d], uows, mine)

LEMMA HoldsOn ==
    ASSUME NEW f \in Frame, NEW us, NEW vs, NEW ws, NEW xs,
           Holds(f, us, ws), Grows(us, vs), ws \subseteq xs
    PROVE  Holds(f, vs, xs)
  BY DEF Holds, Grows, Frame, Write

LEMMA NothingHeld ==
    ASSUME NEW f, NEW us, NEW ws, f.wrote = {}
    PROVE  Holds(f, us, ws)
  BY DEF Holds

\* A step of the running frame, after which it holds what it should.
LEMMA MessagesStep ==
    ASSUME TypeOK, Discipline, Messages, depth > 0, UNCHANGED depth,
           NEW f, SetTop(f), Holds(f, uows', mine'),
           Grows(uows, uows'), mine \subseteq mine'
    PROVE  Messages'
  <1>1. \A d \in 1..depth : frame'[d] = IF d = depth THEN f ELSE frame[d]
    BY SetTopAt
  <1>2. \A d \in 1..depth : frame[d] \in Frame /\ Holds(frame[d], uows, mine)
    BY TheTop DEF Messages
  <1>3. \A d \in 1..depth : Holds(frame[d], uows', mine')
    BY <1>2, HoldsOn
  <1> QED
    BY <1>1, <1>3 DEF Messages

LEMMA MessagesStay ==
    ASSUME TypeOK, Discipline, Messages, UNCHANGED <<frame, depth>>,
           Grows(uows, uows'), mine \subseteq mine'
    PROVE  Messages'
  <1>1. CASE depth > 0
    <2>1. \A d \in 1..depth : frame[d] \in Frame /\ Holds(frame[d], uows, mine)
      BY <1>1, TheTop DEF Messages
    <2>2. \A d \in 1..depth : Holds(frame[d], uows', mine')
      BY <2>1, HoldsOn
    <2> QED
      BY <2>2 DEF Messages
  <1>2. CASE ~ depth > 0
    <2>1. 1..depth = {}
      BY <1>2 DEF TypeOK
    <2> QED
      BY <2>1 DEF Messages
  <1> QED
    BY <1>1, <1>2

LEMMA RaiseMessages ==
    ASSUME TypeOK, Discipline, Messages, depth > 0, Raise, UNCHANGED <<depth, mine>>,
           Grows(uows, uows')
    PROVE  Messages'
  <1>1. Raised(Top).wrote = {}
    BY TheTop, RaisedFrame
  <1> QED
    BY <1>1, NothingHeld, MessagesStep DEF Raise

\* In an outer cycle that commits or disposes of its units of work, no message runs.
LEMMA MessagesOver ==
    ASSUME TypeOK, Discipline, Messages, depth = 1, frame[1].pc # "execute",
           UNCHANGED <<frame, depth>>
    PROVE  Messages'
  <1>1. frame[1].wrote = {}
    BY DEF Messages, Holds
  <1>2. Holds(frame'[1], uows', mine')
    BY <1>1, NothingHeld
  <1> QED
    BY <1>2 DEF Messages

LEMMA GrowsRefl == Grows(uows, uows)
  BY DEF Grows

LEMMA MessagesNext ==
    ASSUME TypeOK, TypeOK', Discipline, Messages, [Next]_vars
    PROVE  Messages' \/ Poisoned'
  <1>1. ASSUME NEW parts \in Composites, Push(parts) PROVE Messages'
    <2>1. /\ depth' = depth + 1 /\ depth \in 0..MaxDepth
          /\ frame'[depth + 1].wrote = {}
          /\ \A d \in 1..depth : frame'[d] = frame[d]
      BY <1>1, PushAt
    <2>2. uows' = uows /\ (depth > 0 => mine' = mine)
      BY <1>1 DEF Push
    <2>3. ASSUME NEW d \in 1..depth' PROVE Holds(frame'[d], uows', mine')
      <3>1. CASE d = depth + 1
        BY <2>1, <3>1, NothingHeld
      <3>2. CASE d # depth + 1
        <4>1. d \in 1..depth /\ depth > 0
          BY <2>1, <3>2
        <4> QED
          BY <2>1, <2>2, <4>1 DEF Messages
      <3> QED
        BY <3>1, <3>2
    <2> QED
      BY <2>3 DEF Messages
  <1>2. ASSUME NEW i \in DOMAIN Top.parts, StartPart(i) PROVE Messages'
    <2> DEFINE f == [Top EXCEPT !.at = i, !.left = @ \ {i}, !.pc = "execute", !.wrote = {}]
    <2>1. depth > 0 /\ SetTop(f) /\ UNCHANGED <<depth, mine>>
      BY <1>2 DEF StartPart, history
    <2>2. f.wrote = {}
      BY <2>1, TheTop DEF Frame
    <2>3. Grows(uows, uows')
      BY <1>2, StartGrows
    <2> HIDE DEF f
    <2> QED
      BY <2>1, <2>2, <2>3, NothingHeld, MessagesStep
  <1>3. CASE OpenUnitOfWork
    BY <1>3, MessageGrows, MessagesStay DEF OpenUnitOfWork, history
  <1>4. CASE RepositoryFails
    BY <1>4, MessageGrows, RaiseMessages DEF RepositoryFails, Executing
  <1>5. ASSUME NEW changes \in BOOLEAN, WriteEntity(changes) PROVE Messages'
    <2> DEFINE w == [store |-> Current.setting, id |-> serial + 1,
                     tracked |-> Unit.isFlush \/ ~ changes]
               u == [Unit EXCEPT !.pending = @ \cup {w}]
               f == [Top EXCEPT !.wrote = @ \cup {w}]
    <2>1. /\ Executing /\ Current.command /\ Usable(Unit)
          /\ uows' = [uows EXCEPT ![Current.setting] = u] /\ SetTop(f)
          /\ mine' = mine \cup {w} /\ UNCHANGED depth
      BY <1>5 DEF WriteEntity, SetUnit
    <2>2. /\ Current.setting \in Setting /\ Unit \in UnitsOfWork /\ Unit = uows[Current.setting]
          /\ Unit.status = "open" /\ depth > 0 /\ Top.pc = "execute"
      BY <2>1, Messaging
    <2>3. Grows(uows, uows')
      BY <1>5, MessageGrows
    <2>4. Top \in Frame /\ Holds(Top, uows, mine)
      BY <2>2, TheTop DEF Messages
    <2>5. Holds(Top, uows', mine')
      BY <2>1, <2>3, <2>4, HoldsOn
    <2>6. /\ f.wrote = Top.wrote \cup {w} /\ f.pc = "execute"
          /\ f.parts = Top.parts /\ f.at = Top.at
      BY <2>2, <2>4 DEF Frame
    <2>7. uows'[Current.setting] = u
      BY <2>1, <2>2 DEF TypeOK
    <2>8. u.status = "open" /\ w \in u.pending
      BY <2>2
    <2>9. w.store = Current.setting /\ w \in mine'
      BY <2>1
    <2> HIDE DEF f, w, u
    <2>10. Holds(f, uows', mine')
      BY <2>1, <2>5, <2>6, <2>7, <2>8, <2>9 DEF Holds, Current
    <2> QED
      BY <2>1, <2>2, <2>3, <2>10, MessagesStep
  <1>6. CASE FlushRepository
    BY <1>6, MessageGrows, MessagesStay DEF FlushRepository, history
  <1>7. CASE EndPart
    <2> DEFINE f == [Top EXCEPT !.at = 0, !.pc = "loop", !.wrote = {}]
    <2>1. depth > 0 /\ SetTop(f) /\ UNCHANGED <<depth, mine>>
      BY <1>7 DEF EndPart, Executing
    <2>2. f.wrote = {}
      BY <2>1, TheTop DEF Frame
    <2>3. Grows(uows, uows')
      BY <1>7, MessageGrows
    <2> HIDE DEF f
    <2> QED
      BY <2>1, <2>2, <2>3, NothingHeld, MessagesStep
  <1>8. ASSUME Raise, depth > 0, UNCHANGED <<uows, depth, mine>> PROVE Messages'
    <2>1. Grows(uows, uows')
      BY <1>8, GrowsRefl
    <2> QED
      BY <1>8, <2>1, RaiseMessages
  <1>9. CASE Throw
    BY <1>8, <1>9 DEF Throw, Executing
  <1>10. CASE FlushFails
    BY <1>8, <1>10 DEF FlushFails, Executing
  <1>11. ASSUME NEW f, SetTop(f), f.wrote = Top.wrote, Top.pc # "execute", depth > 0,
                UNCHANGED <<uows, depth, mine>>
         PROVE  Messages'
    <2>1. Top.wrote = {}
      BY <1>11, TheTop DEF Messages, Holds
    <2>2. Grows(uows, uows')
      BY <1>11, GrowsRefl
    <2> QED
      BY <1>11, <2>1, <2>2, NothingHeld, MessagesStep
  <1>12. CASE EndLoop
    <2> DEFINE f == [Top EXCEPT !.pc = IF Top.isOuter /\ Top.isFlush THEN "commit" ELSE "finally"]
    <2>1. SetTop(f) /\ depth > 0 /\ Top.pc = "loop" /\ UNCHANGED <<uows, depth, mine>>
      BY <1>12 DEF EndLoop, history
    <2>2. f.wrote = Top.wrote
      BY <2>1, TheTop DEF Frame
    <2> HIDE DEF f
    <2> QED
      BY <1>11, <2>1, <2>2
  <1>13. CASE EndCommit
    <2> DEFINE f == [Top EXCEPT !.pc = "finally"]
    <2>1. SetTop(f) /\ depth > 0 /\ Top.pc = "commit" /\ UNCHANGED <<uows, depth, mine>>
      BY <1>13 DEF EndCommit, history
    <2>2. f.wrote = Top.wrote
      BY <2>1, TheTop DEF Frame
    <2> HIDE DEF f
    <2> QED
      BY <1>11, <2>1, <2>2
  <1>14. CASE EndPush
    <2>1. depth > 0 /\ Top.exn \in BOOLEAN /\ Leave(Top.exn) /\ mine' = mine
      BY <1>14, TheTop DEF EndPush, Frame
    <2>2. /\ depth' = depth - 1 /\ depth \in 1..MaxDepth
          /\ \A d \in 1..depth - 1 : frame'[d] = frame[d] \/ frame'[d] = Raised(frame[d])
      BY <2>1, LeaveAt, TheTop
    <2>3. ASSUME NEW d \in 1..depth' PROVE Holds(frame'[d], uows', mine')
      <3>1. d \in 1..depth /\ depth # 1 /\ d \in 1..depth - 1
        BY <2>2
      <3>2. ~ Top.isOuter /\ frame[d] \in Frame
        BY <2>1, <3>1, TheTop
      <3>3. uows' = uows
        BY <1>14, <3>2 DEF EndPush
      <3>4. CASE frame'[d] = frame[d]
        BY <2>1, <3>1, <3>3, <3>4 DEF Messages
      <3>5. CASE frame'[d] = Raised(frame[d])
        BY <3>2, <3>5, RaisedFrame, NothingHeld
      <3> QED
        BY <2>2, <3>1, <3>4, <3>5
    <2> QED
      BY <2>3 DEF Messages
  <1>15. ASSUME NEW s \in Setting, CommitUnit(s) PROVE Messages'
    BY <1>15, TheTop, MessagesOver DEF CommitUnit, history
  <1>16. ASSUME NEW s \in Setting, CommitFails(s) PROVE Messages'
    BY <1>8, <1>16 DEF CommitFails
  <1>17. ASSUME NEW s \in Setting, DisposeUnit(s) PROVE Messages'
    BY <1>17, TheTop, MessagesOver DEF DisposeUnit, history
  <1>18. ASSUME NEW s \in Setting, DisposeFails(s) PROVE Poisoned'
    BY <1>18, DisposeFailsPoisons
  <1>19. CASE UNCHANGED vars
    BY <1>19 DEF vars, Messages
  <1> QED
    BY <1>1, <1>2, <1>3, <1>4, <1>5, <1>6, <1>7, <1>9, <1>10, <1>12, <1>13, <1>14, <1>15,
       <1>16, <1>17, <1>18, <1>19 DEF Next, Message, Loop

-------------------------------------------------------------------------------
(* Where the writes of a completed command are until the cycle ends *)

Kept(w, units) == units[w.store].status = "open" /\ w \in units[w.store].flushed

\* What the outer cycle f has done about a tracked write w.
OnItsWay(w, f, units, durable) ==
    /\ f.pc \in {"loop", "execute"} => Kept(w, units)
    /\ f.pc = "commit" => Kept(w, units) \/ w \in durable
    /\ f.pc = "finally" /\ ~ f.exn /\ f.isFlush => w \in durable

Completed ==
    /\ CommittedCycleIsDurable
    /\ depth > 0 => \A w \in done : w.tracked => OnItsWay(w, frame[1], uows, db)

\* While messages execute: an exception that reaches the outer cycle excuses everything.
LEMMA CompletedStep ==
    ASSUME TypeOK, Discipline, Completed, depth > 0, depth' > 0, done' = done,
           Grows(uows, uows'), frame[1].pc \in {"loop", "execute"},
           \/ frame'[1].pc \in {"loop", "execute"}
           \/ frame'[1].pc = "finally" /\ frame'[1].exn
    PROVE  Completed'
  <1>1. ASSUME NEW w \in done, w.tracked PROVE OnItsWay(w, frame'[1], uows', db')
    <2>1. Kept(w, uows) /\ w.store \in Setting
      BY <1>1 DEF Completed, OnItsWay, TypeOK, Write
    <2>2. Kept(w, uows')
      BY <2>1 DEF Kept, Grows
    <2> QED
      BY <2>2 DEF OnItsWay
  <1> QED
    BY <1>1 DEF Completed, CommittedCycleIsDurable

LEMMA RaiseCompleted ==
    ASSUME TypeOK, Discipline, Completed, depth > 0, Raise, UNCHANGED <<depth, done>>,
           Top.pc \in {"loop", "execute"}, Grows(uows, uows')
    PROVE  Completed'
  <1>1. \A d \in 1..depth : frame'[d] = IF d = depth THEN Raised(Top) ELSE frame[d]
    BY SetTopAt DEF Raise
  <1>2. frame'[1] = Raised(Top) \/ frame'[1] = frame[1]
    BY <1>1, TheTop
  <1>3. Raised(Top).pc = "finally" /\ Raised(Top).exn /\ frame[1].pc \in {"loop", "execute"}
    BY TheTop, RaisedFrame
  <1> QED
    BY <1>2, <1>3, CompletedStep

LEMMA CompletedNext ==
    ASSUME TypeOK, TypeOK', Discipline, Messages, Completed, [Next]_vars
    PROVE  Completed' \/ Poisoned'
  <1>1. ASSUME NEW parts \in Composites, Push(parts) PROVE Completed'
    <2>1. /\ depth' = depth + 1 /\ depth \in 0..MaxDepth
          /\ frame'[depth + 1].pc = "loop"
          /\ \A d \in 1..depth : frame'[d] = frame[d]
      BY <1>1, PushAt
    <2>2. CASE depth = 0
      <3>1. done' = {} /\ depth' = 1
        BY <1>1, <2>1, <2>2 DEF Push
      <3> QED
        BY <3>1 DEF Completed, CommittedCycleIsDurable
    <2>3. CASE depth > 0
      <3>1. done' = done /\ uows' = uows /\ frame'[1] = frame[1] /\ depth' > 0 /\ Top.pc = "execute"
        BY <1>1, <2>1, <2>3 DEF Push
      <3>2. frame[1].pc \in {"loop", "execute"}
        BY <2>3, <3>1, TheTop
      <3> QED
        BY <2>3, <3>1, <3>2, GrowsRefl, CompletedStep
    <2> QED
      BY <2>1, <2>2, <2>3
  <1>2. ASSUME NEW i \in DOMAIN Top.parts, StartPart(i) PROVE Completed'
    <2> DEFINE f == [Top EXCEPT !.at = i, !.left = @ \ {i}, !.pc = "execute", !.wrote = {}]
    <2>1. depth > 0 /\ SetTop(f) /\ UNCHANGED <<depth, done>> /\ Top.pc = "loop"
      BY <1>2 DEF StartPart, history
    <2>2. f.pc = "execute"
      BY <2>1, TheTop DEF Frame
    <2>3. Grows(uows, uows') /\ frame[1].pc \in {"loop", "execute"}
      BY <1>2, <2>1, StartGrows, TheTop
    <2> HIDE DEF f
    <2>4. frame'[1] = f \/ frame'[1] = frame[1]
      BY <2>1, SetTopAt, TheTop
    <2> QED
      BY <2>1, <2>2, <2>3, <2>4, CompletedStep
  <1>3. ASSUME Executing, Grows(uows, uows'), UNCHANGED <<depth, done>>,
               frame' = frame \/ \E f : SetTop(f) /\ f.pc \in {"loop", "execute"}
        PROVE  Completed'
    <2>1. depth > 0 /\ frame[1].pc \in {"loop", "execute"}
      BY <1>3, Messaging
    <2>2. frame'[1].pc \in {"loop", "execute"}
      BY <1>3, <2>1, SetTopAt, TheTop
    <2> QED
      BY <1>3, <2>1, <2>2, CompletedStep
  <1>4. CASE OpenUnitOfWork
    BY <1>3, <1>4, MessageGrows DEF OpenUnitOfWork, history
  <1>5. CASE RepositoryFails
    BY <1>5, MessageGrows, RaiseCompleted DEF RepositoryFails, Executing
  <1>6. ASSUME NEW changes \in BOOLEAN, WriteEntity(changes) PROVE Completed'
    <2>1. PICK w : SetTop([Top EXCEPT !.wrote = @ \cup {w}])
      BY <1>6 DEF WriteEntity
    <2> DEFINE f == [Top EXCEPT !.wrote = @ \cup {w}]
    <2>2. Executing /\ UNCHANGED <<depth, done>>
      BY <1>6 DEF WriteEntity
    <2>3. f.pc = "execute"
      BY <2>2, TheTop, Messaging DEF Frame
    <2>4. Grows(uows, uows')
      BY <1>6, MessageGrows
    <2> HIDE DEF f
    <2> QED
      BY <1>3, <2>1, <2>2, <2>3, <2>4 DEF f
  <1>7. CASE FlushRepository
    BY <1>3, <1>7, MessageGrows DEF FlushRepository, history
  <1>8. CASE EndPart
    <2> DEFINE f == [Top EXCEPT !.at = 0, !.pc = "loop", !.wrote = {}]
    <2>1. Executing /\ depth > 0 /\ SetTop(f) /\ UNCHANGED depth /\ done' = done \cup Top.wrote
      BY <1>8 DEF EndPart, Executing
    <2>2. f.pc = "loop" /\ Top \in Frame
      BY <2>1, TheTop DEF Frame
    <2>3. Grows(uows, uows') /\ db' = db
      BY <1>8, MessageGrows
    <2>4. frame[1].pc \in {"loop", "execute"} /\ Unit \in UnitsOfWork
          /\ Unit = uows[Current.setting] /\ Current.setting \in Setting
      BY <2>1, Messaging
    <2> HIDE DEF f
    <2>5. frame'[1].pc \in {"loop", "execute"}
      <3>1. frame'[1] = f \/ frame'[1] = frame[1]
        BY <2>1, SetTopAt, TheTop
      <3> QED
        BY <2>2, <2>4, <3>1
    <2>6. ASSUME NEW w \in done, w.tracked PROVE Kept(w, uows')
      <3>1. Kept(w, uows) /\ w.store \in Setting
        BY <2>1, <2>4, <2>6 DEF Completed, OnItsWay, TypeOK, Write
      <3> QED
        BY <2>3, <3>1 DEF Kept, Grows
    <2>7. ASSUME NEW w \in Top.wrote, w.tracked PROVE Kept(w, uows')
      <3>1. Holds(Top, uows, mine)
        BY <2>1, TheTop DEF Messages
      <3>2. /\ Current.command /\ Current.setting = w.store
            /\ Unit.status = "open" /\ w \in Unit.pending \cup Unit.flushed
        BY <2>4, <2>7, <3>1 DEF Holds, Current
      <3>3. uows' = [uows EXCEPT ![Current.setting] = FlushUnit(Unit)]
        BY <1>8, <3>2 DEF EndPart, SetUnit
      <3>4. uows'[w.store] = FlushUnit(Unit)
        BY <2>4, <3>2, <3>3 DEF TypeOK
      <3>5. FlushUnit(Unit).status = "open" /\ w \in FlushUnit(Unit).flushed
        BY <2>4, <2>7, <3>2, FlushGrows
      <3> QED
        BY <3>4, <3>5 DEF Kept
    <2>8. \A w \in done' : w.tracked => OnItsWay(w, frame'[1], uows', db')
      BY <2>1, <2>5, <2>6, <2>7 DEF OnItsWay
    <2> QED
      BY <2>1, <2>8 DEF Completed, CommittedCycleIsDurable
  <1>9. ASSUME Executing, Raise, UNCHANGED <<uows, depth, done>> PROVE Completed'
    <2>1. Grows(uows, uows') /\ depth > 0 /\ Top.pc \in {"loop", "execute"}
      BY <1>9, GrowsRefl DEF Executing
    <2> QED
      BY <1>9, <2>1, RaiseCompleted
  <1>10. CASE Throw
    BY <1>9, <1>10 DEF Throw
  <1>11. CASE FlushFails
    BY <1>9, <1>11 DEF FlushFails
  <1>12. CASE EndLoop
    <2> DEFINE f == [Top EXCEPT !.pc = IF Top.isOuter /\ Top.isFlush THEN "commit" ELSE "finally"]
    <2>1. SetTop(f) /\ depth > 0 /\ Top.pc = "loop" /\ UNCHANGED <<uows, depth, db, done>>
      BY <1>12 DEF EndLoop, history
    <2>2. /\ f.pc = IF Top.isOuter /\ Top.isFlush THEN "commit" ELSE "finally"
          /\ f.isFlush = Top.isFlush
      BY <2>1, TheTop DEF Frame
    <2>3. /\ frame[1].pc \in {"loop", "execute"}
          /\ Top.isOuter <=> depth = 1
          /\ depth \in 1..MaxDepth
      BY <2>1, TheTop
    <2> HIDE DEF f
    <2>4. frame'[1] = IF depth = 1 THEN f ELSE frame[1]
      BY <2>1, <2>3, SetTopAt
    <2>5. ASSUME NEW w \in done, w.tracked PROVE OnItsWay(w, frame'[1], uows', db')
      <3>1. Kept(w, uows)
        BY <2>1, <2>3, <2>5 DEF Completed, OnItsWay
      <3> QED
        BY <2>1, <2>2, <2>3, <2>4, <3>1, TheTop DEF OnItsWay
    <2> QED
      BY <2>1, <2>5 DEF Completed, CommittedCycleIsDurable
  <1>13. CASE EndCommit
    <2> DEFINE f == [Top EXCEPT !.pc = "finally"]
    <2>1. /\ SetTop(f) /\ depth > 0 /\ Top.pc = "commit" /\ UNCHANGED <<uows, depth, db, done>>
          /\ \A s \in Setting : uows[s].status # "open"
      BY <1>13 DEF EndCommit, history
    <2>2. depth = 1 /\ Top = frame[1] /\ f.pc = "finally"
      BY <2>1, TheTop DEF Frame
    <2> HIDE DEF f
    <2>3. frame'[1] = f
      BY <2>1, <2>2, SetTopAt
    <2>4. ASSUME NEW w \in done, w.tracked PROVE OnItsWay(w, frame'[1], uows', db')
      <3>1. Kept(w, uows) \/ w \in db
        BY <2>1, <2>2, <2>4 DEF Completed, OnItsWay
      <3>2. w.store \in Setting
        BY DEF TypeOK, Write
      <3>3. w \in db
        BY <2>1, <3>1, <3>2 DEF Kept
      <3> QED
        BY <2>1, <2>2, <2>3, <3>3 DEF OnItsWay
    <2> QED
      BY <2>1, <2>4 DEF Completed, CommittedCycleIsDurable
  <1>14. CASE EndPush
    <2>1. /\ depth > 0 /\ Top.exn \in BOOLEAN /\ Leave(Top.exn) /\ UNCHANGED <<db, done>>
          /\ Top.pc = "finally"
      BY <1>14, TheTop DEF EndPush, Frame
    <2>2. /\ depth' = depth - 1 /\ depth \in 1..MaxDepth
          /\ last' = IF depth = 1 THEN [ok |-> ~ Top.exn, isFlush |-> Top.isFlush] ELSE last
          /\ \A d \in 1..depth - 1 : frame'[d] = frame[d] \/ frame'[d] = Raised(frame[d])
      BY <2>1, LeaveAt, TheTop
    <2>3. CASE depth = 1
      <3>1. Top = frame[1] /\ depth' = 0
        BY <2>1, <2>2, <2>3, TheTop
      <3>2. \A w \in done : w.tracked => OnItsWay(w, Top, uows, db)
        BY <2>1, <3>1 DEF Completed
      <3>3. ~ Top.exn /\ Top.isFlush => {w \in done : w.tracked} \subseteq db
        BY <2>1, <3>2 DEF OnItsWay
      <3>4. last'.ok = ~ Top.exn /\ last'.isFlush = Top.isFlush
        BY <2>2, <2>3
      <3>5. CommittedCycleIsDurable'
        BY <2>1, <3>3, <3>4 DEF CommittedCycleIsDurable
      <3> QED
        BY <3>1, <3>5 DEF Completed
    <2>4. CASE depth > 1
      <3>1. ~ Top.isOuter /\ frame[1].pc = "execute" /\ 1 \in 1..depth - 1 /\ frame[1] \in Frame
        BY <2>1, <2>2, <2>4, TheTop
      <3>2. uows' = uows
        BY <1>14, <3>1 DEF EndPush
      <3>3. frame'[1] = frame[1] \/ frame'[1] = Raised(frame[1])
        BY <2>2, <3>1
      <3>4. frame'[1].pc \in {"loop", "execute"} \/ (frame'[1].pc = "finally" /\ frame'[1].exn)
        BY <3>1, <3>3, RaisedFrame
      <3>5. depth' > 0 /\ Grows(uows, uows')
        BY <2>2, <2>4, <3>2, GrowsRefl
      <3> QED
        BY <2>1, <3>1, <3>4, <3>5, CompletedStep
    <2> QED
      BY <2>2, <2>3, <2>4
  <1>15. ASSUME NEW s \in Setting, CommitUnit(s) PROVE Completed'
    <2>1. /\ depth = 1 /\ frame[1].pc = "commit" /\ UNCHANGED <<frame, depth, done>>
          /\ db' = db \cup uows[s].flushed
          /\ uows' = [uows EXCEPT ![s].status = "committed"]
      BY <1>15, TheTop DEF CommitUnit, history
    <2>2. \A r \in Setting : r # s => uows'[r] = uows[r]
      BY <2>1 DEF TypeOK
    <2>3. ASSUME NEW w \in done, w.tracked PROVE OnItsWay(w, frame'[1], uows', db')
      <3>1. Kept(w, uows) \/ w \in db
        BY <2>1, <2>3 DEF Completed, OnItsWay
      <3>2. w.store \in Setting
        BY DEF TypeOK, Write
      <3>3. Kept(w, uows') \/ w \in db'
        BY <2>1, <2>2, <3>1, <3>2 DEF Kept
      <3> QED
        BY <2>1, <3>3 DEF OnItsWay
    <2>4. depth' = 1 /\ done' = done
      BY <2>1
    <2> QED
      BY <2>3, <2>4 DEF Completed, CommittedCycleIsDurable
  <1>16. ASSUME NEW s \in Setting, CommitFails(s) PROVE Completed'
    <2>1. depth = 1 /\ Top \in Frame /\ SetTop(Raised(Top)) /\ UNCHANGED <<depth, done>>
      BY <1>16, TheTop DEF CommitFails, Raise
    <2>2. frame'[1] = Raised(Top)
      BY <2>1, SetTopAt
    <2>3. frame'[1].pc = "finally" /\ frame'[1].exn
      BY <2>1, <2>2, RaisedFrame
    <2>4. \A w \in done' : OnItsWay(w, frame'[1], uows', db')
      BY <2>3 DEF OnItsWay
    <2>5. depth' = 1
      BY <2>1
    <2> QED
      BY <2>4, <2>5 DEF Completed, CommittedCycleIsDurable
  <1>17. ASSUME NEW s \in Setting, DisposeUnit(s) PROVE Completed'
    <2>1. depth = 1 /\ frame[1].pc = "finally" /\ UNCHANGED <<frame, depth, done, db>>
      BY <1>17, TheTop DEF DisposeUnit, history
    <2> QED
      BY <2>1 DEF Completed, CommittedCycleIsDurable, OnItsWay
  <1>18. ASSUME NEW s \in Setting, DisposeFails(s) PROVE Poisoned'
    BY <1>18, DisposeFailsPoisons
  <1>19. CASE UNCHANGED vars
    BY <1>19 DEF vars, Completed, CommittedCycleIsDurable
  <1> QED
    BY <1>1, <1>2, <1>4, <1>5, <1>6, <1>7, <1>8, <1>10, <1>11, <1>12, <1>13, <1>14, <1>15,
       <1>16, <1>17, <1>18, <1>19 DEF Next, Message, Loop

-------------------------------------------------------------------------------
(* Where the writes of a message that threw are not *)

\* An exception no message swallows ends one frame after the other: while one is on its way
\* the frame that runs is ending with it, and until then nothing a message wrote before it
\* threw is in any unit of work.
Fails ==
    /\ failed \cap db = {}
    /\ \A w \in failed : w.id <= serial
    /\ depth = 0 => \A s \in Setting : uows[s].pending = {} /\ uows[s].flushed = {}
    /\ \A d \in 1..depth : frame[d].exn => d = depth /\ frame[d].pc = "finally"
    /\ (depth > 0 => ~ frame[depth].exn) =>
          \A s \in Setting : failed \cap (uows[s].pending \cup uows[s].flushed) = {}

\* A step that neither throws nor writes nor commits.
LEMMA FailsStep ==
    ASSUME TypeOK, Discipline, Fails, depth > 0, UNCHANGED <<depth, db, serial, failed>>,
           NEW f, SetTop(f) \/ (frame' = frame /\ f = Top), f.exn = Top.exn,
           f.exn => f.pc = "finally",
           \A s \in Setting : uows'[s].pending \cup uows'[s].flushed
                                 \subseteq uows[s].pending \cup uows[s].flushed
    PROVE  Fails'
  <1>1. \A d \in 1..depth : frame'[d] = IF d = depth THEN f ELSE frame[d]
    BY SetTopAt DEF Top
  <1>2. depth \in 1..MaxDepth /\ Top = frame[depth]
    BY TheTop
  <1>3. \A d \in 1..depth' : frame'[d].exn => d = depth' /\ frame'[d].pc = "finally"
    BY <1>1, <1>2 DEF Fails
  <1>4. frame'[depth'].exn = frame[depth].exn
    BY <1>1, <1>2
  <1>5. \A s \in Setting : ~ frame[depth].exn =>
            failed' \cap (uows'[s].pending \cup uows'[s].flushed) = {}
    BY DEF Fails
  <1> QED
    BY <1>2, <1>3, <1>4, <1>5 DEF Fails

LEMMA RaiseFails ==
    ASSUME TypeOK, Discipline, Messages, Fails, depth > 0, Raise, UNCHANGED <<depth, db, serial>>
    PROVE  Fails'
  <1>1. /\ depth \in 1..MaxDepth /\ Top = frame[depth] /\ Top \in Frame
        /\ Top.pc = "execute" => frame[1].pc \in {"loop", "execute"}
    BY TheTop
  <1>2. Holds(Top, uows, mine)
    BY <1>1 DEF Messages
  <1>3. \A w \in Top.wrote : w \notin db /\ w.id <= serial
    <2> SUFFICES ASSUME NEW w \in Top.wrote PROVE w \notin db /\ w.id <= serial
      OBVIOUS
    <2>1. Top.pc = "execute" /\ w \in mine
      BY <1>2 DEF Holds
    <2>2. w \notin db
      BY <1>1, <2>1 DEF Discipline, NothingDurableBeforeCommit
    <2>3. w.store \in Setting /\ w \in uows[w.store].pending \cup uows[w.store].flushed
      BY <1>1, <1>2 DEF Holds, Frame, Write
    <2> QED
      BY <2>2, <2>3 DEF Discipline, CycleDiscipline, SerialBoundsWrites
  <1>4. failed' = failed \cup Top.wrote
    BY DEF Raise
  <1>5. failed' \cap db' = {} /\ \A w \in failed' : w.id <= serial'
    BY <1>3, <1>4 DEF Fails
  <1>6. \A d \in 1..depth : frame'[d] = IF d = depth THEN Raised(Top) ELSE frame[d]
    BY SetTopAt DEF Raise
  <1>7. Raised(Top).exn /\ Raised(Top).pc = "finally"
    BY <1>1, RaisedFrame
  <1>8. \A d \in 1..depth' : frame'[d].exn => d = depth' /\ frame'[d].pc = "finally"
    BY <1>1, <1>6, <1>7 DEF Fails
  <1>9. depth' > 0 /\ frame'[depth'].exn
    BY <1>1, <1>6, <1>7
  <1> QED
    BY <1>5, <1>8, <1>9 DEF Fails

\* What a message uses and flushes stays in its unit of work.
LEMMA FlushKeeps ==
    ASSUME TypeOK, Discipline, FlushRepository \/ EndPart, NEW s \in Setting
    PROVE  uows'[s].pending \cup uows'[s].flushed = uows[s].pending \cup uows[s].flushed
  <1>1. Executing
    BY DEF FlushRepository, EndPart
  <1>2. /\ Unit \in UnitsOfWork /\ Unit = uows[Current.setting] /\ Current.setting \in Setting
        /\ Usable(Unit) <=> Unit.status = "open"
    BY <1>1, Messaging
  <1>3. uows' = [uows EXCEPT ![Current.setting] = FlushUnit(Unit)] \/ uows' = uows
    <2>1. CASE FlushRepository
      BY <2>1 DEF FlushRepository, SetUnit
    <2>2. CASE EndPart /\ Current.command
      BY <2>2 DEF EndPart, SetUnit
    <2>3. CASE EndPart /\ ~ Current.command
      BY <2>3 DEF EndPart
    <2> QED
      BY <2>1, <2>2, <2>3
  <1>4. FlushUnit(Unit).pending \cup FlushUnit(Unit).flushed = Unit.pending \cup Unit.flushed
    BY <1>2, FlushGrows DEF FlushUnit, Usable
  <1>5. (uows'[s] = FlushUnit(Unit) /\ s = Current.setting) \/ uows'[s] = uows[s]
    BY <1>2, <1>3 DEF TypeOK
  <1> QED
    BY <1>2, <1>4, <1>5

LEMMA FailsNext ==
    ASSUME TypeOK, TypeOK', Discipline, Messages, Fails, ~ CatchNested, [Next]_vars
    PROVE  Fails' \/ Poisoned'
  <1>1. ASSUME depth > 0, Top.pc # "finally"
        PROVE  Top.exn = FALSE
    BY <1>1, TheTop DEF Fails, Frame
  <1>2. ASSUME NEW parts \in Composites, Push(parts) PROVE Fails'
    <2>1. /\ depth' = depth + 1 /\ depth \in 0..MaxDepth
          /\ ~ frame'[depth + 1].exn
          /\ \A d \in 1..depth : frame'[d] = frame[d]
      BY <1>2, PushAt
    <2>2. UNCHANGED <<uows, db, serial, failed>> /\ Top.pc = "execute"
      BY <1>2 DEF Push
    <2>3. depth > 0 => ~ frame[depth].exn
      BY <1>1, <2>2 DEF Top
    <2>4. \A s \in Setting : failed \cap (uows[s].pending \cup uows[s].flushed) = {}
      BY <2>3 DEF Fails
    <2>5. ASSUME NEW d \in 1..depth' PROVE ~ frame'[d].exn
      <3>1. CASE d = depth + 1
        BY <2>1, <3>1
      <3>2. CASE d # depth + 1
        <4>1. d \in 1..depth
          BY <2>1, <3>2
        <4>2. d = depth => depth > 0
          BY <4>1
        <4> QED
          BY <2>1, <2>3, <4>1, <4>2 DEF Fails
      <3> QED
        BY <3>1, <3>2
    <2>6. depth' > 0
      BY <2>1
    <2> QED
      BY <2>2, <2>4, <2>5, <2>6 DEF Fails
  <1>3. ASSUME NEW i \in DOMAIN Top.parts, StartPart(i) PROVE Fails'
    <2> DEFINE f == [Top EXCEPT !.at = i, !.left = @ \ {i}, !.pc = "execute", !.wrote = {}]
    <2>1. /\ depth > 0 /\ SetTop(f) /\ UNCHANGED <<depth, db, serial, failed>>
          /\ Top.pc = "loop"
      BY <1>3 DEF StartPart, history
    <2>2. f.exn = Top.exn /\ Top.exn = FALSE
      BY <1>1, <2>1, TheTop DEF Frame
    <2>3. \A s \in Setting : uows'[s].pending = uows[s].pending /\ uows'[s].flushed = uows[s].flushed
      BY <1>3, StartGrows
    <2> HIDE DEF f
    <2> QED
      BY <2>1, <2>2, <2>3, FailsStep
  <1>4. CASE OpenUnitOfWork
    <2>1. /\ Executing /\ UNCHANGED <<frame, depth, db, serial, failed>>
          /\ uows' = [uows EXCEPT ![Current.setting] = [Unit EXCEPT !.status = "open"]]
      BY <1>4 DEF OpenUnitOfWork, SetUnit, history
    <2>2. /\ depth > 0 /\ Top.pc = "execute" /\ Unit \in UnitsOfWork
          /\ Unit = uows[Current.setting] /\ Current.setting \in Setting
      BY <2>1, Messaging
    <2>3. \A s \in Setting : uows'[s].pending = uows[s].pending /\ uows'[s].flushed = uows[s].flushed
      BY <2>1, <2>2 DEF TypeOK
    <2> QED
      BY <1>1, <2>1, <2>2, <2>3, FailsStep
  <1>5. CASE RepositoryFails
    BY <1>5, RaiseFails DEF RepositoryFails, Executing
  <1>6. ASSUME NEW changes \in BOOLEAN, WriteEntity(changes) PROVE Fails'
    <2> DEFINE w == [store |-> Current.setting, id |-> serial + 1,
                     tracked |-> Unit.isFlush \/ ~ changes]
               u == [Unit EXCEPT !.pending = @ \cup {w}]
               f == [Top EXCEPT !.wrote = @ \cup {w}]
    <2>1. /\ Executing /\ uows' = [uows EXCEPT ![Current.setting] = u] /\ SetTop(f)
          /\ serial' = serial + 1 /\ UNCHANGED <<depth, db, failed>>
      BY <1>6 DEF WriteEntity, SetUnit
    <2>2. /\ Current.setting \in Setting /\ Unit \in UnitsOfWork /\ Unit = uows[Current.setting]
          /\ depth > 0 /\ Top.pc = "execute"
      BY <2>1, Messaging
    <2>3. Top \in Frame /\ Top = frame[depth] /\ depth \in 1..MaxDepth
      BY <2>2, TheTop
    <2>4. f.exn = FALSE
      BY <1>1, <2>2, <2>3 DEF Frame
    <2>5. w.id = serial + 1
      OBVIOUS
    <2>11. u.pending = Unit.pending \cup {w} /\ u.flushed = Unit.flushed
      BY <2>2
    <2>12. uows'[Current.setting] = u /\ \A s \in Setting : s # Current.setting => uows'[s] = uows[s]
      BY <2>1, <2>2 DEF TypeOK
    <2> HIDE DEF f, w, u
    <2>6. \A v \in failed : v.id <= serial /\ v.id \in Nat /\ serial \in Nat
      BY DEF Fails, TypeOK, Write
    <2>7. w \notin failed /\ \A v \in failed' : v.id <= serial'
      <3>1. serial \in Nat
        BY DEF TypeOK
      <3> QED
        BY <2>1, <2>5, <2>6, <3>1
    <2>8. \A s \in Setting : failed \cap (uows[s].pending \cup uows[s].flushed) = {}
      BY <1>1, <2>2, <2>3 DEF Fails
    <2>9. \A s \in Setting : failed' \cap (uows'[s].pending \cup uows'[s].flushed) = {}
      BY <2>1, <2>2, <2>7, <2>8, <2>11, <2>12
    <2>10. \A d \in 1..depth' : ~ frame'[d].exn
      <3>1. \A d \in 1..depth : frame'[d] = IF d = depth THEN f ELSE frame[d]
        BY <2>1, <2>2, SetTopAt
      <3> QED
        BY <2>1, <2>4, <3>1 DEF Fails
    <2> QED
      BY <2>1, <2>2, <2>7, <2>9, <2>10 DEF Fails
  <1>7. CASE FlushRepository
    <2>1. Executing /\ UNCHANGED <<frame, depth, serial, failed>>
      BY <1>7 DEF FlushRepository, history
    <2>2. depth > 0 /\ Top.pc = "execute" /\ db' = db
      BY <1>7, <2>1, Messaging, MessageGrows
    <2>3. \A s \in Setting : uows'[s].pending \cup uows'[s].flushed = uows[s].pending \cup uows[s].flushed
      BY <1>7, FlushKeeps
    <2> QED
      BY <1>1, <2>1, <2>2, <2>3, FailsStep
  <1>8. CASE EndPart
    <2> DEFINE f == [Top EXCEPT !.at = 0, !.pc = "loop", !.wrote = {}]
    <2>1. Executing /\ SetTop(f) /\ UNCHANGED <<depth, serial, failed>>
      BY <1>8 DEF EndPart
    <2>2. depth > 0 /\ Top.pc = "execute" /\ db' = db
      BY <1>8, <2>1, Messaging, MessageGrows
    <2>3. f.exn = Top.exn /\ Top.exn = FALSE
      BY <1>1, <2>2, TheTop DEF Frame
    <2>4. \A s \in Setting : uows'[s].pending \cup uows'[s].flushed = uows[s].pending \cup uows[s].flushed
      BY <1>8, FlushKeeps
    <2> HIDE DEF f
    <2> QED
      BY <2>1, <2>2, <2>3, <2>4, FailsStep
  <1>9. CASE Throw
    BY <1>9, RaiseFails DEF Throw, Executing
  <1>10. CASE FlushFails
    BY <1>10, RaiseFails DEF FlushFails, Executing
  <1>11. CASE EndLoop
    <2> DEFINE f == [Top EXCEPT !.pc = IF Top.isOuter /\ Top.isFlush THEN "commit" ELSE "finally"]
    <2>1. /\ SetTop(f) /\ depth > 0 /\ Top.pc = "loop"
          /\ UNCHANGED <<uows, depth, db, serial, failed>>
      BY <1>11 DEF EndLoop, history
    <2>2. f.exn = Top.exn /\ Top.exn = FALSE
      BY <1>1, <2>1, TheTop DEF Frame
    <2> HIDE DEF f
    <2> QED
      BY <2>1, <2>2, FailsStep
  <1>12. CASE EndCommit
    <2> DEFINE f == [Top EXCEPT !.pc = "finally"]
    <2>1. /\ SetTop(f) /\ depth > 0 /\ UNCHANGED <<uows, depth, db, serial, failed>>
      BY <1>12 DEF EndCommit, history
    <2>2. f.exn = Top.exn /\ f.pc = "finally"
      BY <2>1, TheTop DEF Frame
    <2> HIDE DEF f
    <2> QED
      BY <2>1, <2>2, FailsStep
  <1>13. CASE EndPush
    <2>1. /\ depth > 0 /\ Top.exn \in BOOLEAN /\ Leave(Top.exn) /\ UNCHANGED <<db, serial>>
          /\ Top = frame[depth] /\ depth \in 1..MaxDepth
      BY <1>13, TheTop DEF EndPush, Frame
    <2>2. depth' = depth - 1
      BY <2>1, LeaveAt
    <2>3. CASE depth = 1
      <3>1. Top.isOuter /\ depth' = 0 /\ failed' = failed
        BY <2>1, <2>2, <2>3, TheTop, LeaveAt
      <3>2. uows' = [s \in Setting |-> Absent]
        BY <1>13, <3>1 DEF EndPush
      <3>3. \A s \in Setting : uows'[s].pending = {} /\ uows'[s].flushed = {}
        BY <3>2 DEF Absent
      <3>4. 1..depth' = {}
        BY <3>1
      <3> QED
        BY <2>1, <3>1, <3>3, <3>4 DEF Fails
    <2>4. CASE depth > 1
      <3>1. uows' = uows
        <4>1. ~ Top.isOuter
          BY <2>1, <2>4, TheTop
        <4> QED
          BY <1>13, <4>1 DEF EndPush
      <3>2. /\ frame[1].pc = "execute" /\ depth - 1 \in 1..depth
            /\ depth - 1 \in 1..depth - 1 /\ frame[depth - 1] \in Frame
        BY <2>1, <2>4, TheTop
      <3>3. CASE ~ Top.exn
        <4>1. failed' = failed /\ \A d \in 1..depth - 1 : frame'[d] = frame[d]
          BY <2>1, <3>3, LeaveAt
        <4>2. \A d \in 1..depth - 1 : ~ frame[d].exn
          BY <2>1 DEF Fails
        <4> QED
          BY <2>1, <2>2, <2>4, <3>1, <3>2, <3>3, <4>1, <4>2 DEF Fails
      <3>4. CASE Top.exn
        <4>1. /\ failed' = failed \cup frame[depth - 1].wrote
              /\ \A d \in 1..depth - 1 :
                    frame'[d] = IF d = depth - 1 THEN Raised(frame[d]) ELSE frame[d]
          <5>1. depth # 1
            BY <2>1, <2>4
          <5>2. ~ (Top.exn => CatchNested \/ depth = 1)
            BY <3>4, <5>1
          <5> QED
            BY <2>1, <5>2, LeaveAt, Zenon
        <4>2. \A d \in 1..depth - 1 : ~ frame[d].exn
          BY <2>1 DEF Fails
        <4>3. frame'[depth - 1].exn /\ frame'[depth - 1].pc = "finally"
          BY <3>2, <4>1, RaisedFrame
        <4>4. \A d \in 1..depth' : frame'[d].exn => d = depth' /\ frame'[d].pc = "finally"
          BY <2>2, <4>1, <4>2, <4>3
        <4>5. Holds(frame[depth - 1], uows, mine) /\ mine \cap db = {}
          BY <2>1, <2>4, <3>2 DEF Messages, Discipline, NothingDurableBeforeCommit
        <4>6. ASSUME NEW w \in frame[depth - 1].wrote PROVE w \notin db /\ w.id <= serial
          <5>1. w \in mine /\ w.store \in Setting
                /\ w \in uows[w.store].pending \cup uows[w.store].flushed
            BY <3>2, <4>5 DEF Holds, Frame, Write
          <5> QED
            BY <4>5, <5>1 DEF Discipline, CycleDiscipline, SerialBoundsWrites
        <4>7. failed' \cap db' = {} /\ \A w \in failed' : w.id <= serial'
          BY <2>1, <4>1, <4>6 DEF Fails
        <4>8. depth' > 0 /\ frame'[depth'].exn
          BY <2>1, <2>2, <2>4, <4>3
        <4> QED
          BY <4>4, <4>7, <4>8 DEF Fails
      <3> QED
        BY <3>3, <3>4
    <2> QED
      BY <2>1, <2>3, <2>4
  <1>14. ASSUME NEW s \in Setting, CommitUnit(s) PROVE Fails'
    <2>1. /\ depth = 1 /\ frame[1].pc = "commit" /\ UNCHANGED <<frame, depth, serial, failed>>
          /\ db' = db \cup uows[s].flushed
          /\ uows' = [uows EXCEPT ![s].status = "committed"]
      BY <1>14, TheTop DEF CommitUnit, history
    <2>2. ~ frame[1].exn
      BY <2>1 DEF Fails
    <2>3. \A r \in Setting : failed \cap (uows[r].pending \cup uows[r].flushed) = {}
      BY <2>1, <2>2 DEF Fails
    <2>4. \A r \in Setting : uows'[r].pending = uows[r].pending /\ uows'[r].flushed = uows[r].flushed
      BY <2>1 DEF TypeOK
    <2>5. failed' \cap db' = {}
      BY <2>1, <2>3 DEF Fails
    <2>6. \A r \in Setting : failed' \cap (uows'[r].pending \cup uows'[r].flushed) = {}
      BY <2>1, <2>3, <2>4
    <2>7. depth' = 1 /\ ~ frame'[1].exn
      BY <2>1, <2>2
    <2> QED
      BY <2>1, <2>5, <2>6, <2>7 DEF Fails
  <1>15. ASSUME NEW s \in Setting, CommitFails(s) PROVE Fails'
    BY <1>15, RaiseFails DEF CommitFails
  <1>16. ASSUME NEW s \in Setting, DisposeUnit(s) PROVE Fails'
    <2>1. /\ depth > 0 /\ Top.pc = "finally" /\ UNCHANGED <<frame, depth, serial, failed, db>>
          /\ uows' = [uows EXCEPT ![s] = Disposed(uows[s])]
      BY <1>16 DEF DisposeUnit, history
    <2>2. \A r \in Setting : uows'[r].pending \cup uows'[r].flushed
                                 \subseteq uows[r].pending \cup uows[r].flushed
      BY <2>1 DEF TypeOK, Disposed
    <2> QED
      BY <2>1, <2>2, FailsStep
  <1>17. ASSUME NEW s \in Setting, DisposeFails(s) PROVE Poisoned'
    BY <1>17, DisposeFailsPoisons
  <1>18. CASE UNCHANGED vars
    BY <1>18 DEF vars, Fails
  <1> QED
    BY <1>2, <1>3, <1>4, <1>5, <1>6, <1>7, <1>8, <1>9, <1>10, <1>11, <1>12, <1>13, <1>14,
       <1>15, <1>16, <1>17, <1>18 DEF Next, Message, Loop

-------------------------------------------------------------------------------
(* Every write is in one place *)

\* A unit of work holds writes of its own setting, each either still to be sent or sent, and
\* nothing that is to be sent is durable; before it is created it holds none.
Fresh ==
    \A s \in Setting :
        /\ \A w \in uows[s].pending \cup uows[s].flushed : w.store = s
        /\ uows[s].pending \cap uows[s].flushed = {}
        /\ uows[s].pending \cap db = {}
        /\ uows[s].status \in {"absent", "lazy", "faulted"} =>
              uows[s].pending = {} /\ uows[s].flushed = {}

\* A step that only drops writes, and creates a unit of work only when it holds none.
LEMMA FreshStep ==
    ASSUME Fresh, db' = db,
           \A s \in Setting :
              \/ /\ uows'[s].pending \subseteq uows[s].pending
                 /\ uows'[s].flushed \subseteq uows[s].flushed
                 /\ uows'[s].status \in {"absent", "lazy", "faulted"} =>
                       uows[s].status \in {"absent", "lazy", "faulted"}
              \/ uows'[s].pending = {} /\ uows'[s].flushed = {}
    PROVE  Fresh'
  BY DEF Fresh

LEMMA FreshNext ==
    ASSUME TypeOK, TypeOK', Discipline, Fresh, [Next]_vars
    PROVE  Fresh' \/ Poisoned'
  <1>1. ASSUME UNCHANGED <<uows, db>> PROVE Fresh'
    BY <1>1, FreshStep
  <1>2. ASSUME NEW i \in DOMAIN Top.parts, StartPart(i) PROVE Fresh'
    <2> DEFINE r == Top.parts[i].setting
               u == AddOrGet(uows[r], Top.isFlush)
    <2>1. depth > 0 /\ Top \in Frame
      BY <1>2, TheTop DEF StartPart
    <2>2. r \in Setting /\ uows' = [uows EXCEPT ![r] = u] /\ db' = db
      BY <1>2, <2>1, CompositeType DEF Frame, Part, StartPart, history
    <2>3. \A s \in Setting : uows'[s] = IF s = r THEN u ELSE uows[s]
      BY <2>2 DEF TypeOK
    <2>4. \A s \in Setting : uows'[s].pending = uows[s].pending /\ uows'[s].flushed = uows[s].flushed
      BY <1>2, StartGrows
    <2>5. u.status \in {"absent", "lazy", "faulted"} =>
              uows[r].status \in {"absent", "lazy", "faulted"}
      BY DEF AddOrGet
    <2> HIDE DEF u, r
    <2> QED
      BY <2>2, <2>3, <2>4, <2>5, FreshStep
  <1>3. CASE OpenUnitOfWork
    <2> DEFINE u == [Unit EXCEPT !.status = "open"]
    <2>1. /\ Executing /\ db' = db /\ uows' = [uows EXCEPT ![Current.setting] = u]
      BY <1>3 DEF OpenUnitOfWork, SetUnit, history
    <2>2. Unit \in UnitsOfWork /\ Unit = uows[Current.setting] /\ Current.setting \in Setting
      BY <2>1, Messaging
    <2>3. u.pending = Unit.pending /\ u.flushed = Unit.flushed /\ u.status = "open"
      BY <2>2
    <2>4. \A s \in Setting : uows'[s] = IF s = Current.setting THEN u ELSE uows[s]
      BY <2>1, <2>2 DEF TypeOK
    <2> HIDE DEF u
    <2> QED
      BY <2>1, <2>2, <2>3, <2>4, FreshStep
  <1>4. CASE RepositoryFails
    <2> DEFINE u == IF Unit.status = "lazy" THEN [Unit EXCEPT !.status = "faulted"] ELSE Unit
    <2>1. /\ Executing /\ db' = db /\ uows' = [uows EXCEPT ![Current.setting] = u]
      BY <1>4 DEF RepositoryFails, SetUnit
    <2>2. Unit \in UnitsOfWork /\ Unit = uows[Current.setting] /\ Current.setting \in Setting
      BY <2>1, Messaging
    <2>3. /\ u.pending = Unit.pending /\ u.flushed = Unit.flushed
          /\ u.status \in {"absent", "lazy", "faulted"} => Unit.status \in {"absent", "lazy", "faulted"}
      BY <2>2
    <2>4. \A s \in Setting : uows'[s] = IF s = Current.setting THEN u ELSE uows[s]
      BY <2>1, <2>2 DEF TypeOK
    <2> HIDE DEF u
    <2> QED
      BY <2>1, <2>2, <2>3, <2>4, FreshStep
  <1>5. ASSUME NEW changes \in BOOLEAN, WriteEntity(changes) PROVE Fresh'
    <2> DEFINE w == [store |-> Current.setting, id |-> serial + 1,
                     tracked |-> Unit.isFlush \/ ~ changes]
               u == [Unit EXCEPT !.pending = @ \cup {w}]
    <2>1. /\ Executing /\ Usable(Unit) /\ db' = db
          /\ uows' = [uows EXCEPT ![Current.setting] = u]
      BY <1>5 DEF WriteEntity, SetUnit
    <2>2. /\ Unit \in UnitsOfWork /\ Unit = uows[Current.setting] /\ Current.setting \in Setting
          /\ Unit.status = "open"
      BY <2>1, Messaging
    <2>3. u.pending = Unit.pending \cup {w} /\ u.flushed = Unit.flushed /\ u.status = "open"
      BY <2>2
    <2>4. \A s \in Setting : uows'[s] = IF s = Current.setting THEN u ELSE uows[s]
      BY <2>1, <2>2 DEF TypeOK
    <2>5. w.store = Current.setting /\ w.id = serial + 1
      OBVIOUS
    <2> HIDE DEF u, w
    <2>6. w \notin Unit.flushed /\ w \notin db
      <3>1. \A v \in db \cup Unit.flushed : v.id <= serial
        BY <2>2 DEF Discipline, CycleDiscipline, SerialBoundsWrites
      <3>2. serial \in Nat
        BY DEF TypeOK
      <3> QED
        BY <2>5, <3>1, <3>2
    <2> QED
      BY <2>1, <2>2, <2>3, <2>4, <2>5, <2>6 DEF Fresh
  <1>6. ASSUME Executing, uows' = [uows EXCEPT ![Current.setting] = FlushUnit(Unit)], db' = db
        PROVE  Fresh'
    <2>1. /\ Unit \in UnitsOfWork /\ Unit = uows[Current.setting] /\ Current.setting \in Setting
          /\ Usable(Unit) <=> Unit.status = "open"
      BY <1>6, Messaging
    <2>2. \A s \in Setting : uows'[s] = IF s = Current.setting THEN FlushUnit(Unit) ELSE uows[s]
      BY <1>6, <2>1 DEF TypeOK
    <2>3. CASE Unit.status = "open"
      <3>1. /\ FlushUnit(Unit).flushed = Unit.flushed \cup Tracked(Unit)
            /\ FlushUnit(Unit).pending = Unit.pending \ Tracked(Unit)
            /\ FlushUnit(Unit).status = "open"
        BY <2>1, <2>3, FlushGrows
      <3>2. Tracked(Unit) \subseteq Unit.pending
        BY DEF Tracked
      <3> QED
        BY <1>6, <2>1, <2>2, <3>1, <3>2 DEF Fresh
    <2>4. CASE Unit.status # "open"
      <3>1. FlushUnit(Unit) = Unit
        BY <2>1, <2>4 DEF FlushUnit
      <3> QED
        BY <1>6, <2>1, <2>2, <3>1, FreshStep
    <2> QED
      BY <2>3, <2>4
  <1>7. CASE FlushRepository
    <2>1. Executing /\ uows' = [uows EXCEPT ![Current.setting] = FlushUnit(Unit)]
      BY <1>7 DEF FlushRepository, SetUnit
    <2> QED
      BY <1>6, <1>7, <2>1, MessageGrows
  <1>8. CASE EndPart
    <2>1. CASE Current.command
      <3>1. Executing /\ uows' = [uows EXCEPT ![Current.setting] = FlushUnit(Unit)]
        BY <1>8, <2>1 DEF EndPart, SetUnit
      <3> QED
        BY <1>6, <1>8, <3>1, MessageGrows
    <2>2. CASE ~ Current.command
      BY <1>1, <1>8, <2>2 DEF EndPart
    <2> QED
      BY <2>1, <2>2
  <1>9. ASSUME NEW s \in Setting, CommitUnit(s) PROVE Fresh'
    <2>1. db' = db \cup uows[s].flushed /\ uows' = [uows EXCEPT ![s].status = "committed"]
      BY <1>9 DEF CommitUnit
    <2>2. \A r \in Setting : /\ uows'[r].pending = uows[r].pending
                             /\ uows'[r].flushed = uows[r].flushed
                             /\ uows'[r].status = IF r = s THEN "committed" ELSE uows[r].status
      BY <2>1 DEF TypeOK
    <2>3. \A r \in Setting : uows[r].pending \cap uows[s].flushed = {}
      BY DEF Fresh
    <2> QED
      BY <2>1, <2>2, <2>3 DEF Fresh
  <1>10. ASSUME NEW s \in Setting, DisposeUnit(s) PROVE Fresh'
    <2>1. db' = db /\ uows' = [uows EXCEPT ![s] = Disposed(uows[s])]
      BY <1>10 DEF DisposeUnit, history
    <2>2. Disposed(uows[s]).pending = {} /\ Disposed(uows[s]).flushed = {}
      BY DEF Disposed, TypeOK
    <2>3. \A r \in Setting : uows'[r] = IF r = s THEN Disposed(uows[s]) ELSE uows[r]
      BY <2>1 DEF TypeOK
    <2> QED
      BY <2>1, <2>2, <2>3, FreshStep
  <1>11. CASE EndPush
    <2>1. CASE Top.isOuter
      <3>1. \A s \in Setting : uows'[s].pending = {} /\ uows'[s].flushed = {}
        BY <1>11, <2>1 DEF EndPush, Absent
      <3> QED
        BY <1>11, <3>1, FreshStep DEF EndPush
    <2>2. CASE ~ Top.isOuter
      BY <1>1, <1>11, <2>2 DEF EndPush
    <2> QED
      BY <2>1, <2>2
  <1>12. ASSUME NEW s \in Setting, DisposeFails(s) PROVE Poisoned'
    BY <1>12, DisposeFailsPoisons
  <1>13. ASSUME NEW parts \in Composites, Push(parts) PROVE Fresh'
    BY <1>1, <1>13 DEF Push
  <1>14. CASE Throw \/ FlushFails \/ EndLoop \/ EndCommit \/ \E s \in Setting : CommitFails(s)
    <2>1. UNCHANGED <<uows, db>>
      BY <1>14 DEF Throw, FlushFails, EndLoop, EndCommit, CommitFails, history
    <2> QED
      BY <1>1, <2>1
  <1>15. CASE UNCHANGED vars
    BY <1>1, <1>15 DEF vars
  <1> QED
    BY <1>2, <1>3, <1>4, <1>5, <1>7, <1>8, <1>9, <1>10, <1>11, <1>12, <1>13, <1>14, <1>15
    DEF Next, Message, Loop

-------------------------------------------------------------------------------
(* Theorems *)

\* The invariant that holds until a Dispose throws.
Durability ==
    /\ Discipline
    /\ Messages
    /\ Completed
    /\ CatchNested \/ Fails
    /\ Fresh

LEMMA DurabilityInit == Init => Durability
  <1>1. Init => Discipline
    BY DisciplineInit DEF Discipline
  <1>2. Init => Messages /\ Completed /\ Fails /\ Fresh
    BY DEF Init, Messages, Completed, CommittedCycleIsDurable, Fails, Fresh, Absent
  <1> QED
    BY <1>1, <1>2 DEF Durability

LEMMA DurabilityNext ==
    TypeOK /\ TypeOK' /\ (Durability \/ Poisoned) /\ [Next]_vars => (Durability \/ Poisoned)'
  <1> SUFFICES ASSUME TypeOK, TypeOK', Durability \/ Poisoned, [Next]_vars
               PROVE  Durability' \/ Poisoned'
    OBVIOUS
  <1>1. CASE Poisoned
    BY <1>1, PoisonedNext
  <1>2. CASE Durability
    BY <1>2, DisciplineNext, MessagesNext, CompletedNext, FailsNext, FreshNext DEF Durability
  <1> QED
    BY <1>1, <1>2

LEMMA DurabilityInvariant == Spec => [](TypeOK /\ (Durability \/ Poisoned))
  BY DurabilityInit, DurabilityNext, TypeCorrect, PTL DEF Spec

\* With providers whose Dispose does not throw, an outermost Push of commands that returns
\* has made durable every tracked write of every command that completed in it.
THEOREM CommittedCycle ==
    ASSUME ~ DisposeMayFail
    PROVE  Spec => []CommittedCycleIsDurable
  <1>1. Durability \/ Poisoned => CommittedCycleIsDurable
    BY DEF Durability, Completed, Poisoned
  <1> QED
    BY <1>1, DurabilityInvariant, PTL

\* Nothing that a message wrote before it threw becomes durable, unless a message swallows
\* the exception of a nested push or a Dispose threw before.
THEOREM FailedMessage == Spec => []FailedMessageNeverDurable
  <1>1. Durability \/ Poisoned => FailedMessageNeverDurable
    BY DEF Durability, Fails, FailedMessageNeverDurable
  <1> QED
    BY <1>1, DurabilityInvariant, PTL

-------------------------------------------------------------------------------
(* The dispatcher implements the transactional cycle *)

\* The work of the cycle, as the refinement mapping has it.
CycleWork == [s \in Setting |-> IF uows[s].status = "open" THEN uows[s].flushed ELSE {}]

LEMMA StageIs ==
    /\ depth = 0 => Stage = "idle"
    /\ depth > 0 => /\ frame[1].pc \in {"loop", "execute"} => Stage = "working"
                    /\ frame[1].pc = "commit" => Stage = "committing"
                    /\ frame[1].pc = "finally" => Stage = "closing"
  BY DEF Stage

LEMMA SameWork ==
    ASSUME \A s \in Setting : \/ uows'[s] = uows[s]
                              \/ /\ uows[s].status = "open" => uows[s].flushed = {}
                                 /\ uows'[s].status = "open" => uows'[s].flushed = {}
                              \/ /\ uows'[s].status = uows[s].status
                                 /\ uows'[s].flushed = uows[s].flushed
    PROVE  CycleWork' = CycleWork
  BY DEF CycleWork

\* An exception ends the cycle, or the push it was thrown in.
LEMMA RaiseCloses ==
    ASSUME TypeOK, Discipline, depth > 0, Raise, UNCHANGED <<depth, db>>, CycleWork' = CycleWork,
           Top.pc \in {"loop", "execute", "commit"}
    PROVE  [Cycle!CycleNext]_(Cycle!cycleVars)
  <1>1. \A d \in 1..depth : frame'[d] = IF d = depth THEN Raised(Top) ELSE frame[d]
    BY SetTopAt DEF Raise
  <1>2. /\ depth \in 1..MaxDepth /\ Top \in Frame /\ depth' > 0 /\ depth' # 0
        /\ Raised(Top).pc = "finally"
    BY TheTop, RaisedFrame
  <1>3. CASE depth = 1
    <2>1. frame[1].pc = Top.pc /\ frame'[1].pc = "finally"
      BY <1>1, <1>2, <1>3, TheTop
    <2>2. Stage \in {"working", "committing"}
      BY <2>1, StageIs
    <2>3. Stage' = "closing"
      BY <1>2, <2>1 DEF Stage
    <2> QED
      BY <2>2, <2>3 DEF Cycle!CycleNext, Cycle!Close, CycleWork
  <1>4. CASE depth > 1
    <2>1. frame'[1] = frame[1]
      BY <1>1, <1>2, <1>4
    <2>2. Stage' = Stage
      BY <2>1 DEF Stage
    <2> QED
      BY <2>2 DEF Cycle!cycleVars, CycleWork
  <1> QED
    BY <1>2, <1>3, <1>4

\* A step of a message that throws nothing keeps the cycle working.
LEMMA StillWorking ==
    ASSUME TypeOK, Discipline, depth > 0, UNCHANGED depth, Top.pc \in {"loop", "execute"},
           frame' = frame \/ \E f : SetTop(f) /\ f.pc \in {"loop", "execute"}
    PROVE  Stage = "working" /\ Stage' = "working"
  <1>1. /\ depth \in 1..MaxDepth /\ frame[1].pc \in {"loop", "execute"}
        /\ depth' > 0 /\ depth' # 0
    BY TheTop
  <1>2. frame'[1].pc \in {"loop", "execute"}
    BY <1>1, SetTopAt
  <1> QED
    BY <1>1, <1>2 DEF Stage

\* What a flush sends is new to the cycle.
LEMMA FlushAdds ==
    ASSUME TypeOK, Discipline, Fresh, Executing, Stage = "working", Stage' = "working", db' = db,
           uows' = [uows EXCEPT ![Current.setting] = FlushUnit(Unit)]
    PROVE  [Cycle!CycleNext]_(Cycle!cycleVars)
  <1>1. /\ Unit \in UnitsOfWork /\ Unit = uows[Current.setting] /\ Current.setting \in Setting
        /\ Usable(Unit) <=> Unit.status = "open"
    BY Messaging
  <1>2. \A s \in Setting : uows'[s] = IF s = Current.setting THEN FlushUnit(Unit) ELSE uows[s]
    BY <1>1 DEF TypeOK
  <1>3. CASE Unit.status = "open"
    <2>1. /\ FlushUnit(Unit).flushed = Unit.flushed \cup Tracked(Unit)
          /\ FlushUnit(Unit).status = "open"
      BY <1>1, <1>3, FlushGrows
    <2>2. Tracked(Unit) \subseteq Unit.pending /\ Tracked(Unit) \in SUBSET Write
      BY <1>1 DEF Tracked
    <2>3. PICK c \in Setting, W \in SUBSET Write : c = Current.setting /\ W = Tracked(Unit)
      BY <1>1, <2>2
    <2>4. CycleWork[c] = Unit.flushed
      BY <1>1, <1>3, <2>3 DEF CycleWork
    <2>5. \A s \in Setting : uows'[s] = IF s = c THEN FlushUnit(Unit) ELSE uows[s]
      BY <1>2, <2>3
    <2>6. FlushUnit(Unit).flushed = CycleWork[c] \cup W
      BY <2>1, <2>4, <2>3
    <2>7. CycleWork' = [CycleWork EXCEPT ![c] = @ \cup W]
      <3>1. /\ CycleWork = [s \in Setting |-> CycleWork[s]]
            /\ CycleWork' = [s \in Setting |-> CycleWork'[s]]
        BY DEF CycleWork
      <3>2. \A s \in Setting : CycleWork'[s] = IF s = c THEN FlushUnit(Unit).flushed
                                                       ELSE CycleWork[s]
        <4>1. \A s \in Setting :
                 /\ CycleWork[s] = IF uows[s].status = "open" THEN uows[s].flushed ELSE {}
                 /\ CycleWork'[s] = IF uows'[s].status = "open" THEN uows'[s].flushed ELSE {}
          BY DEF CycleWork
        <4>2. uows'[c] = FlushUnit(Unit) /\ \A s \in Setting : s # c => uows'[s] = uows[s]
          BY <2>5
        <4>3. uows'[c].status = "open" /\ uows'[c].flushed = FlushUnit(Unit).flushed
          BY <2>1, <4>2
        <4>4. CycleWork'[c] = FlushUnit(Unit).flushed
          BY <4>1, <4>3
        <4>5. \A s \in Setting : s # c => CycleWork'[s] = CycleWork[s]
          BY <4>1, <4>2
        <4> QED
          BY <4>4, <4>5
      <3> QED
        BY <2>4, <2>6, <3>1, <3>2
    <2>8. Tracked(Unit) \cap db = {}
      BY <1>1, <2>2 DEF Fresh
    <2>9. \A s \in Setting : Tracked(Unit) \cap CycleWork[s] = {}
      BY <1>1, <2>2 DEF Fresh, CycleWork
    <2>10. Tracked(Unit) \cap (db \cup UNION {CycleWork[s] : s \in Setting}) = {}
      BY <2>8, <2>9
    <2>11. Cycle!Add(c, W)
      BY <2>7, <2>10, <2>3 DEF Cycle!Add, CycleWork
    <2> QED
      BY <2>11 DEF Cycle!CycleNext
  <1>4. CASE Unit.status # "open"
    <2>1. FlushUnit(Unit) = Unit
      BY <1>1, <1>4 DEF FlushUnit
    <2>2. CycleWork' = CycleWork
      BY <1>1, <1>2, <2>1, SameWork
    <2> QED
      BY <2>2 DEF Cycle!cycleVars, CycleWork
  <1> QED
    BY <1>3, <1>4

LEMMA StepRefines ==
    ASSUME TypeOK, TypeOK', Discipline, Fresh, ~ DisposeMayFail, [Next]_vars
    PROVE  [Cycle!CycleNext]_(Cycle!cycleVars)
  <1>1. ASSUME Stage' = Stage, CycleWork' = CycleWork, db' = db
        PROVE  [Cycle!CycleNext]_(Cycle!cycleVars)
    BY <1>1 DEF Cycle!cycleVars, CycleWork
  <1>2. ASSUME NEW parts \in Composites, Push(parts) PROVE [Cycle!CycleNext]_(Cycle!cycleVars)
    <2>1. /\ depth' = depth + 1 /\ depth \in 0..MaxDepth
          /\ frame'[depth + 1].pc = "loop"
          /\ \A d \in 1..depth : frame'[d] = frame[d]
      BY <1>2, PushAt
    <2>2. UNCHANGED <<uows, db>>
      BY <1>2 DEF Push
    <2>3. CycleWork' = CycleWork
      BY <2>2 DEF CycleWork
    <2>4. CASE depth = 0
      <3>1. Stage = "idle" /\ Stage' = "working"
        BY <2>1, <2>4 DEF Stage
      <3> QED
        BY <2>2, <2>3, <3>1 DEF Cycle!CycleNext, Cycle!Begin, CycleWork
    <2>5. CASE depth > 0
      <3>1. frame'[1] = frame[1] /\ depth' # 0 /\ depth # 0
        BY <2>1, <2>5
      <3>2. Stage' = Stage
        BY <3>1 DEF Stage
      <3> QED
        BY <1>1, <2>2, <2>3, <3>2
    <2> QED
      BY <2>1, <2>4, <2>5
  <1>3. ASSUME NEW i \in DOMAIN Top.parts, StartPart(i)
        PROVE  [Cycle!CycleNext]_(Cycle!cycleVars)
    <2> DEFINE f == [Top EXCEPT !.at = i, !.left = @ \ {i}, !.pc = "execute", !.wrote = {}]
               r == Top.parts[i].setting
               u == AddOrGet(uows[r], Top.isFlush)
    <2>1. depth > 0 /\ SetTop(f) /\ UNCHANGED <<depth, db>> /\ Top.pc = "loop"
      BY <1>3 DEF StartPart, history
    <2>2. f.pc = "execute" /\ Top \in Frame
      BY <2>1, TheTop DEF Frame
    <2>3. r \in Setting /\ uows' = [uows EXCEPT ![r] = u]
      BY <1>3, <2>2, CompositeType DEF Frame, Part, StartPart
    <2>4. \A s \in Setting : uows'[s] = IF s = r THEN u ELSE uows[s]
      BY <2>3 DEF TypeOK
    <2>5. \/ u = uows[r]
          \/ uows[r].status # "open" /\ u.status # "open"
      BY DEF AddOrGet
    <2> HIDE DEF f, r, u
    <2>6. CycleWork' = CycleWork
      BY <2>4, <2>5, SameWork
    <2>7. Stage' = Stage
      BY <2>1, <2>2, StillWorking
    <2> QED
      BY <1>1, <2>1, <2>6, <2>7
  <1>4. CASE OpenUnitOfWork
    <2> DEFINE u == [Unit EXCEPT !.status = "open"]
    <2>1. /\ Executing /\ UNCHANGED <<frame, depth, db>> /\ Unit.status = "lazy"
          /\ uows' = [uows EXCEPT ![Current.setting] = u]
      BY <1>4 DEF OpenUnitOfWork, SetUnit, history
    <2>2. /\ Unit \in UnitsOfWork /\ Unit = uows[Current.setting] /\ Current.setting \in Setting
          /\ depth > 0 /\ Top.pc = "execute"
      BY <2>1, Messaging
    <2>3. u.flushed = {} /\ Unit.flushed = {}
      BY <2>1, <2>2 DEF Fresh
    <2>4. \A s \in Setting : uows'[s] = IF s = Current.setting THEN u ELSE uows[s]
      BY <2>1, <2>2 DEF TypeOK
    <2> HIDE DEF u
    <2>5. CycleWork' = CycleWork
      BY <2>2, <2>3, <2>4, SameWork
    <2>6. Stage' = Stage
      BY <2>1, <2>2, StillWorking
    <2> QED
      BY <1>1, <2>1, <2>5, <2>6
  <1>5. CASE RepositoryFails
    <2> DEFINE u == IF Unit.status = "lazy" THEN [Unit EXCEPT !.status = "faulted"] ELSE Unit
    <2>1. /\ Executing /\ Raise /\ UNCHANGED <<depth, db>>
          /\ uows' = [uows EXCEPT ![Current.setting] = u]
      BY <1>5 DEF RepositoryFails, SetUnit
    <2>2. /\ Unit \in UnitsOfWork /\ Unit = uows[Current.setting] /\ Current.setting \in Setting
          /\ depth > 0 /\ Top.pc = "execute"
      BY <2>1, Messaging
    <2>3. u = Unit \/ (u.status # "open" /\ Unit.status # "open")
      BY <2>2
    <2>4. \A s \in Setting : uows'[s] = IF s = Current.setting THEN u ELSE uows[s]
      BY <2>1, <2>2 DEF TypeOK
    <2> HIDE DEF u
    <2>5. CycleWork' = CycleWork
      BY <2>2, <2>3, <2>4, SameWork
    <2> QED
      BY <2>1, <2>2, <2>5, RaiseCloses
  <1>6. ASSUME NEW changes \in BOOLEAN, WriteEntity(changes)
        PROVE  [Cycle!CycleNext]_(Cycle!cycleVars)
    <2>1. PICK w : /\ SetTop([Top EXCEPT !.wrote = @ \cup {w}])
                   /\ uows' = [uows EXCEPT ![Current.setting] = [Unit EXCEPT !.pending = @ \cup {w}]]
      BY <1>6 DEF WriteEntity, SetUnit
    <2> DEFINE f == [Top EXCEPT !.wrote = @ \cup {w}]
               u == [Unit EXCEPT !.pending = @ \cup {w}]
    <2>2. Executing /\ UNCHANGED <<depth, db>>
      BY <1>6 DEF WriteEntity
    <2>3. /\ Unit \in UnitsOfWork /\ Unit = uows[Current.setting] /\ Current.setting \in Setting
          /\ depth > 0 /\ Top.pc = "execute"
      BY <2>2, Messaging
    <2>4. f.pc = "execute"
      BY <2>3, TheTop DEF Frame
    <2>5. u.status = Unit.status /\ u.flushed = Unit.flushed
      BY <2>3
    <2>6. \A s \in Setting : uows'[s] = IF s = Current.setting THEN u ELSE uows[s]
      BY <2>1, <2>3 DEF TypeOK
    <2>7. SetTop(f)
      BY <2>1
    <2> HIDE DEF f, u
    <2>8. CycleWork' = CycleWork
      BY <2>3, <2>5, <2>6, SameWork
    <2>9. Stage' = Stage
      BY <2>2, <2>3, <2>4, <2>7, StillWorking
    <2> QED
      BY <1>1, <2>2, <2>8, <2>9
  <1>7. CASE FlushRepository
    <2>1. /\ Executing /\ UNCHANGED <<frame, depth>>
          /\ uows' = [uows EXCEPT ![Current.setting] = FlushUnit(Unit)]
      BY <1>7 DEF FlushRepository, SetUnit, history
    <2>2. depth > 0 /\ Top.pc = "execute" /\ db' = db
      BY <1>7, <2>1, Messaging, MessageGrows
    <2>3. Stage = "working" /\ Stage' = "working"
      BY <2>1, <2>2, StillWorking
    <2> QED
      BY <2>1, <2>2, <2>3, FlushAdds
  <1>8. CASE EndPart
    <2> DEFINE f == [Top EXCEPT !.at = 0, !.pc = "loop", !.wrote = {}]
    <2>1. Executing /\ UNCHANGED depth /\ SetTop(f)
      BY <1>8 DEF EndPart
    <2>2. depth > 0 /\ Top.pc = "execute" /\ db' = db
      BY <1>8, <2>1, Messaging, MessageGrows
    <2>3. f.pc = "loop"
      BY <2>2, TheTop DEF Frame
    <2> HIDE DEF f
    <2>4. Stage = "working" /\ Stage' = "working"
      BY <2>1, <2>2, <2>3, StillWorking
    <2>5. CASE Current.command
      <3>1. uows' = [uows EXCEPT ![Current.setting] = FlushUnit(Unit)]
        BY <1>8, <2>5 DEF EndPart, SetUnit
      <3> QED
        BY <2>1, <2>2, <2>4, <3>1, FlushAdds
    <2>6. CASE ~ Current.command
      <3>1. uows' = uows
        BY <1>8, <2>6 DEF EndPart
      <3>2. CycleWork' = CycleWork
        BY <3>1 DEF CycleWork
      <3> QED
        BY <1>1, <2>2, <2>4, <3>2
    <2> QED
      BY <2>5, <2>6
  <1>9. CASE Throw \/ FlushFails \/ \E s \in Setting : CommitFails(s)
    <2>1. /\ depth > 0 /\ Raise /\ UNCHANGED <<uows, depth, db>>
          /\ Top.pc \in {"loop", "execute", "commit"}
      BY <1>9 DEF Throw, FlushFails, CommitFails, Executing
    <2>2. CycleWork' = CycleWork
      BY <2>1 DEF CycleWork
    <2> QED
      BY <2>1, <2>2, RaiseCloses
  <1>10. CASE EndLoop
    <2> DEFINE f == [Top EXCEPT !.pc = IF Top.isOuter /\ Top.isFlush THEN "commit" ELSE "finally"]
    <2>1. SetTop(f) /\ depth > 0 /\ Top.pc = "loop" /\ UNCHANGED <<uows, depth, db>>
      BY <1>10 DEF EndLoop, history
    <2>2. f.pc \in {"commit", "finally"} /\ depth \in 1..MaxDepth
      BY <2>1, TheTop DEF Frame
    <2> HIDE DEF f
    <2>3. CycleWork' = CycleWork
      BY <2>1 DEF CycleWork
    <2>4. \A d \in 1..depth : frame'[d] = IF d = depth THEN f ELSE frame[d]
      BY <2>1, SetTopAt
    <2>5. CASE depth = 1
      <3>1. frame[1].pc = "loop" /\ frame'[1] = f /\ depth' = 1
        BY <2>1, <2>4, <2>5, TheTop
      <3>2. Stage = "working" /\ Stage' \in {"committing", "closing"}
        BY <2>2, <2>5, <3>1 DEF Stage
      <3> QED
        BY <2>1, <2>3, <3>2 DEF Cycle!CycleNext, Cycle!StartCommit, Cycle!Close, CycleWork
    <2>6. CASE depth > 1
      <3>1. frame'[1] = frame[1] /\ depth' = depth
        BY <2>1, <2>2, <2>4, <2>6
      <3>2. Stage' = Stage
        BY <3>1 DEF Stage
      <3> QED
        BY <1>1, <2>1, <2>3, <3>2
    <2> QED
      BY <2>2, <2>5, <2>6
  <1>11. CASE EndCommit
    <2> DEFINE f == [Top EXCEPT !.pc = "finally"]
    <2>1. /\ SetTop(f) /\ depth > 0 /\ Top.pc = "commit" /\ UNCHANGED <<uows, depth, db>>
      BY <1>11 DEF EndCommit, history
    <2>2. depth = 1 /\ frame[1].pc = "commit" /\ f.pc = "finally"
      BY <2>1, TheTop DEF Frame
    <2> HIDE DEF f
    <2>3. frame'[1] = f /\ depth' = 1
      BY <2>1, <2>2, SetTopAt
    <2>4. Stage = "committing" /\ Stage' = "closing"
      BY <2>2, <2>3 DEF Stage
    <2>5. CycleWork' = CycleWork
      BY <2>1 DEF CycleWork
    <2> QED
      BY <2>1, <2>4, <2>5 DEF Cycle!CycleNext, Cycle!Close, CycleWork
  <1>12. ASSUME NEW s \in Setting, CommitUnit(s) PROVE [Cycle!CycleNext]_(Cycle!cycleVars)
    <2>1. /\ depth = 1 /\ frame[1].pc = "commit" /\ UNCHANGED <<frame, depth>>
          /\ db' = db \cup uows[s].flushed /\ uows[s].status = "open"
          /\ uows' = [uows EXCEPT ![s].status = "committed"]
      BY <1>12, TheTop DEF CommitUnit, history
    <2>2. Stage = "committing" /\ Stage' = "committing"
      BY <2>1 DEF Stage
    <2>3. \A r \in Setting : /\ uows'[r].flushed = uows[r].flushed
                             /\ uows'[r].status = IF r = s THEN "committed" ELSE uows[r].status
      BY <2>1 DEF TypeOK
    <2>4. CycleWork' = [CycleWork EXCEPT ![s] = {}]
      BY <2>3 DEF CycleWork
    <2>5. CycleWork[s] = uows[s].flushed
      BY <2>1 DEF CycleWork
    <2>6. Cycle!CommitStore(s)
      BY <2>1, <2>2, <2>4, <2>5 DEF Cycle!CommitStore, CycleWork
    <2> QED
      BY <2>6 DEF Cycle!CycleNext
  <1>13. ASSUME NEW s \in Setting, DisposeUnit(s) PROVE [Cycle!CycleNext]_(Cycle!cycleVars)
    <2>1. /\ depth = 1 /\ frame[1].pc = "finally" /\ UNCHANGED <<frame, depth, db>>
          /\ uows' = [uows EXCEPT ![s] = Disposed(uows[s])]
      BY <1>13, TheTop DEF DisposeUnit, history
    <2>2. Stage = "closing" /\ Stage' = "closing"
      BY <2>1 DEF Stage
    <2>3. Disposed(uows[s]).status # "open"
      BY DEF Disposed, TypeOK
    <2>4. \A r \in Setting : uows'[r] = IF r = s THEN Disposed(uows[s]) ELSE uows[r]
      BY <2>1 DEF TypeOK
    <2>5. CycleWork' = [CycleWork EXCEPT ![s] = {}]
      BY <2>3, <2>4 DEF CycleWork
    <2>6. Cycle!Rollback(s)
      BY <2>1, <2>2, <2>5 DEF Cycle!Rollback, CycleWork
    <2> QED
      BY <2>6 DEF Cycle!CycleNext
  <1>14. CASE EndPush
    <2>1. /\ depth > 0 /\ Top.exn \in BOOLEAN /\ Leave(Top.exn) /\ db' = db
          /\ Top.pc = "finally" /\ depth \in 1..MaxDepth
      BY <1>14, TheTop DEF EndPush, Frame
    <2>2. /\ depth' = depth - 1
          /\ \A d \in 1..depth - 1 : frame'[d] = frame[d] \/ frame'[d] = Raised(frame[d])
      BY <2>1, LeaveAt
    <2>3. CASE depth = 1
      <3>1. Top.isOuter /\ frame[1].pc = "finally" /\ depth' = 0
        BY <2>1, <2>2, <2>3, TheTop
      <3>2. Stage = "closing" /\ Stage' = "idle"
        BY <2>3, <3>1 DEF Stage
      <3>3. \A s \in Setting : ~ Undisposed(s)
        BY <1>14, <3>1 DEF EndPush
      <3>4. \A s \in Setting : uows[s].status # "open"
        BY <3>3 DEF Undisposed, IsValueCreated
      <3>5. CycleWork = Cycle!NoWork
        BY <3>4 DEF CycleWork, Cycle!NoWork
      <3>6. uows' = [s \in Setting |-> Absent]
        BY <1>14, <3>1 DEF EndPush
      <3>7. \A s \in Setting : uows'[s].status # "open"
        BY <3>6 DEF Absent
      <3>8. CycleWork' = CycleWork
        BY <3>4, <3>7, SameWork
      <3>9. Cycle!End
        BY <2>1, <3>2, <3>5, <3>8 DEF Cycle!End, CycleWork
      <3> QED
        BY <3>9 DEF Cycle!CycleNext
    <2>4. CASE depth > 1
      <3>1. ~ Top.isOuter /\ frame[1].pc = "execute" /\ 1 \in 1..depth - 1 /\ frame[1] \in Frame
        BY <2>1, <2>4, TheTop
      <3>2. uows' = uows
        BY <1>14, <3>1 DEF EndPush
      <3>3. CycleWork' = CycleWork
        BY <3>2 DEF CycleWork
      <3>4. Stage = "working" /\ depth' # 0
        BY <2>1, <2>2, <2>4, <3>1 DEF Stage
      <3>5. CASE frame'[1] = frame[1]
        <4>1. Stage' = "working"
          BY <3>1, <3>4, <3>5 DEF Stage
        <4> QED
          BY <1>1, <2>1, <3>3, <3>4, <4>1
      <3>6. CASE frame'[1] = Raised(frame[1])
        <4>1. frame'[1].pc = "finally"
          BY <3>1, <3>6, RaisedFrame
        <4>2. Stage' = "closing"
          BY <3>4, <4>1 DEF Stage
        <4> QED
          BY <2>1, <3>3, <3>4, <4>2 DEF Cycle!CycleNext, Cycle!Close, CycleWork
      <3> QED
        BY <2>2, <3>1, <3>5, <3>6
    <2> QED
      BY <2>1, <2>3, <2>4
  <1>15. ASSUME NEW s \in Setting, DisposeFails(s) PROVE FALSE
    BY <1>15 DEF DisposeFails
  <1>16. CASE UNCHANGED vars
    <2>1. Stage' = Stage /\ CycleWork' = CycleWork /\ db' = db
      BY <1>16 DEF vars, Stage, CycleWork
    <2> QED
      BY <1>1, <2>1
  <1> QED
    BY <1>2, <1>3, <1>4, <1>5, <1>6, <1>7, <1>8, <1>9, <1>10, <1>11, <1>12, <1>13, <1>14,
       <1>15, <1>16 DEF Next, Message, Loop

\* With providers whose Dispose does not throw, the dispatcher implements a transactional
\* cycle: its initial states are initial states of the cycle, and each of its steps is a
\* step of the cycle or none.
THEOREM ImplementsCycle ==
    ASSUME ~ DisposeMayFail
    PROVE  Spec => TransactionalCycle
  <1>1. Init => Cycle!CycleInit
    BY DEF Init, Stage, Absent, Cycle!CycleInit, Cycle!NoWork
  <1>2. TypeOK /\ TypeOK' /\ (Durability \/ Poisoned) /\ [Next]_vars
            => [Cycle!CycleNext]_(Cycle!cycleVars)
    BY StepRefines DEF Durability, Poisoned
  <1> QED
    BY <1>1, <1>2, DurabilityInvariant, PTL DEF Spec, TransactionalCycle, Cycle!CycleSpec
===============================================================================
