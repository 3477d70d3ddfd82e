------------------------- MODULE ClientHashProof -----------------------------
(***************************************************************************)
(* The hash, the element that is driven by it, and the requests of the page *)
(* with the indicator that counts them.                                     *)
(*                                                                         *)
(* Storing one parameter in the hash keeps the others, on every page and    *)
(* for every hash; and the element implements HashNavigation but for what   *)
(* that promises of the future: it asks for nothing but the hash of the     *)
(* moment, and all it shows is an answer to something it asked for.         *)
(*                                                                         *)
(* The indicator counts IncAjaxBefore and IncAjaxComplete at document.  In  *)
(* every state the count is what has ended and has still to be counted, and *)
(* the requests under way, without what is still to be counted at all: so   *)
(* it is 0 when nothing of that is left.                                    *)
(***************************************************************************)
EXTENDS ClientOnceProof

-------------------------------------------------------------------------------
(* Operations and what they carry *)

\* An executable that asks for what belongs to the hash, and one that shows an answer.
AsksHash(pg, rs, x) == MetaAt(pg, rs, x).type = "Ajax" /\ MetaAt(pg, rs, x).hash
ShowsAt(pg, rs, x) ==
    pg.reloads # "" /\ MetaAt(pg, rs, x).type = "Insert" /\ MetaAt(pg, rs, x).target = pg.reloads

ResultAt(rs, x) == rs[x[1]][x[2]].result[x[3]]

\* Data that answers one of the questions as; an answer that is kept for a key.
Answers(as, d) == d.n > 0 /\ d.asked \in as
KeptFor(key, value) == IsHash(value.redirect.hash) /\ value.data.n > 0 /\ value.data.asked = key[2]

\* What an operation carries.
CarriesCallback(pg, rs, as, o) == ShowsAt(pg, rs, o.x) => Answers(as, o.data)
Carries(pg, rs, as, o) ==
    /\ o.op \in {"action", "send", "complete"} => IsAction(MetaAt(pg, rs, o.x))
    /\ o.op \in {"execute", "run"} /\ ShowsAt(pg, rs, o.x) => Answers(as, ResultAt(rs, o.x))
    /\ o.op = "send" => /\ o.data.n > 0
                        /\ AsksHash(pg, rs, o.x) => Answers(as, o.data)
    /\ o.op = "complete" => /\ IsHash(o.result.redirect.hash)
                            /\ AsksHash(pg, rs, o.x) => Answers(as, o.result.data)
    /\ o.op = "store" => KeptFor(o.key, o.value)
    /\ o.op = "callback" => CarriesCallback(pg, rs, as, o)
    /\ o.op = "breakes" => \A i \in DOMAIN o.callbacks : CarriesCallback(pg, rs, as, o.callbacks[i])

AllCarry(pg, rs, as, ops) == IsSeq(ops) /\ \A i \in DOMAIN ops : Carries(pg, rs, as, ops[i])

\* What was asked for.
Questions == {history.asks[i] : i \in DOMAIN history.asks}

\* What waits carries the same.
WaitingCarry ==
    /\ \A w \in requests : /\ IsAction(MetaAt(page, runs, w.x)) /\ w.data.n > 0
                           /\ AsksHash(page, runs, w.x) => Answers(Questions, w.data)
    /\ \A w \in timers \cup intervals :
          ShowsAt(page, runs, w.x) => Answers(Questions, ResultAt(runs, w.x))
    /\ \A s \in storage : KeptFor(s.key, s.value)

\* What is recalled and shown.
RecallsAsks ==
    /\ "asks" \in DOMAIN history /\ IsSeq(history.asks)
    /\ shown = [e \in Element |-> shown[e]]

HashInv ==
    /\ TypeInv /\ RecallsAsks
    /\ IsHash(hash)
    /\ AllCarry(page, runs, Questions, todo)
    /\ WaitingCarry

-------------------------------------------------------------------------------
(* Lists of operations *)

\* What a Store changes has a prefix and a name, and its value is a text.
ChangeOK(c) == c.prefix \in ToSet(PrefixOrder) /\ c.key # NoKey /\ IsText(c.value)

\* What the page promises of hashes, and of what is inserted into the element they drive.
LEMMA HashFacts ==
    ASSUME page \in Page
    PROVE  /\ \A h \in page.hashes : IsHash(h)
           /\ \A r \in page.outcomes.redirect : IsHash(r.hash)
           /\ page.reloads # "" => page.reloads \in Element
           /\ \A name \in DOMAIN page.metas :
                 page.reloads # "" => ShowsHash(page, page.metas[name])
           /\ \A name \in DOMAIN page.metas : \A i \in DOMAIN page.metas[name] :
                 LET m == page.metas[name][i]
                 IN  m.type = "Store" => ChangeOK(m.change)
  BY PageAssumption, Zenon DEF IsPage, ChangeOK

\* Most operations carry nothing.
Plain(o) == o.op \notin {"action", "execute", "run", "send", "complete", "store", "callback", "breakes"}

\* Lists of such operations.
LEMMA PlainCarry ==
    ASSUME NEW pg, NEW rs, NEW as
    PROVE  /\ AllCarry(pg, rs, as, <<>>)
           /\ \A o : Carries(pg, rs, as, o) => AllCarry(pg, rs, as, <<o>>)
           /\ \A o, p : Carries(pg, rs, as, o) /\ Carries(pg, rs, as, p) => AllCarry(pg, rs, as, <<o, p>>)
           /\ \A o : Plain(o) => Carries(pg, rs, as, o)
  <1>1. AllCarry(pg, rs, as, <<>>)
    BY IsSeqEmpty DEF AllCarry
  <1>2. ASSUME NEW o, Carries(pg, rs, as, o) PROVE AllCarry(pg, rs, as, <<o>>)
    <2>1. \A i \in DOMAIN <<o>> : <<o>>[i] = o
      OBVIOUS
    <2> QED
      BY <1>2, <2>1, IsSeqTuples DEF AllCarry
  <1>3. ASSUME NEW o, NEW p, Carries(pg, rs, as, o), Carries(pg, rs, as, p) PROVE AllCarry(pg, rs, as, <<o, p>>)
    <2>1. \A i \in DOMAIN <<o, p>> : <<o, p>>[i] = o \/ <<o, p>>[i] = p
      OBVIOUS
    <2> QED
      BY <1>3, <2>1, IsSeqTuples DEF AllCarry
  <1>4. \A o : Plain(o) => Carries(pg, rs, as, o)
    BY DEF Plain, Carries
  <1> QED
    BY <1>1, <1>2, <1>3, <1>4

\* The operations that carry nothing.
LEMMA PlainKinds ==
    /\ \A type, site, data : Plain(FireOp(type, site, data))
    /\ \A kind : Plain(ThrowOp(kind))
    /\ \A e : Plain(ParseOp(e))
    /\ \A site, ev : Plain(InvokeOp(site, ev))
    /\ \A path, ev : Plain([op |-> "dispatch", path |-> path, ev |-> ev])
    /\ \A e, r, ev : Plain([op |-> "catch", e |-> e, r |-> r, ev |-> ev])
    /\ \A e, r, ev : Plain([op |-> "actions", e |-> e, r |-> r, ev |-> ev])
    /\ \A x, last : Plain([op |-> "caught", x |-> x, last |-> last])
  BY DEF Plain, FireOp, ThrowOp, ParseOp, InvokeOp

\* Two lists of operations, one after the other.
LEMMA CarryJoined ==
    ASSUME NEW pg, NEW rs, NEW as, NEW a, AllCarry(pg, rs, as, a), NEW b, AllCarry(pg, rs, as, b),
           NEW all, all = a \o b
    PROVE  AllCarry(pg, rs, as, all)
  <1>1. IsSeq(a) /\ IsSeq(b)
    BY DEF AllCarry
  <1>2. /\ IsSeq(all)
        /\ DOMAIN all = 1..(Len(a) + Len(b))
        /\ \A i \in 1..Len(a) : all[i] = a[i]
        /\ \A i \in 1..Len(b) : all[Len(a) + i] = b[i]
    BY <1>1, IsSeqConcat
  <1>3. Len(a) \in Nat /\ Len(b) \in Nat /\ DOMAIN a = 1..Len(a) /\ DOMAIN b = 1..Len(b)
    BY <1>1, IsSeqDom
  <1>4. ASSUME NEW i \in DOMAIN all
        PROVE  Carries(pg, rs, as, all[i])
    <2>1. CASE i \in 1..Len(a)
      BY <2>1, <1>2, <1>3 DEF AllCarry
    <2>2. CASE i \notin 1..Len(a)
      <3>1. i - Len(a) \in 1..Len(b) /\ i = Len(a) + (i - Len(a))
        BY <2>2, <1>2, <1>3
      <3>2. all[i] = b[i - Len(a)]
        BY <3>1, <1>2
      <3> QED
        BY <3>1, <3>2, <1>3 DEF AllCarry
    <2> QED
      BY <2>1, <2>2
  <1> QED
    BY <1>2, <1>4 DEF AllCarry

\* A list of operations made from a list.
LEMMA EachCarry ==
    ASSUME NEW pg, NEW rs, NEW as, NEW xs, IsSeq(xs), NEW ops, ops = [i \in DOMAIN xs |-> ops[i]],
           \A i \in DOMAIN xs : Carries(pg, rs, as, ops[i])
    PROVE  AllCarry(pg, rs, as, ops)
  <1>1. IsSeq(ops) /\ DOMAIN ops = DOMAIN xs
    BY Mapped
  <1> QED
    BY <1>1 DEF AllCarry

\* What is left after the first k operations.
LEMMA CarryAfter ==
    ASSUME NEW pg, NEW rs, NEW as, NEW ops, AllCarry(pg, rs, as, ops),
           NEW k \in Nat, NEW after, after = SubSeq(ops, k + 1, Len(ops))
    PROVE  AllCarry(pg, rs, as, after)
  <1>1. IsSeq(ops) /\ Len(ops) \in Nat /\ DOMAIN ops = 1..Len(ops)
    BY IsSeqDom DEF AllCarry
  <1>2. CASE k <= Len(ops)
    <2>1. k \in 0..Len(ops)
      BY <1>1, <1>2
    <2>2. IsSeq(after) /\ Len(after) = Len(ops) - k /\ \A i \in 1..(Len(ops) - k) : after[i] = ops[k + i]
      BY <1>1, <2>1, IsSeqSub, Zenon
    <2>3. DOMAIN after = 1..(Len(ops) - k)
      BY <2>2, IsSeqDom, Zenon
    <2>4. PICK n \in Nat : n = Len(ops)
      BY <1>1, Zenon
    <2>5. \A i \in 1..(n - k) : k + i \in 1..n
      OBVIOUS
    <2>6. \A i \in DOMAIN after : after[i] = ops[k + i] /\ k + i \in DOMAIN ops
      BY <1>1, <2>2, <2>3, <2>4, <2>5, Zenon
    <2> QED
      BY <2>2, <2>6 DEF AllCarry
  <1>3. CASE ~ (k <= Len(ops))
    <2>1. after = <<>>
      <3>1. PICK n \in Nat : n = Len(ops)
        BY <1>1
      <3>2. k + 1 > n /\ k + 1 \in Nat
        BY <1>3, <3>1
      <3>3. SubSeq(ops, k + 1, n) = <<>>
        BY <3>1, <3>2
      <3> QED
        BY <3>1, <3>3
    <2> QED
      BY <2>1, PlainCarry
  <1> QED
    BY <1>2, <1>3

\* What follows the operation at the head.
LEMMA CarryTail ==
    ASSUME NEW pg, NEW rs, NEW as, NEW ops, AllCarry(pg, rs, as, ops), ops # <<>>
    PROVE  AllCarry(pg, rs, as, Tail(ops)) /\ Carries(pg, rs, as, ops[1])
  <1>1. IsSeq(ops) /\ DOMAIN ops = 1..Len(ops) /\ Len(ops) \in Nat
    BY IsSeqDom DEF AllCarry
  <1>2. /\ IsSeq(Tail(ops)) /\ Len(ops) > 0 /\ Len(Tail(ops)) = Len(ops) - 1
        /\ \A i \in 1..(Len(ops) - 1) : Tail(ops)[i] = ops[i + 1]
    BY <1>1, IsSeqTail
  <1>3. DOMAIN Tail(ops) = 1..(Len(ops) - 1)
    BY <1>2, IsSeqDom
  <1>4. 1 \in DOMAIN ops /\ \A i \in 1..(Len(ops) - 1) : i + 1 \in DOMAIN ops
    BY <1>1, <1>2
  <1> QED
    BY <1>2, <1>3, <1>4 DEF AllCarry

-------------------------------------------------------------------------------
(* What a step keeps *)

\* A result changes to an answer where one will be shown.
Refreshed(pg, rs, rs2, as) ==
    \A x : Executable(rs, x) /\ ShowsAt(pg, rs, x) =>
              ResultAt(rs2, x) = ResultAt(rs, x) \/ Answers(as, ResultAt(rs2, x))

\* Data stays an answer.
LEMMA AnswersStay ==
    ASSUME NEW as, NEW as2, as \subseteq as2, NEW d, Answers(as, d)
    PROVE  Answers(as2, d)
  BY DEF Answers

\* What an operation carries stays good.
LEMMA CarriesStays ==
    ASSUME NEW pg, NEW rs, NEW rs2, Grown(rs, rs2), NEW as, NEW as2, as \subseteq as2,
           Refreshed(pg, rs, rs2, as2), NEW o, OpOK(rs, o), Carries(pg, rs, as, o)
    PROVE  Carries(pg, rs2, as2, o)
  <1>1. ASSUME NEW x, Executable(rs, x)
        PROVE  /\ MetaAt(pg, rs2, x) = MetaAt(pg, rs, x)
               /\ AsksHash(pg, rs2, x) = AsksHash(pg, rs, x)
               /\ ShowsAt(pg, rs2, x) = ShowsAt(pg, rs, x)
    <2>1. MetaAt(pg, rs2, x) = MetaAt(pg, rs, x)
      BY <1>1, MetaStays
    <2> QED
      BY <2>1, Zenon DEF AsksHash, ShowsAt
  <1>2. ASSUME NEW c, Executable(rs, c.x), CarriesCallback(pg, rs, as, c)
        PROVE  CarriesCallback(pg, rs2, as2, c)
    BY <1>1, <1>2, AnswersStay DEF CarriesCallback
  <1>3. CASE o.op \in {"action", "send", "complete"}
    <2>1. Executable(rs, o.x)
      BY <1>3 DEF OpOK
    <2>2. IsAction(MetaAt(pg, rs2, o.x))
      BY <1>1, <1>3, <2>1 DEF Carries
    <2>3. CASE o.op = "action"
      BY <2>2, <2>3 DEF Carries
    <2>4. CASE o.op = "send"
      <3>1. o.data.n > 0 /\ (AsksHash(pg, rs, o.x) => Answers(as, o.data))
        BY <2>4 DEF Carries
      <3>2. AsksHash(pg, rs2, o.x) => Answers(as2, o.data)
        <4>1. AsksHash(pg, rs2, o.x) = AsksHash(pg, rs, o.x)
          BY <1>1, <2>1
        <4>2. PICK d : d = o.data
          OBVIOUS
        <4>3. Answers(as, d) => Answers(as2, d)
          BY AnswersStay
        <4> QED
          BY <3>1, <4>1, <4>2, <4>3
      <3> QED
        BY <2>2, <2>4, <3>1, <3>2 DEF Carries
    <2>5. CASE o.op = "complete"
      <3>1. IsHash(o.result.redirect.hash) /\ (AsksHash(pg, rs, o.x) => Answers(as, o.result.data))
        BY <2>5 DEF Carries
      <3>2. AsksHash(pg, rs2, o.x) => Answers(as2, o.result.data)
        <4>1. AsksHash(pg, rs2, o.x) = AsksHash(pg, rs, o.x)
          BY <1>1, <2>1
        <4>2. PICK d : d = o.result.data
          OBVIOUS
        <4>3. Answers(as, d) => Answers(as2, d)
          BY AnswersStay
        <4> QED
          BY <3>1, <4>1, <4>2, <4>3
      <3>3. o.op = "complete" /\ o.op \notin {"execute", "run", "send", "store", "callback", "breakes"}
        BY <2>5
      <3> QED
        BY <2>2, <3>1, <3>2, <3>3 DEF Carries
    <2> QED
      BY <1>3, <2>3, <2>4, <2>5
  <1>4. CASE o.op \in {"execute", "run"}
    <2>1. Executable(rs, o.x)
      BY <1>4 DEF OpOK
    <2>2. ASSUME ShowsAt(pg, rs2, o.x) PROVE Answers(as2, ResultAt(rs2, o.x))
      <3>1. ShowsAt(pg, rs, o.x)
        BY <1>1, <2>1, <2>2
      <3>2. Answers(as2, ResultAt(rs, o.x))
        BY <1>4, <3>1, AnswersStay DEF Carries
      <3> QED
        BY <2>1, <3>1, <3>2 DEF Refreshed
    <2> QED
      BY <1>4, <2>2 DEF Carries
  <1>5. CASE o.op = "store"
    BY <1>5 DEF Carries
  <1>6. CASE o.op = "callback"
    <2>1. Executable(rs, o.x) /\ CarriesCallback(pg, rs, as, o)
      BY <1>6 DEF OpOK, Carries
    <2> QED
      BY <1>2, <1>6, <2>1 DEF Carries
  <1>7. CASE o.op = "breakes"
    <2>1. \A i \in DOMAIN o.callbacks : Executable(rs, o.callbacks[i].x) /\ CarriesCallback(pg, rs, as, o.callbacks[i])
      BY <1>7 DEF OpOK, Carries
    <2>2. \A i \in DOMAIN o.callbacks : CarriesCallback(pg, rs2, as2, o.callbacks[i])
      BY <1>2, <2>1
    <2> QED
      BY <1>7, <2>2 DEF Carries
  <1>8. CASE Plain(o)
    BY <1>8, PlainCarry
  <1> QED
    BY <1>3, <1>4, <1>5, <1>6, <1>7, <1>8 DEF Plain

\* Only an Ajax asks.
AsksFrame ==
    /\ "asks" \in DOMAIN history'
    /\ \/ history'.asks = history.asks
       \/ Ajax /\ Meta(todo[1].x).hash /\ history'.asks = Append(history.asks, Parse(hash))

\* What an executable that runs adds to the past asks for nothing.
LEMMA SeenAsks ==
    ASSUME "asks" \in DOMAIN history, NEW x, NEW ev
    PROVE  "asks" \in DOMAIN Seen(x, ev) /\ Seen(x, ev).asks = history.asks
  <1> DEFINE v == MixedBy(x, ev)
  <1>1. Seen(x, ev) = [history EXCEPT !.mixed = v]
    BY DEF Seen, MixedBy
  <1> HIDE DEF v
  <1> QED
    BY <1>1

\* Every other action leaves alone what was asked for.
LEMMA AsksFrames ==
    ASSUME "asks" \in DOMAIN history, Next
    PROVE  AsksFrame
  <1>1. CASE UNCHANGED history
    BY <1>1 DEF AsksFrame
  <1>2. CASE history' = Seen(todo[1].x, todo[1].ev)
    BY <1>2, SeenAsks DEF AsksFrame
  <1>3. CASE Fire
    <2>1. PICK v : history' = [history EXCEPT !.unheard = v]
      BY <1>3, Zenon DEF Fire
    <2> QED
      BY <2>1, ZenonT(30) DEF AsksFrame
  <1>4. CASE Dispatch
    <2>1. history' = history \/ history' = [history EXCEPT !.busy = @ + 1] \/ history' = [history EXCEPT !.busy = @ - 1]
      BY <1>4 DEF Dispatch
    <2> QED
      BY <2>1 DEF AsksFrame
  <1>5. CASE Invoke
    <2> DEFINE site == todo[1].site
               ev == todo[1].ev
               e == site[1]
               r == runner[e]
               handled == history.handled \cup {<<e, r, ev.n>>}
               twice == IF \/ \E q \in DOMAIN runs[e] : <<e, q, ev.n>> \in history.handled
                           \/ (ev.type = InitIncoding /\ <<e, r>> \in history.started)
                           THEN history.twice \cup {<<e, ev.type>>} ELSE history.twice
               started == IF ev.type = InitIncoding THEN history.started \cup {<<e, r>>} ELSE history.started
    <2>1. history' = history \/ history' = [history EXCEPT !.handled = handled, !.twice = twice, !.started = started]
      BY <1>5, Zenon DEF Invoke
    <2> HIDE DEF handled, twice, started
    <2> QED
      BY <2>1 DEF AsksFrame
  <1>6. CASE Actions
    <2>1. PICK v : history' = [history EXCEPT !.acted = v]
      BY <1>6 DEF Actions
    <2> QED
      BY <2>1 DEF AsksFrame
  <1>7. CASE Execute
    <2>1. history' = history \/ \E v : history' = [history EXCEPT !.restarted = v]
      BY <1>7 DEF Execute
    <2> QED
      BY <2>1 DEF AsksFrame
  <1>8. CASE Direct \/ Event \/ Submit \/ Insert \/ Trigger \/ Eval \/ HashStore \/ Attach \/ Detach
    <2>1. history' = Seen(todo[1].x, todo[1].ev)
      BY <1>8 DEF Direct, Event, Submit, Insert, Trigger, Eval, HashStore, Attach, Detach
    <2> QED
      BY <2>1, <1>2, ZenonT(30)
  <1>9. CASE Ajax
    <2> DEFINE seen == Seen(todo[1].x, todo[1].ev)
               m == Meta(todo[1].x)
               asked == Asked(m)
               noted == IF m.hash THEN [seen EXCEPT !.asks = Append(@, asked), !.newest = clock + 1] ELSE seen
    <2>1. history' = noted \/ \E c : history' = [noted EXCEPT !.answered = c]
      BY <1>9 DEF Ajax
    <2>2. "asks" \in DOMAIN seen /\ seen.asks = history.asks
      BY SeenAsks
    <2>3. m.hash => asked = Parse(hash)
      BY DEF Asked
    <2> HIDE DEF seen, asked, m
    <2>4. /\ "asks" \in DOMAIN noted
          /\ noted.asks = history.asks \/ (m.hash /\ noted.asks = Append(history.asks, Parse(hash)))
      BY <2>2, <2>3
    <2> HIDE DEF noted
    <2>5. "asks" \in DOMAIN history' /\ history'.asks = noted.asks
      BY <2>1, <2>4
    <2> QED
      BY <1>9, <2>4, <2>5 DEF AsksFrame, m
  <1>10. CASE Break
    <2> DEFINE seen == Seen(todo[1].x, todo[1].ev)
    <2>1. PICK v : history' = [seen EXCEPT !.broken = v]
      BY <1>10 DEF Break
    <2>2. "asks" \in DOMAIN seen /\ seen.asks = history.asks
      BY SeenAsks
    <2> HIDE DEF seen
    <2> QED
      BY <2>1, <2>2 DEF AsksFrame
  <1>11. CASE Uncaught \/ BreakBefore \/ BreakCallback \/ RethrowCallback
    <2>1. PICK v : history' = [history EXCEPT !.dropped = v]
      BY <1>11, Zenon DEF Uncaught, BreakBefore, BreakCallback, RethrowCallback
    <2> QED
      BY <2>1 DEF AsksFrame
  <1>12. CASE Respond
    <2>1. history' = history \/ \E v : history' = [history EXCEPT !.answered = v]
      BY <1>12, ZenonT(30) DEF Respond, Answer, Fail
    <2> QED
      BY <2>1 DEF AsksFrame
  <1>13. CASE User \/ Navigate \/ Announce \/ TimeOut \/ Tick
    <2>1. UNCHANGED history
      BY <1>13 DEF User, Navigate, Announce, TimeOut, Tick
    <2> QED
      BY <1>1, <2>1
  <1>14. CASE CatchNothing \/ Action \/ Send \/ Store \/ Completed \/ Callback \/ CaughtNothing
                 \/ BreakCallbacks \/ ParseContext
    <2>1. UNCHANGED history
      BY <1>14 DEF CatchNothing, Action, Send, Store, Completed, Callback, CaughtNothing, BreakCallbacks, ParseContext
    <2> QED
      BY <1>1, <2>1
  <1> QED
    BY <1>3, <1>4, <1>5, <1>6, <1>7, <1>8, <1>9, <1>10, <1>11, <1>12, <1>13, <1>14 DEF Next, Step

\* What was asked for stays so.
LEMMA QuestionsGrow ==
    ASSUME RecallsAsks, Next
    PROVE  /\ "asks" \in DOMAIN history' /\ IsSeq(history'.asks)
           /\ Questions \subseteq Questions'
           /\ Ajax /\ Meta(todo[1].x).hash /\ history'.asks = Append(history.asks, Parse(hash)) =>
                 Parse(hash) \in Questions'
  <1>1. AsksFrame /\ IsSeq(history.asks)
    BY AsksFrames DEF RecallsAsks
  <1>2. /\ IsSeq(Append(history.asks, Parse(hash)))
        /\ Len(history.asks) + 1 \in DOMAIN Append(history.asks, Parse(hash))
        /\ \A i \in DOMAIN history.asks : /\ i \in DOMAIN Append(history.asks, Parse(hash))
                                          /\ Append(history.asks, Parse(hash))[i] = history.asks[i]
        /\ Append(history.asks, Parse(hash))[Len(history.asks) + 1] = Parse(hash)
    BY <1>1, IsSeqAppend
  <1>3. CASE history'.asks = history.asks
    <2>1. ASSUME history'.asks = Append(history.asks, Parse(hash))
          PROVE  Parse(hash) \in Questions'
      BY <1>2, <2>1 DEF Questions
    <2>2. "asks" \in DOMAIN history' /\ IsSeq(history'.asks)
      BY <1>1, <1>3 DEF AsksFrame
    <2>3. Questions \subseteq Questions'
      BY <1>3 DEF Questions
    <2> QED
      BY <2>1, <2>2, <2>3
  <1>4. CASE history'.asks = Append(history.asks, Parse(hash))
    <2>1. "asks" \in DOMAIN history' /\ IsSeq(history'.asks)
      BY <1>1, <1>2, <1>4 DEF AsksFrame
    <2>2. ASSUME NEW q \in Questions PROVE q \in Questions'
      <3>1. PICK i \in DOMAIN history.asks : q = history.asks[i]
        BY DEF Questions
      <3>2. i \in DOMAIN history'.asks /\ history'.asks[i] = q
        BY <1>2, <1>4, <3>1
      <3> QED
        BY <3>2 DEF Questions
    <2>3. Parse(hash) \in Questions'
      BY <1>2, <1>4 DEF Questions
    <2> QED
      BY <2>1, <2>2, <2>3
  <1> QED
    BY <1>1, <1>3, <1>4 DEF AsksFrame

\* A step changes no result but that of a callback.
LEMMA ResultsStay ==
    ASSUME HashInv, Next
    PROVE  Refreshed(page, runs, runs', Questions')
  <1> SUFFICES ASSUME NEW x, Executable(runs, x), ShowsAt(page, runs, x)
               PROVE  ResultAt(runs', x) = ResultAt(runs, x) \/ Answers(Questions', ResultAt(runs', x))
    BY DEF Refreshed
  <1>0. TypeInv /\ AreRuns(page, runs) /\ page \in Page
    BY DEF HashInv, TypeInv
  <1>1. /\ x[1] \in Element /\ x[2] \in DOMAIN runs[x[1]]
        /\ x[3] \in DOMAIN runs[x[1]][x[2]].event /\ x[3] \in DOMAIN runs[x[1]][x[2]].result
    BY <1>0, RunFacts DEF Executable
  <1>2. CASE UNCHANGED runs
    BY <1>2 DEF ResultAt
  <1>3. CASE Invoke \/ Actions \/ Action \/ BreakBefore
    <2>1. PICK e, r, at, ev : UNCHANGED runs \/ Stored(runs, runs', e, r, at, ev)
      <3>1. CASE Invoke
        <4>1. CASE Present(todo[1].site) /\ runner[todo[1].site[1]] # 0
          BY <1>0, <3>1, <4>1, InvokeDoes
        <4>2. CASE ~ (Present(todo[1].site) /\ runner[todo[1].site[1]] # 0)
          BY <3>1, <4>2 DEF Invoke
        <4> QED
          BY <4>1, <4>2
      <3>2. CASE Actions
        BY <1>0, <3>2, ActionsDoes
      <3>3. CASE Action
        BY <1>0, <3>3, ActionDoes
      <3>4. CASE BreakBefore
        BY <1>0, <3>4, BreakBeforeDoes
      <3> QED
        BY <1>3, <3>1, <3>2, <3>3, <3>4
    <2>2. runs'[x[1]][x[2]].result = runs[x[1]][x[2]].result
      BY <1>1, <2>1 DEF Stored
    <2> QED
      BY <2>2 DEF ResultAt
  <1>4. CASE Callback
    <2> DEFINE y == todo[1].x
               data == todo[1].data
    <2>1. At("callback") /\ todo # <<>> /\ todo[1].op = "callback"
      BY <1>4, Zenon DEF Callback, At
    <2>2. OpOK(runs, todo[1]) /\ Carries(page, runs, Questions, todo[1])
      BY <1>0, <2>1, AtHead, CarryTail DEF HashInv
    <2>3. Executable(runs, y) /\ (ShowsAt(page, runs, y) => Answers(Questions, data))
      BY <2>1, <2>2 DEF OpOK, Carries, CarriesCallback
    <2>4. ResultSet(runs, runs', y, data)
      BY <1>0, <1>4, <2>3, CallbackDoes
    <2>5. ResultAt(runs', x) = IF x[1] = y[1] /\ x[2] = y[2] /\ x[3] = y[3] THEN data ELSE ResultAt(runs, x)
      BY <1>1, <2>4 DEF ResultSet, ResultAt
    <2>6. CASE x[1] = y[1] /\ x[2] = y[2] /\ x[3] = y[3]
      <3>1. ShowsAt(page, runs, y)
        BY <2>6, Zenon DEF ShowsAt, MetaAt, MetasAt
      <3>2. Answers(Questions', data)
        BY <2>3, <3>1, QuestionsGrow, AnswersStay DEF HashInv
      <3> QED
        BY <2>5, <2>6, <3>2
    <2> QED
      BY <2>5, <2>6, Zenon
  <1>5. CASE ParseContext
    <2>1. Parsed(runs, runs', ToSet(Unparsed(todo[1].context)))
      BY <1>0, <1>5, ParseRuns DEF TypeInv
    <2>2. runs'[x[1]][x[2]] = runs[x[1]][x[2]]
      BY <1>1, <2>1 DEF Parsed
    <2> QED
      BY <2>2 DEF ResultAt
  <1> QED
    BY <1>2, <1>3, <1>4, <1>5, Frames DEF Frame

-------------------------------------------------------------------------------
(* What each action leaves to be done *)

\* What operations carry when the step ends.
Now(o) == Carries(page, runs', Questions', o)
AllNow(ops) == AllCarry(page, runs', Questions', ops)

\* What was to be done carries the same when a step ends.
LEMMA CarryFrame ==
    ASSUME HashInv, Next
    PROVE  /\ page' = page /\ page \in Page /\ TypeInv
           /\ AreRuns(page, runs) /\ Grown(runs, runs')
           /\ Questions \subseteq Questions'
           /\ Refreshed(page, runs, runs', Questions')
           /\ AllCarry(page, runs, Questions, todo)
           /\ AllNow(todo)
  <1>1. page' = page /\ Grown(runs, runs') /\ TypeInv /\ page \in Page /\ AreRuns(page, runs)
    BY RunsStep DEF HashInv, TypeInv
  <1>2. Questions \subseteq Questions' /\ Refreshed(page, runs, runs', Questions')
    BY QuestionsGrow, ResultsStay DEF HashInv
  <1>3. AllCarry(page, runs, Questions, todo)
    BY DEF HashInv
  <1>4. IsSeq(todo)
    BY <1>3 DEF AllCarry
  <1>5. ASSUME NEW i \in DOMAIN todo PROVE Now(todo[i])
    <2>1. OpOK(runs, todo[i]) /\ Carries(page, runs, Questions, todo[i])
      BY <1>1, <1>3 DEF TypeInv, OpsOK, AllCarry
    <2> QED
      BY <1>1, <1>2, <2>1, CarriesStays DEF Now
  <1> QED
    BY <1>1, <1>2, <1>3, <1>4, <1>5 DEF AllNow, AllCarry, Now

\* The executables of today are those of the next state.
LEMMA SameMeta ==
    ASSUME HashInv, Next, NEW x, Executable(runs, x)
    PROVE  /\ MetaAt(page, runs', x) = Meta(x) /\ MetaAt(page, runs, x) = Meta(x)
           /\ AsksHash(page, runs', x) = AsksHash(page, runs, x)
           /\ ShowsAt(page, runs', x) = ShowsAt(page, runs, x)
           /\ Executable(runs', x)
  <1>1. Grown(runs, runs')
    BY CarryFrame
  <1>2. MetaAt(page, runs', x) = MetaAt(page, runs, x) /\ Executable(runs', x)
    BY <1>1, MetaStays
  <1>3. MetaAt(page, runs, x) = Meta(x)
    BY DEF MetaAt, MetasAt, Meta, RunOf
  <1> QED
    BY <1>2, <1>3, Zenon DEF AsksHash, ShowsAt

\* The operation at the head.
LEMMA CarryHead ==
    ASSUME HashInv, Next, todo # <<>>
    PROVE  /\ Now(todo[1]) /\ Carries(page, runs, Questions, todo[1])
           /\ OpOK(runs, todo[1])
           /\ AllNow(Tail(todo))
  <1>1. AllCarry(page, runs, Questions, todo) /\ AllNow(todo) /\ TypeInv
    BY CarryFrame
  <1>2. OpOK(runs, todo[1])
    BY <1>1, AtHead
  <1>3. Now(todo[1]) /\ AllNow(Tail(todo))
    BY <1>1, CarryTail DEF AllNow, Now
  <1> QED
    BY <1>1, <1>2, <1>3, CarryTail

\* A call is replaced by the operations of its body.
LEMMA CarryPushed ==
    ASSUME HashInv, Next, todo # <<>>, NEW ops, AllNow(ops), Do(ops)
    PROVE  AllNow(todo')
  <1>1. AllNow(Tail(todo))
    BY CarryHead
  <1>2. PICK all : all = ops \o Tail(todo)
    OBVIOUS
  <1>3. AllNow(all)
    BY <1>1, <1>2, CarryJoined DEF AllNow
  <1> QED
    BY <1>2, <1>3 DEF Do

\* Lists of none, one and two.
LEMMA CarryPushedFew ==
    ASSUME HashInv, Next, todo # <<>>
    PROVE  /\ Do(<<>>) => AllNow(todo')
           /\ \A o : Now(o) /\ Do(<<o>>) => AllNow(todo')
           /\ \A o, p : Now(o) /\ Now(p) /\ Do(<<o, p>>) => AllNow(todo')
           /\ \A o : Plain(o) /\ Do(<<o>>) => AllNow(todo')
           /\ \A o, p : Plain(o) /\ Now(p) /\ Do(<<o, p>>) => AllNow(todo')
           /\ \A o, p : Plain(o) /\ Plain(p) /\ Do(<<o, p>>) => AllNow(todo')
  <1>1. /\ AllNow(<<>>)
        /\ \A o : Now(o) => AllNow(<<o>>)
        /\ \A o, p : Now(o) /\ Now(p) => AllNow(<<o, p>>)
        /\ \A o : Plain(o) => Now(o)
    BY PlainCarry DEF AllNow, Now
  <1>2. ASSUME Do(<<>>) PROVE AllNow(todo')
    BY <1>1, <1>2, CarryPushed
  <1>3. ASSUME NEW o, Now(o), Do(<<o>>) PROVE AllNow(todo')
    <2>1. AllNow(<<o>>)
      BY <1>1, <1>3
    <2> QED
      BY <1>3, <2>1, CarryPushed
  <1>4. ASSUME NEW o, NEW p, Now(o), Now(p), Do(<<o, p>>) PROVE AllNow(todo')
    <2>1. AllNow(<<o, p>>)
      BY <1>1, <1>4
    <2> QED
      BY <1>4, <2>1, CarryPushed
  <1> QED
    BY <1>1, <1>2, <1>3, <1>4

\* What follows the operation that catches an exception.
LEMMA CarryLeft ==
    ASSUME HashInv, Next, NEW k \in Nat
    PROVE  AllNow(After(k))
  <1>1. AllNow(todo)
    BY CarryFrame
  <1> QED
    BY <1>1, CarryAfter DEF AllNow, After

\* What is inserted answers an action that asks for the hash.
LEMMA ShowsIs ==
    ASSUME HashInv, NEW x, Executable(runs, x), ShowsAt(page, runs, x)
    PROVE  /\ ListOf(Meta(x), Meta(x).status) /\ Meta(x).status \in {Success, Error, Complete}
           /\ \A y : /\ Executable(runs, y) /\ y[1] = x[1] /\ y[2] = x[2]
                     /\ IsAction(Meta(y)) /\ Meta(y).onBind = Meta(x).onBind
                     => AsksHash(page, runs, y)
  <1>1. page \in Page /\ AreRuns(page, runs)
    BY DEF HashInv, TypeInv
  <1> DEFINE metas == page.metas[runs[x[1]][x[2]].name]
  <1>2. /\ x[1] \in Element /\ x[2] \in DOMAIN runs[x[1]] /\ x[3] \in DOMAIN runs[x[1]][x[2]].event
    BY DEF Executable
  <1>3. runs[x[1]][x[2]].name \in DOMAIN page.metas /\ DOMAIN runs[x[1]][x[2]].event = DOMAIN metas
    BY <1>1, <1>2, RunFacts DEF MetasOf
  <1>4. Meta(x) = metas[x[3]] /\ x[3] \in DOMAIN metas
    BY <1>2, <1>3, Zenon DEF Meta, RunOf
  <1>5. page.reloads # "" /\ metas[x[3]].type = "Insert" /\ metas[x[3]].target = page.reloads
    BY <1>4, ZenonT(30) DEF ShowsAt, MetaAt, MetasAt
  <1>6. ShowsHash(page, metas)
    BY <1>1, <1>3, <1>5, HashFacts, ZenonT(30)
  <1>7. /\ metas[x[3]].status \in {Success, Error, Complete}
        /\ \A j \in DOMAIN metas : IsAction(metas[j]) /\ metas[j].onBind = metas[x[3]].onBind =>
              metas[j].type = "Ajax" /\ metas[j].hash
    BY <1>4, <1>5, <1>6, ZenonT(30) DEF ShowsHash
  <1>8. ASSUME NEW y, Executable(runs, y), y[1] = x[1], y[2] = x[2], IsAction(Meta(y)), Meta(y).onBind = Meta(x).onBind
        PROVE  AsksHash(page, runs, y)
    <2>1. Meta(y) = metas[y[3]] /\ y[3] \in DOMAIN metas
      BY <1>3, <1>8, ZenonT(30) DEF Executable, Meta, RunOf
    <2>2. Meta(y).type = "Ajax" /\ Meta(y).hash
      BY <1>4, <1>7, <1>8, <2>1, ZenonT(30)
    <2> QED
      BY <2>2, ZenonT(30) DEF AsksHash, MetaAt, MetasAt, Meta, RunOf
  <1>9. ~ IsAction(Meta(x))
    BY <1>4, <1>5, Zenon DEF IsAction, ActionTypes
  <1> QED
    BY <1>4, <1>7, <1>8, <1>9, Zenon DEF ListOf

\* An event goes on to be dispatched.
LEMMA FireCarries ==
    ASSUME HashInv, Next, Fire
    PROVE  AllNow(todo')
  <1>1. todo # <<>> /\ \E path, ev : Do(<<[op |-> "dispatch", path |-> path, ev |-> ev]>>)
    BY Zenon DEF Fire, At
  <1> QED
    BY <1>1, CarryPushedFew, PlainKinds, Zenon

\* Lists of operations that carry nothing.
LEMMA PlainPushed ==
    ASSUME HashInv, Next, todo # <<>>, NEW xs, IsSeq(xs), NEW ops, ops = [i \in DOMAIN xs |-> ops[i]],
           \A i \in DOMAIN xs : Plain(ops[i])
    PROVE  AllNow(ops)
  <1>1. \A i \in DOMAIN xs : Now(ops[i])
    BY PlainCarry DEF Now
  <1> QED
    BY <1>1, EachCarry DEF AllNow, Now

\* An event goes on to the handlers and to the next site.
LEMMA DispatchCarries ==
    ASSUME HashInv, Next, Dispatch
    PROVE  AllNow(todo')
  <1>1. todo # <<>> /\ todo[1].op = "dispatch"
    BY DEF Dispatch, At
  <1>2. CASE Do(<<>>)
    BY <1>1, <1>2, CarryPushedFew
  <1>3. CASE ~ Do(<<>>)
    <2> DEFINE d == todo[1]
               site == d.path[1]
               hs == Handlers(site, d.ev.type)
               calls == [i \in DOMAIN hs |-> InvokeOp(IF site = Doc THEN hs[i].site ELSE site, d.ev)]
               d2 == [op |-> "dispatch", path |-> Tail(d.path), ev |-> d.ev]
    <2>1. d = [op |-> "dispatch", path |-> d.path, ev |-> d.ev]
      <3>1. OpOK(runs, d)
        BY <1>1, CarryHead
      <3> QED
        BY <1>1, <3>1 DEF OpOK
    <2>2. [d EXCEPT !.path = Tail(d.path)] = d2
      <3>1. WithPath(d, Tail(d.path)) = d2
        <4> HIDE DEF d
        <4>1. \A p : WithPath(d, p) = [op |-> "dispatch", path |-> p, ev |-> d.ev]
          BY <2>1, WithPathDoes
        <4> QED
          BY <4>1
      <3> QED
        BY <3>1 DEF WithPath
    <2>3. Do(calls \o <<>>) \/ Do(calls \o <<d2>>)
      <3>1. Do(calls \o <<>>) \/ Do(calls \o <<[d EXCEPT !.path = Tail(d.path)]>>)
        BY <1>3 DEF Dispatch
      <3> QED
        BY <2>2, <3>1
    <2>4. Plain(d2)
      BY PlainKinds
    <2>5. IsSeq(hs)
      BY HandlersSeq DEF HashInv, TypeInv
    <2>6. \A i \in DOMAIN hs : Plain(calls[i])
      BY PlainKinds
    <2>7. calls = [i \in DOMAIN hs |-> calls[i]]
      OBVIOUS
    <2> HIDE DEF calls, hs, d2
    <2>8. AllNow(calls)
      BY <1>1, <2>5, <2>6, <2>7, PlainPushed
    <2>9. AllNow(<<>>) /\ AllNow(<<d2>>)
      BY <2>4, PlainCarry DEF AllNow
    <2>10. ASSUME NEW b, AllNow(b), Do(calls \o b) PROVE AllNow(todo')
      <3>1. PICK all : all = calls \o b
        OBVIOUS
      <3>2. AllNow(all)
        BY <2>8, <2>10, <3>1, CarryJoined DEF AllNow
      <3> QED
        BY <1>1, <2>10, <3>1, <3>2, CarryPushed
    <2> QED
      BY <2>3, <2>9, <2>10
  <1> QED
    BY <1>2, <1>3

\* Executables before the action, and those on break, insert nothing that is driven by the hash.
LEMMA OthersCarry ==
    ASSUME HashInv, Next, NEW e \in Element, NEW r \in DOMAIN runs[e],
           NEW status \in {Before, Breakes}, NEW type,
           NEW S, S = {i \in DOMAIN MetasOf(e, r) : /\ ListOf(MetasOf(e, r)[i], status)
                                                   /\ type \in MetasOf(e, r)[i].onBind},
           NEW xs, Lists(e, r, S, xs), NEW ev, NEW ops, ops = [i \in DOMAIN xs |-> ExecuteOp(xs[i], ev)]
    PROVE  AllNow(ops)
  <1>1. S \subseteq DOMAIN MetasOf(e, r) /\ page \in Page /\ AreRuns(page, runs) /\ TypeInv
    BY CarryFrame
  <1>2. IsSeq(xs) /\ \A i \in DOMAIN xs : Executable(runs, xs[i])
    BY <1>1, ListedLater
  <1>3. ASSUME NEW i \in DOMAIN xs PROVE Now(ops[i])
    <2>1. xs[i][3] \in S /\ xs[i] = <<e, r, xs[i][3]>>
      BY DEF Lists
    <2>2. xs[i][1] = e /\ xs[i][2] = r
      BY <2>1
    <2>3. Meta(xs[i]) = MetasOf(e, r)[xs[i][3]]
      BY <2>2, Zenon DEF Meta, RunOf, MetasOf
    <2>4. Meta(xs[i]).status \in {Before, Breakes}
      BY <2>1, <2>3 DEF ListOf
    <2>5. Executable(runs, xs[i])
      BY <1>2
    <2>6. ~ ShowsAt(page, runs, xs[i])
      BY <2>4, <2>5, ShowsIs DEF Before, Breakes, Success, Error, Complete
    <2>7. ~ ShowsAt(page, runs', xs[i])
      BY <2>5, <2>6, SameMeta
    <2>8. ops[i].op = "execute" /\ ops[i].x = xs[i]
      BY DEF ExecuteOp
    <2> QED
      BY <2>7, <2>8 DEF Now, Carries
  <1>4. ops = [i \in DOMAIN xs |-> ops[i]]
    OBVIOUS
  <1> QED
    BY <1>2, <1>3, <1>4, EachCarry DEF AllNow, Now

\* invoke runs the executables before the action.
LEMMA InvokeCarries ==
    ASSUME HashInv, Next, Invoke
    PROVE  AllNow(todo')
  <1>1. todo # <<>> /\ todo[1].op = "invoke"
    BY DEF Invoke, At
  <1> DEFINE e == todo[1].site[1]
             r == runner[e]
             ev == todo[1].ev
  <1>2. CASE ~ (Present(todo[1].site) /\ r # 0)
    <2>1. Do(<<>>)
      BY <1>2 DEF Invoke
    <2> QED
      BY <1>1, <2>1, CarryPushedFew
  <1>3. CASE Present(todo[1].site) /\ r # 0
    <2> DEFINE xs == BeforeOf(e, r, ev.type)
               ops == [i \in DOMAIN xs |-> ExecuteOp(xs[i], ev)]
               c == [op |-> "catch", e |-> e, r |-> r, ev |-> ev]
               a == [op |-> "actions", e |-> e, r |-> r, ev |-> ev]
    <2>1. Do(ops \o <<c, a>>)
      BY <1>3, Zenon DEF Invoke, Each
    <2>2. e \in Element /\ r \in DOMAIN runs[e] /\ Lists(e, r, BeforePositions(e, r, ev.type), xs)
      BY <1>3, InvokeDoes, CarryFrame
    <2>3. Plain(c) /\ Plain(a)
      BY PlainKinds
    <2>4. AllNow(<<c, a>>)
      <3>1. Now(c) /\ Now(a)
        BY <2>3, PlainCarry DEF Now
      <3> HIDE DEF c, a
      <3> QED
        BY <3>1, PlainCarry DEF AllNow, Now
    <2>5. AllNow(ops)
      <3>1. Before \in {Before, Breakes}
        BY ZenonT(30)
      <3>2. PICK S : /\ S = {i \in DOMAIN MetasOf(e, r) : /\ ListOf(MetasOf(e, r)[i], Before)
                                                        /\ ev.type \in MetasOf(e, r)[i].onBind}
                     /\ Lists(e, r, S, xs)
        BY <2>2, Zenon DEF BeforePositions
      <3> HIDE DEF xs, e, r, ev
      <3> QED
        BY <2>2, <3>1, <3>2, OthersCarry
    <2> HIDE DEF ops, c, a
    <2>6. PICK all : all = ops \o <<c, a>>
      OBVIOUS
    <2>7. AllNow(all)
      BY <2>4, <2>5, <2>6, CarryJoined DEF AllNow
    <2> QED
      BY <1>1, <2>1, <2>6, <2>7, CarryPushed
  <1> QED
    BY <1>2, <1>3

\* The actions of an event are actions.
LEMMA ActionsCarry ==
    ASSUME HashInv, Next, Actions
    PROVE  AllNow(todo')
  <1>1. todo # <<>> /\ todo[1].op = "actions"
    BY DEF Actions, At
  <1> DEFINE e == todo[1].e
             r == todo[1].r
             ev == todo[1].ev
             xs == ActionsOf(e, r, ev.type)
             ops == [i \in DOMAIN xs |-> [op |-> "action", x |-> xs[i], ev |-> ev]]
  <1>2. Do(ops)
    BY DEF Actions, Each
  <1>3. e \in Element /\ r \in DOMAIN runs[e] /\ Lists(e, r, ActionPositions(e, r, ev.type), xs)
    BY ActionsDoes, CarryFrame
  <1>4. ActionPositions(e, r, ev.type) \subseteq DOMAIN MetasOf(e, r)
    BY DEF ActionPositions
  <1>5. ops = [i \in DOMAIN xs |-> ops[i]] /\ \A i \in DOMAIN xs : ops[i] = [op |-> "action", x |-> xs[i], ev |-> ev]
    OBVIOUS
  <1> HIDE DEF ops, xs, e, r, ev
  <1>6. IsSeq(xs) /\ \A i \in DOMAIN xs : Executable(runs, xs[i])
    BY <1>3, <1>4, ListedLater, CarryFrame
  <1>7. ASSUME NEW i \in DOMAIN xs PROVE Now(ops[i])
    <2>1. xs[i][3] \in ActionPositions(e, r, ev.type) /\ xs[i] = <<e, r, xs[i][3]>>
      BY <1>3 DEF Lists
    <2>2. xs[i][1] = e /\ xs[i][2] = r
      BY <2>1
    <2>3. Meta(xs[i]) = MetasOf(e, r)[xs[i][3]]
      BY <2>2 DEF Meta, RunOf, MetasOf
    <2>4. IsAction(Meta(xs[i]))
      BY <2>1, <2>3 DEF ActionPositions
    <2>5. IsAction(MetaAt(page, runs', xs[i]))
      BY <1>6, <2>4, SameMeta
    <2>6. ops[i].op = "action" /\ ops[i].x = xs[i]
      BY <1>5
    <2> QED
      BY <2>5, <2>6 DEF Now, Carries
  <1>8. AllNow(ops)
    BY <1>5, <1>6, <1>7, EachCarry DEF AllNow, Now
  <1> QED
    BY <1>1, <1>2, <1>8, CarryPushed

\* An action inserts nothing.
LEMMA ActionShowsNothing ==
    ASSUME HashInv, Next, NEW x, Executable(runs, x), IsAction(MetaAt(page, runs', x)), NEW ev
    PROVE  Now(ExecuteOp(x, ev)) /\ Now(RunOp(x, ev))
  <1>1. ~ ShowsAt(page, runs', x)
    BY DEF ShowsAt, IsAction, ActionTypes
  <1> QED
    BY <1>1 DEF Now, Carries, ExecuteOp, RunOp

\* An action goes on to be executed.
LEMMA ActionCarries ==
    ASSUME HashInv, Next, Action
    PROVE  AllNow(todo')
  <1>1. todo # <<>> /\ todo[1].op = "action" /\ Do(<<ExecuteOp(todo[1].x, todo[1].ev)>>)
    BY DEF Action, At
  <1>2. Now(todo[1]) /\ OpOK(runs, todo[1])
    BY <1>1, CarryHead
  <1>3. IsAction(MetaAt(page, runs', todo[1].x)) /\ Executable(runs, todo[1].x)
    BY <1>1, <1>2 DEF Now, Carries, OpOK
  <1>4. Now(ExecuteOp(todo[1].x, todo[1].ev))
    BY <1>3, ActionShowsNothing
  <1> QED
    BY <1>1, <1>4, CarryPushedFew

\* An executable goes on to run.
LEMMA ExecuteCarries ==
    ASSUME HashInv, Next, Execute
    PROVE  AllNow(todo')
  <1>1. todo # <<>> /\ todo[1].op = "execute"
    BY DEF Execute, At
  <1>2. Do(<<>>) \/ Do(<<RunOp(todo[1].x, todo[1].ev)>>)
    BY DEF Execute
  <1>3. Now(todo[1])
    BY <1>1, CarryHead
  <1>4. Now(RunOp(todo[1].x, todo[1].ev))
    <2>1. RunOp(todo[1].x, todo[1].ev).op = "run" /\ RunOp(todo[1].x, todo[1].ev).x = todo[1].x
      BY DEF RunOp
    <2> QED
      BY <1>1, <1>3, <2>1 DEF Now, Carries
  <1> QED
    BY <1>1, <1>2, <1>4, CarryPushedFew

\* The executable that runs is the one at the head.
LEMMA AtRunHead ==
    ASSUME HashInv, Next, NEW type, AtRun(type)
    PROVE  /\ todo # <<>> /\ todo[1].op = "run" /\ Executable(runs, todo[1].x)
           /\ Meta(todo[1].x).type = type
           /\ MetaAt(page, runs', todo[1].x) = Meta(todo[1].x)
           /\ AsksHash(page, runs', todo[1].x) = (type = "Ajax" /\ Meta(todo[1].x).hash)
           /\ type \in ActionTypes => IsAction(MetaAt(page, runs', todo[1].x))
  <1>1. todo # <<>> /\ todo[1].op = "run" /\ Meta(todo[1].x).type = type
    BY DEF AtRun, At
  <1>2. OpOK(runs, todo[1])
    BY <1>1, CarryHead
  <1>3. Executable(runs, todo[1].x)
    BY <1>1, <1>2 DEF OpOK
  <1>4. MetaAt(page, runs', todo[1].x) = Meta(todo[1].x)
    BY <1>3, SameMeta
  <1>5. AsksHash(page, runs', todo[1].x) = (type = "Ajax" /\ Meta(todo[1].x).hash)
    BY <1>1, <1>4, Zenon DEF AsksHash
  <1> QED
    BY <1>1, <1>3, <1>4, <1>5 DEF IsAction

\* An action that asks for nothing completes.
LEMMA CompletesPlainly ==
    ASSUME HashInv, Next, NEW type \in {"Direct", "Event"}, AtRun(type), NEW ev, NEW data
    PROVE  Now(CompleteOp(todo[1].x, ev, Result(TRUE, data, NoRedirect)))
  <1> DEFINE o == CompleteOp(todo[1].x, ev, Result(TRUE, data, NoRedirect))
  <1>1. type \in ActionTypes /\ type # "Ajax"
    BY DEF ActionTypes
  <1>2. IsAction(MetaAt(page, runs', todo[1].x)) /\ ~ AsksHash(page, runs', todo[1].x)
    BY <1>1, AtRunHead
  <1>3. o.op = "complete" /\ o.x = todo[1].x /\ o.result.redirect.hash = NoHash
    BY DEF CompleteOp, Result, NoRedirect
  <1> HIDE DEF o
  <1>4. Now(o)
    BY <1>2, <1>3, NoHashIsHash DEF Now, Carries
  <1> QED
    BY <1>4 DEF o

\* Direct and Event complete.
LEMMA DirectCarries ==
    ASSUME HashInv, Next, Direct \/ Event
    PROVE  AllNow(todo')
  <1>1. PICK type, data :
           type \in {"Direct", "Event"} /\ AtRun(type) /\ Do(<<CompleteOp(todo[1].x, todo[1].ev, Result(TRUE, data, NoRedirect))>>)
    <2>1. CASE Direct
      BY <2>1 DEF Direct
    <2>2. CASE Event
      BY <2>2 DEF Event
    <2> QED
      BY <2>1, <2>2
  <1>2. todo # <<>>
    BY <1>1, AtRunHead
  <1>3. PICK o : o = CompleteOp(todo[1].x, todo[1].ev, Result(TRUE, data, NoRedirect))
    OBVIOUS
  <1>4. Now(o)
    BY <1>1, <1>3, CompletesPlainly
  <1> QED
    BY <1>1, <1>2, <1>3, <1>4, CarryPushedFew

\* What an Ajax asks for is recalled.
LEMMA AjaxAsks ==
    ASSUME HashInv, Next, Ajax, Meta(todo[1].x).hash
    PROVE  history'.asks = Append(history.asks, Parse(hash)) /\ Parse(hash) \in Questions'
  <1> DEFINE seen == Seen(todo[1].x, todo[1].ev)
             m == Meta(todo[1].x)
             asked == Asked(m)
             noted == [seen EXCEPT !.asks = Append(@, asked), !.newest = clock + 1]
  <1>1. history' = noted \/ \E c : history' = [noted EXCEPT !.answered = c]
    BY DEF Ajax
  <1>2. "asks" \in DOMAIN seen /\ seen.asks = history.asks
    BY SeenAsks DEF HashInv, RecallsAsks
  <1>3. asked = Parse(hash)
    BY DEF Asked
  <1> HIDE DEF seen, asked, m
  <1>4. "asks" \in DOMAIN noted /\ noted.asks = Append(history.asks, Parse(hash))
    BY <1>2, <1>3
  <1> HIDE DEF noted
  <1>5. history'.asks = Append(history.asks, Parse(hash))
    BY <1>1, <1>4
  <1> QED
    BY <1>5, QuestionsGrow, ZenonT(30) DEF HashInv, m

\* A request asks for the hash, or the cache answers it.
LEMMA AjaxCarries ==
    ASSUME HashInv, Next, Ajax
    PROVE  AllNow(todo')
  <1> DEFINE x == todo[1].x
             ev == todo[1].ev
             m == Meta(x)
             asked == Asked(m)
             data == [n |-> clock + 1, asked |-> asked]
  <1>1. AtRun("Ajax")
    BY DEF Ajax
  <1>2. /\ todo # <<>> /\ Executable(runs, x)
        /\ IsAction(MetaAt(page, runs', x)) /\ (AsksHash(page, runs', x) => m.hash)
    <2>1. "Ajax" \in ActionTypes
      BY DEF ActionTypes
    <2> QED
      BY <1>1, <2>1, AtRunHead, Zenon
  <1>3. ASSUME m.hash PROVE asked \in Questions'
    BY <1>3, AjaxAsks, Zenon DEF Asked
  <1>4. \/ \E s \in storage : /\ s.key = <<m.arg, asked>>
                             /\ Do(<<FireOp("incajaxsuccess", Self(x), NoData), CompleteOp(x, ev, s.value)>>)
        \/ Do(<<FireOp("incajaxbefore", Self(x), NoData), [op |-> "send", x |-> x, ev |-> ev, data |-> data]>>)
    BY DEF Ajax, Cached
  <1>5. CASE \E s \in storage : /\ s.key = <<m.arg, asked>>
                               /\ Do(<<FireOp("incajaxsuccess", Self(x), NoData), CompleteOp(x, ev, s.value)>>)
    <2>1. PICK s \in storage : /\ s.key = <<m.arg, asked>>
                              /\ Do(<<FireOp("incajaxsuccess", Self(x), NoData), CompleteOp(x, ev, s.value)>>)
      BY <1>5
    <2>2. KeptFor(s.key, s.value)
      BY DEF HashInv, WaitingCarry
    <2>3. IsHash(s.value.redirect.hash) /\ s.value.data.n > 0 /\ s.value.data.asked = asked
      BY <2>1, <2>2 DEF KeptFor
    <2>4. PICK o, p : o = FireOp("incajaxsuccess", Self(x), NoData) /\ p = CompleteOp(x, ev, s.value)
      OBVIOUS
    <2>5. p.op = "complete" /\ p.x = x /\ p.result = s.value
      BY <2>4 DEF CompleteOp
    <2>6. Plain(o)
      BY <2>4, PlainKinds
    <2> HIDE DEF x, m, asked
    <2>7. Now(p)
      <3>1. AsksHash(page, runs', x) => Answers(Questions', p.result.data)
        BY <1>2, <1>3, <2>3, <2>5 DEF Answers
      <3> QED
        BY <1>2, <2>3, <2>5, <3>1 DEF Now, Carries
    <2> QED
      BY <1>2, <2>1, <2>4, <2>6, <2>7, CarryPushedFew
  <1>6. CASE Do(<<FireOp("incajaxbefore", Self(x), NoData), [op |-> "send", x |-> x, ev |-> ev, data |-> data]>>)
    <2>1. PICK o, p : /\ o = FireOp("incajaxbefore", Self(x), NoData)
                      /\ p = [op |-> "send", x |-> x, ev |-> ev, data |-> data]
      OBVIOUS
    <2>2. p.op = "send" /\ p.x = x /\ p.data.n = clock + 1 /\ p.data.asked = asked
      BY <2>1
    <2>3. Plain(o)
      BY <2>1, PlainKinds
    <2>4. clock + 1 > 0
      BY DEF HashInv, TypeInv, CountersOK
    <2>5. Do(<<o, p>>)
      BY <1>6, <2>1
    <2> HIDE DEF x, m, asked, data
    <2>6. Now(p)
      <3>1. AsksHash(page, runs', x) => Answers(Questions', p.data)
        BY <1>2, <1>3, <2>2, <2>4 DEF Answers
      <3> QED
        BY <1>2, <2>2, <2>4, <3>1 DEF Now, Carries
    <2> QED
      BY <1>2, <2>3, <2>5, <2>6, CarryPushedFew
  <1> QED
    BY <1>4, <1>5, <1>6

\* A form asks for nothing of the hash.
LEMMA SubmitCarries ==
    ASSUME HashInv, Next, Submit
    PROVE  AllNow(todo')
  <1> DEFINE x == todo[1].x
             data == [n |-> clock + 1, asked |-> <<>>]
  <1>1. AtRun("Submit")
    BY DEF Submit
  <1>2. todo # <<>> /\ IsAction(MetaAt(page, runs', x)) /\ ~ AsksHash(page, runs', x)
    <2>1. "Submit" \in ActionTypes /\ "Submit" # "Ajax"
      BY DEF ActionTypes
    <2> QED
      BY <1>1, <2>1, AtRunHead
  <1>3. \/ Do(<<>>)
        \/ Do(<<FireOp("incajaxbefore", Doc, NoData), [op |-> "send", x |-> x, ev |-> todo[1].ev, data |-> data]>>)
    BY DEF Submit
  <1>4. PICK o, p : /\ o = FireOp("incajaxbefore", Doc, NoData)
                    /\ p = [op |-> "send", x |-> x, ev |-> todo[1].ev, data |-> data]
    OBVIOUS
  <1>5. p.op = "send" /\ p.x = x /\ p.data.n = clock + 1
    BY <1>4
  <1>6. clock + 1 > 0
    BY DEF HashInv, TypeInv, CountersOK
  <1>7. Plain(o) /\ (Do(<<>>) \/ Do(<<o, p>>))
    BY <1>3, <1>4, PlainKinds
  <1> HIDE DEF x, data
  <1>8. Now(p)
    BY <1>2, <1>5, <1>6 DEF Now, Carries
  <1> QED
    BY <1>2, <1>7, <1>8, CarryPushedFew

\* RedirectTo leaves an event at most.
LEMMA RedirectCarries ==
    ASSUME HashInv, Next, todo # <<>>, NEW r, RedirectTo(r, <<>>)
    PROVE  AllNow(todo')
  <1>1. Do(<<FireOp(ChangeUrl, Doc, NoData)>> \o <<>>) \/ Do(<<>>)
    BY DEF RedirectTo
  <1>2. PICK o : Plain(o) /\ o = FireOp(ChangeUrl, Doc, NoData)
    BY PlainKinds
  <1>3. <<o>> \o <<>> = <<o>>
    OBVIOUS
  <1>4. Do(<<o>>) \/ Do(<<>>)
    BY <1>1, <1>2, <1>3
  <1> QED
    BY <1>2, <1>4, CarryPushedFew

\* The callbacks of an action that asked are given an answer.
LEMMA CallsCarry ==
    ASSUME HashInv, Next, todo # <<>>, todo[1].op = "complete",
           NEW x, x = todo[1].x, NEW data, data = todo[1].result.data,
           NEW status, NEW p \in DOMAIN MetasOf(x[1], x[2]),
           ListOf(MetasOf(x[1], x[2])[p], status), MetasOf(x[1], x[2])[p].onBind = Meta(x).onBind,
           NEW c, c.x[1] = x[1], c.x[2] = x[2], c.x[3] = p, c.data = data
    PROVE  CarriesCallback(page, runs', Questions', c)
  <1>1. OpOK(runs, todo[1]) /\ Now(todo[1])
    BY CarryHead
  <1>2. Executable(runs, x)
    BY <1>1 DEF OpOK
  <1>3. Executable(runs, c.x)
    <2>1. DOMAIN runs[x[1]][x[2]].event = DOMAIN MetasOf(x[1], x[2])
      BY <1>2, RunFacts, Zenon DEF Executable, HashInv, TypeInv
    <2> QED
      BY <1>2, <2>1, Zenon DEF Executable
  <1>4. Meta(c.x) = MetasOf(x[1], x[2])[p]
    BY Zenon DEF Meta, RunOf, MetasOf
  <1>5. ASSUME ShowsAt(page, runs', c.x) PROVE Answers(Questions', c.data)
    <2>1. ShowsAt(page, runs, c.x)
      BY <1>3, <1>5, SameMeta
    <2>2. IsAction(Meta(x)) /\ AsksHash(page, runs', x) = AsksHash(page, runs, x)
      <3>1. IsAction(MetaAt(page, runs', x))
        BY <1>1 DEF Now, Carries
      <3> QED
        BY <1>2, <3>1, SameMeta
    <2>3. AsksHash(page, runs, x)
      BY <1>2, <1>3, <1>4, <2>1, <2>2, ShowsIs
    <2> QED
      BY <1>1, <2>2, <2>3 DEF Now, Carries
  <1> QED
    BY <1>5 DEF CarriesCallback

\* A completion gives its result to the callbacks.
LEMMA CompletedCarries ==
    ASSUME HashInv, Next, Completed
    PROVE  AllNow(todo')
  <1>1. todo # <<>> /\ todo[1].op = "complete"
    BY DEF Completed, At
  <1>2. PICK x, ev, data : x = todo[1].x /\ ev = todo[1].ev /\ data = todo[1].result.data
    OBVIOUS
  <1>3. CASE todo[1].result.redirect # NoRedirect
    <2>1. RedirectTo(todo[1].result.redirect, <<>>)
      BY <1>3 DEF Completed
    <2> QED
      BY <1>1, <2>1, RedirectCarries
  <1>4. CASE todo[1].result.redirect = NoRedirect
    <2>1. x[1] \in Element /\ x[2] \in DOMAIN runs[x[1]] /\ page \in Page /\ AreRuns(page, runs) /\ Executable(runs, x)
      BY <1>1, <1>2, AtHeadExecutable, CarryFrame DEF Executable
    <2> DEFINE P(s) == {i \in DOMAIN MetasOf(x[1], x[2]) :
                           /\ ListOf(MetasOf(x[1], x[2])[i], s)
                           /\ MetasOf(x[1], x[2])[i].onBind = Meta(x).onBind}
               Call(last, y) == [op |-> "callback", x |-> y, ev |-> ev, data |-> data, last |-> last]
               status == IF todo[1].result.success THEN Success ELSE Error
               xs == CallbacksOf(x, status) \o CallbacksOf(x, Complete)
               ys == CallbacksOf(x, Breakes)
               ops == [i \in DOMAIN xs |-> Call(FALSE, xs[i])]
               last == [i \in DOMAIN ys |-> Call(TRUE, ys[i])]
               b == [op |-> "breakes", hasBreak |-> FALSE, callbacks |-> last]
    <2>2. Do(ops \o <<b>>)
      BY <1>2, <1>4 DEF Completed, Each
    <2>3. \A s : Lists(x[1], x[2], P(s), CallbacksOf(x, s))
      BY <2>1, CallbacksLists
    <2>4. ops = [i \in DOMAIN xs |-> ops[i]] /\ \A i \in DOMAIN xs : ops[i] = Call(FALSE, xs[i])
      OBVIOUS
    <2>5. last = [i \in DOMAIN ys |-> last[i]] /\ \A i \in DOMAIN ys : last[i] = Call(TRUE, ys[i])
      OBVIOUS
    <2>6. \A s : \A c : c.x[1] = x[1] /\ c.x[2] = x[2] /\ c.x[3] \in P(s) /\ c.data = data =>
                CarriesCallback(page, runs', Questions', c)
      <3> SUFFICES ASSUME NEW s, NEW c, c.x[1] = x[1], c.x[2] = x[2], c.x[3] \in P(s), c.data = data
                   PROVE  CarriesCallback(page, runs', Questions', c)
        OBVIOUS
      <3>1. PICK p : p = c.x[3] /\ p \in DOMAIN MetasOf(x[1], x[2])
        OBVIOUS
      <3>2. ListOf(MetasOf(x[1], x[2])[p], s) /\ MetasOf(x[1], x[2])[p].onBind = Meta(x).onBind
        BY <3>1
      <3> HIDE DEF P
      <3> QED
        BY <1>1, <1>2, <3>1, <3>2, CallsCarry
    <2>8. b.op = "breakes" /\ b.callbacks = last
      OBVIOUS
    <2> HIDE DEF P, status, ops, xs, ys, last, b
    <2>9. Lists(x[1], x[2], P(status) \cup P(Complete), xs) /\ Lists(x[1], x[2], P(Breakes), ys)
      BY <2>3, ListsConcat DEF xs, ys
    <2>12. IsSeq(xs) /\ IsSeq(ys)
      BY <2>9 DEF Lists
    <2>13. IsSeq(last) /\ DOMAIN last = DOMAIN ys
      BY <2>5, <2>12, Mapped
    <2>14. ASSUME NEW i \in DOMAIN xs PROVE Now(ops[i])
      <3>1. xs[i][3] \in P(status) \cup P(Complete) /\ xs[i] = <<x[1], x[2], xs[i][3]>>
        BY <2>9 DEF Lists
      <3>2. xs[i][1] = x[1] /\ xs[i][2] = x[2]
        BY <3>1
      <3>3. ops[i].op = "callback" /\ ops[i].x = xs[i] /\ ops[i].data = data
        BY <2>4
      <3>4. CarriesCallback(page, runs', Questions', ops[i])
        BY <2>6, <3>1, <3>2, <3>3
      <3> QED
        BY <3>3, <3>4 DEF Now, Carries
    <2>15. ASSUME NEW i \in DOMAIN last PROVE CarriesCallback(page, runs', Questions', last[i])
      <3>1. ys[i][3] \in P(Breakes) /\ ys[i] = <<x[1], x[2], ys[i][3]>>
        BY <2>9, <2>13 DEF Lists
      <3>2. ys[i][1] = x[1] /\ ys[i][2] = x[2]
        BY <3>1
      <3>3. last[i].x = ys[i] /\ last[i].data = data
        BY <2>5, <2>13
      <3> QED
        BY <2>6, <3>1, <3>2, <3>3
    <2>16. Now(b)
      BY <2>8, <2>15 DEF Now, Carries
    <2>17. AllNow(<<b>>)
      BY <2>16, PlainCarry DEF AllNow, Now
    <2>18. AllNow(ops)
      BY <2>4, <2>12, <2>14, EachCarry DEF AllNow, Now
    <2>19. PICK all : all = ops \o <<b>>
      OBVIOUS
    <2>20. AllNow(all)
      BY <2>17, <2>18, <2>19, CarryJoined DEF AllNow
    <2> QED
      BY <1>1, <2>2, <2>19, <2>20, CarryPushed
  <1> QED
    BY <1>3, <1>4

\* A callback is executed with the result it was given.
LEMMA CallbackCarries ==
    ASSUME HashInv, Next, Callback
    PROVE  AllNow(todo')
  <1>1. PICK x, ev, p : /\ todo # <<>> /\ todo[1].op = "callback" /\ x = todo[1].x
                        /\ Plain(p) /\ Do(<<ExecuteOp(x, ev), p>>)
    BY PlainKinds, Zenon DEF Callback, At
  <1>2. PICK data : data = todo[1].data
    OBVIOUS
  <1>3. OpOK(runs, todo[1]) /\ Now(todo[1])
    BY <1>1, CarryHead
  <1>4. Executable(runs, x) /\ (ShowsAt(page, runs', x) => Answers(Questions', data))
    BY <1>1, <1>2, <1>3 DEF OpOK, Now, Carries, CarriesCallback
  <1>5. ResultSet(runs, runs', x, data)
    BY <1>1, <1>2, <1>4, CallbackDoes, CarryFrame
  <1>6. /\ x[1] \in Element /\ x[2] \in DOMAIN runs[x[1]]
        /\ x[3] \in DOMAIN runs[x[1]][x[2]].event /\ x[3] \in DOMAIN runs[x[1]][x[2]].result
    BY <1>4, RunFacts, CarryFrame DEF Executable
  <1>7. ResultAt(runs', x) = data
    BY <1>5, <1>6 DEF ResultSet, ResultAt
  <1>8. PICK o : o = ExecuteOp(x, ev)
    OBVIOUS
  <1>9. o.op = "execute" /\ o.x = x
    BY <1>8 DEF ExecuteOp
  <1>10. Now(o)
    BY <1>4, <1>7, <1>9 DEF Now, Carries
  <1>11. Now(p)
    BY <1>1, PlainCarry DEF Now
  <1> QED
    BY <1>1, <1>8, <1>10, <1>11, CarryPushedFew

\* The executables on break carry what they did.
LEMMA BreakCallbacksCarry ==
    ASSUME HashInv, Next, BreakCallbacks
    PROVE  AllNow(todo')
  <1>1. todo # <<>> /\ todo[1].op = "breakes" /\ (Do(<<>>) \/ Do(todo[1].callbacks))
    BY DEF BreakCallbacks, At
  <1>2. PICK cs : cs = todo[1].callbacks
    OBVIOUS
  <1>3. OpOK(runs, todo[1]) /\ Now(todo[1])
    BY <1>1, CarryHead
  <1>4. IsSeq(cs) /\ \A i \in DOMAIN cs : cs[i].op = "callback"
    BY <1>1, <1>2, <1>3 DEF OpOK
  <1>5. \A i \in DOMAIN cs : CarriesCallback(page, runs', Questions', cs[i])
    BY <1>1, <1>2, <1>3 DEF Now, Carries
  <1>6. \A i \in DOMAIN cs : Now(cs[i])
    BY <1>4, <1>5 DEF Now, Carries
  <1>7. AllNow(cs)
    BY <1>4, <1>6 DEF AllNow, AllCarry, Now
  <1> QED
    BY <1>1, <1>2, <1>7, CarryPushed, CarryPushedFew

\* Executables that are no actions leave operations that carry nothing.
LEMMA RunOtherCarries ==
    ASSUME HashInv, Next, Insert \/ Trigger \/ Break \/ Eval \/ HashStore \/ Attach \/ Detach
    PROVE  AllNow(todo')
  <1>1. todo # <<>>
    BY Zenon DEF Insert, Trigger, Break, Eval, HashStore, Attach, Detach, AtRun, At
  <1>2. CASE HashStore
    <2>1. \E r : RedirectTo(r, <<>>)
      BY <1>2 DEF HashStore
    <2> QED
      BY <1>1, <2>1, RedirectCarries
  <1>3. CASE Insert
    <2>1. \/ \E kind : Do(<<ThrowOp(kind)>>)
          \/ Do(<<FireOp("incinsert", <<"window", 0>>, NoData)>>)
          \/ \E e : Do(<<ParseOp(e), FireOp("incinsert", <<"window", 0>>, NoData)>>)
      BY <1>3 DEF Insert
    <2>2. \/ \E o : Plain(o) /\ Do(<<o>>)
          \/ \E o, p : Plain(o) /\ Plain(p) /\ Do(<<o, p>>)
      BY <2>1, PlainKinds
    <2> QED
      BY <1>1, <2>2, CarryPushedFew
  <1>4. CASE Trigger \/ Break \/ Eval \/ Attach \/ Detach
    <2>1. \/ Do(<<>>)
          \/ \E kind : Do(<<ThrowOp(kind)>>)
          \/ \E type, site, data : Do(<<FireOp(type, site, data)>>)
          \/ \E e : Do(<<ParseOp(e)>>)
      <3>1. CASE Trigger
        BY <3>1 DEF Trigger
      <3>2. CASE Break
        BY <3>2 DEF Break
      <3>3. CASE Eval
        BY <3>3 DEF Eval
      <3>4. CASE Attach
        BY <3>4 DEF Attach
      <3>5. CASE Detach
        BY <3>5 DEF Detach
      <3> QED
        BY <1>4, <3>1, <3>2, <3>3, <3>4, <3>5
    <2>2. Do(<<>>) \/ \E o : Plain(o) /\ Do(<<o>>)
      BY <2>1, PlainKinds
    <2> QED
      BY <1>1, <2>2, CarryPushedFew
  <1> QED
    BY <1>2, <1>3, <1>4, ZenonT(30)

\* Operations that carry well, before what follows a catcher.
LEMMA CarryBefore ==
    ASSUME HashInv, Next, NEW k \in Nat, NEW ops, AllNow(ops), todo' = ops \o After(k)
    PROVE  AllNow(todo')
  <1>1. AllNow(After(k))
    BY CarryLeft
  <1> QED
    BY <1>1, CarryJoined DEF AllNow

\* Noting a Break changes no callback.
LEMMA SetBreakCarries ==
    ASSUME NEW pg, NEW rs, NEW as, NEW ops, OpsInv(rs, ops), AllCarry(pg, rs, as, ops),
           NEW j \in DOMAIN ops, ops[j].op = "breakes"
    PROVE  AllCarry(pg, rs, as, SetBreak(ops, j))
  <1> DEFINE all == SetBreak(ops, j)
  <1>1. /\ OpsInv(rs, all)
        /\ DOMAIN all = DOMAIN ops
        /\ \A k \in DOMAIN ops : k # j => all[k] = ops[k]
        /\ all[j] = [op |-> "breakes", hasBreak |-> TRUE, callbacks |-> ops[j].callbacks]
    BY SetBreakDoes
  <1> HIDE DEF all
  <1>2. Carries(pg, rs, as, ops[j])
    BY DEF AllCarry
  <1>3. Carries(pg, rs, as, all[j])
    <2>1. all[j].op = "breakes" /\ all[j].callbacks = ops[j].callbacks
      BY <1>1
    <2> QED
      BY <1>2, <2>1 DEF Carries
  <1>4. \A k \in DOMAIN all : Carries(pg, rs, as, all[k])
    BY <1>1, <1>3 DEF AllCarry
  <1> QED
    BY <1>1, <1>4 DEF AllCarry, OpsInv, OpsOK, all

\* Exceptions leave operations that carry what they did.
LEMMA ThrowCarries ==
    ASSUME HashInv, Next, Uncaught \/ BreakBefore \/ BreakCallback \/ RethrowCallback
    PROVE  AllNow(todo')
  <1>0. TypeInv /\ IsSeq(todo) /\ Len(todo) \in Nat
    BY CarryFrame, IsSeqDom DEF TypeInv, OpsOK
  <1>1. CASE Uncaught
    <2>1. todo' = <<>>
      BY <1>1 DEF Uncaught
    <2> QED
      BY <2>1, PlainCarry DEF AllNow
  <1>2. CASE BreakBefore
    <2> DEFINE i == FirstOf(Catchers(todo[1].kind))
               c == todo[i]
               xs == BreakesOf(c.e, c.r, c.ev.type)
               ops == [k \in DOMAIN xs |-> ExecuteOp(xs[k], c.ev)]
    <2>1. At("throw") /\ Catchers(todo[1].kind) # {} /\ todo' = ops \o After(i + 1)
      BY <1>2, ZenonT(30) DEF BreakBefore, Each
    <2>2. i \in Nat
      BY <1>0, <2>1, CatcherDoes, Zenon
    <2>3. c.e \in Element /\ c.r \in DOMAIN runs[c.e] /\ Lists(c.e, c.r, BreakesPositions(c.e, c.r, c.ev.type), xs)
      BY <1>0, <1>2, BreakBeforeDoes
    <2>4. PICK e, r, ev : e = c.e /\ r = c.r /\ ev = c.ev
      BY Zenon
    <2>5. PICK S : /\ S = {k \in DOMAIN MetasOf(e, r) : /\ ListOf(MetasOf(e, r)[k], Breakes)
                                                      /\ ev.type \in MetasOf(e, r)[k].onBind}
                   /\ Lists(e, r, S, xs)
      BY <2>3, <2>4, Zenon DEF BreakesPositions
    <2>6. ops = [k \in DOMAIN xs |-> ExecuteOp(xs[k], ev)]
      BY <2>4, Zenon
    <2>7. Breakes \in {Before, Breakes} /\ e \in Element /\ r \in DOMAIN runs[e]
      BY <2>3, <2>4
    <2> HIDE DEF ops, xs, c, i
    <2>8. AllNow(ops)
      BY <2>5, <2>6, <2>7, OthersCarry
    <2>9. i + 1 \in Nat
      BY <2>2
    <2> QED
      BY <2>1, <2>8, <2>9, CarryBefore
  <1>3. CASE RethrowCallback
    <2> DEFINE i == FirstOf(Catchers("error"))
    <2>1. PICK o, p : Plain(o) /\ Plain(p) /\ todo' = <<o, p>> \o After(i)
      BY <1>3, PlainKinds DEF RethrowCallback
    <2>2. i \in Nat
      <3>1. At("throw") /\ Catchers("error") # {}
        BY <1>3 DEF RethrowCallback
      <3> QED
        BY <1>0, <3>1, CatcherDoes
    <2> HIDE DEF i
    <2>3. AllNow(<<o, p>>)
      BY <2>1, PlainCarry DEF AllNow
    <2> QED
      BY <2>1, <2>2, <2>3, CarryBefore
  <1>4. CASE BreakCallback
    <2> DEFINE i == FirstOf(Catchers("break"))
               after == After(i)
               j == FirstOf({k \in DOMAIN after : after[k].op = "breakes"})
    <2>1. /\ At("throw") /\ Catchers("break") # {} /\ todo[i].op = "caught"
          /\ todo' = IF todo[i].last THEN after ELSE SetBreak(after, j)
      BY <1>4 DEF BreakCallback, SetBreak
    <2>2. i \in DOMAIN todo /\ i > 1 /\ i <= Len(todo) /\ i \in Nat
      BY <1>0, <2>1, CatcherDoes
    <2>3. OpsInv(runs', after) /\ AllNow(after)
      <3> HIDE DEF i
      <3>1. i \in 0..Len(todo)
        BY <1>0, <2>2
      <3> QED
        BY <1>0, <2>2, <3>1, AfterKept, CarryLeft
    <2>4. CASE todo[i].last
      BY <2>1, <2>3, <2>4
    <2>5. CASE ~ todo[i].last
      <3> HIDE DEF i
      <3>1. j \in DOMAIN after /\ after[j].op = "breakes"
        BY <1>0, <2>1, <2>2, <2>5, BreakesFollow
      <3> HIDE DEF j, after
      <3>2. AllNow(SetBreak(after, j))
        BY <2>3, <3>1, SetBreakCarries DEF AllNow
      <3> QED
        BY <2>1, <2>5, <3>2
    <2> QED
      BY <2>4, <2>5
  <1> QED
    BY <1>1, <1>2, <1>3, <1>4

\* parse leaves initialisations.
LEMMA ParseCarries ==
    ASSUME HashInv, Next, ParseContext
    PROVE  AllNow(todo')
  <1>1. todo # <<>> /\ TypeInv
    BY CarryFrame, Zenon DEF ParseContext, At
  <1>2. PICK ds : /\ IsSeq(ds)
                  /\ Do([i \in DOMAIN ds |->
                           InvokeOp(<<ds[i], node[ds[i]]>>,
                                    [type |-> InitIncoding, n |-> clock + i, data |-> NoData])])
    BY <1>1, ParseDoes
  <1> DEFINE ops == [i \in DOMAIN ds |->
                        InvokeOp(<<ds[i], node[ds[i]]>>,
                                 [type |-> InitIncoding, n |-> clock + i, data |-> NoData])]
  <1>3. \A i \in DOMAIN ds : Plain(ops[i])
    BY PlainKinds
  <1>4. ops = [i \in DOMAIN ds |-> ops[i]] /\ Do(ops)
    BY <1>2
  <1> HIDE DEF ops
  <1>5. AllNow(ops)
    BY <1>1, <1>2, <1>3, <1>4, PlainPushed
  <1> QED
    BY <1>1, <1>4, <1>5, CarryPushed

\* The answer of the server answers what its request asked for.
LEMMA AnswerCarries ==
    ASSUME HashInv, Next, NEW r \in requests, Answer(r)
    PROVE  AllNow(todo')
  <1>1. Executable(runs, r.x)
    BY CarryFrame, Zenon DEF TypeInv, WaitingOK
  <1>2. PICK success \in page.outcomes.success, redirect \in page.outcomes.redirect :
           LET result == Result(success, r.data, redirect)
               site == IF IsSubmit(r) THEN Doc ELSE Self(r.x)
               d == FireOp("incajaxcomplete", site, r.data)
               c == CompleteOp(r.x, r.ev, result)
               kept == IF Meta(r.x).localCache
                          THEN <<[op |-> "store", key |-> <<Meta(r.x).arg, r.data.asked>>,
                                    value |-> result]>> ELSE <<>>
           IN  todo' = <<FireOp("incajaxsuccess", site, r.data)>>
                          \o IF IsSubmit(r) THEN <<d, c>> ELSE kept \o <<c, d>>
    BY DEF Answer
  <1>3. IsHash(redirect.hash)
    BY <1>2, HashFacts, CarryFrame
  <1>4. /\ IsAction(MetaAt(page, runs', r.x)) /\ r.data.n > 0
        /\ AsksHash(page, runs', r.x) => Answers(Questions', r.data)
    <2>1. /\ IsAction(MetaAt(page, runs, r.x)) /\ r.data.n > 0
          /\ AsksHash(page, runs, r.x) => Answers(Questions, r.data)
      BY DEF HashInv, WaitingCarry
    <2>2. Questions \subseteq Questions'
      BY CarryFrame
    <2>3. MetaAt(page, runs', r.x) = MetaAt(page, runs, r.x) /\ AsksHash(page, runs', r.x) = AsksHash(page, runs, r.x)
      BY <1>1, SameMeta
    <2> QED
      BY <2>1, <2>2, <2>3, AnswersStay
  <1> DEFINE result == Result(success, r.data, redirect)
             site == IF IsSubmit(r) THEN Doc ELSE Self(r.x)
             o == FireOp("incajaxsuccess", site, r.data)
             d == FireOp("incajaxcomplete", site, r.data)
             c == CompleteOp(r.x, r.ev, result)
             s == [op |-> "store", key |-> <<Meta(r.x).arg, r.data.asked>>, value |-> result]
             kept == IF Meta(r.x).localCache THEN <<s>> ELSE <<>>
  <1>5. Now(o) /\ Now(d)
    BY PlainKinds, PlainCarry DEF Now
  <1>6. Now(c)
    <2>1. c.op = "complete" /\ c.x = r.x /\ c.result.redirect = redirect /\ c.result.data = r.data
      BY DEF CompleteOp, Result
    <2> HIDE DEF c
    <2> QED
      BY <1>3, <1>4, <2>1 DEF Now, Carries
  <1>7. Now(s)
    <2>1. /\ s.op = "store" /\ s.key[2] = r.data.asked
          /\ s.value.redirect = redirect /\ s.value.data = r.data
      BY DEF Result
    <2> HIDE DEF s
    <2> QED
      BY <1>3, <1>4, <2>1 DEF Now, Carries, KeptFor
  <1>8. todo' = <<o>> \o IF IsSubmit(r) THEN <<d, c>> ELSE kept \o <<c, d>>
    BY <1>2
  <1>9. kept = <<s>> \/ kept = <<>>
    OBVIOUS
  <1> HIDE DEF o, d, c, s, kept
  <1>10. AllNow(<<o>>) /\ AllNow(<<s>>) /\ AllNow(<<>>) /\ AllNow(<<d, c>>) /\ AllNow(<<c, d>>)
    BY <1>5, <1>6, <1>7, PlainCarry DEF AllNow, Now
  <1>11. AllNow(kept)
    BY <1>9, <1>10
  <1>12. PICK more : more = kept \o <<c, d>>
    OBVIOUS
  <1>13. AllNow(more)
    BY <1>10, <1>11, <1>12, CarryJoined DEF AllNow
  <1>14. PICK last : last = IF IsSubmit(r) THEN <<d, c>> ELSE more
    OBVIOUS
  <1>15. AllNow(last)
    BY <1>10, <1>13, <1>14
  <1>16. todo' = <<o>> \o last
    BY <1>8, <1>12, <1>14
  <1> QED
    BY <1>10, <1>15, <1>16, CarryJoined DEF AllNow

\* The tasks of the user, the browser and the server.
LEMMA TaskCarries ==
    ASSUME HashInv, Next, User \/ Navigate \/ Announce \/ Respond \/ TimeOut \/ Tick
    PROVE  AllNow(todo')
  <1>0. /\ AllNow(todo)
        /\ \A o : Plain(o) => AllNow(<<o>>)
        /\ \A o, p : Plain(o) /\ Plain(p) => AllNow(<<o, p>>)
        /\ \A o : Now(o) => AllNow(<<o>>)
    BY CarryFrame, PlainCarry DEF AllNow, Now
  <1>1. CASE User \/ Announce
    <2>1. PICK o : Plain(o) /\ todo' = <<o>>
      BY <1>1, PlainKinds DEF User, Announce
    <2> QED
      BY <1>0, <2>1
  <1>2. CASE Navigate
    <2>1. todo' = todo
      BY <1>2 DEF Navigate
    <2> QED
      BY <1>0, <2>1
  <1>4. CASE Respond
    <2>1. PICK r \in requests : Answer(r) \/ Fail(r)
      BY <1>4 DEF Respond
    <2>2. CASE Answer(r)
      BY <2>2, AnswerCarries
    <2>3. CASE Fail(r)
      <3>1. PICK o, p : Plain(o) /\ Plain(p) /\ todo' = <<o, p>>
        BY <2>3, PlainKinds DEF Fail
      <3> QED
        BY <1>0, <3>1
    <2> QED
      BY <2>1, <2>2, <2>3
  <1>5. CASE TimeOut \/ Tick
    <2>1. PICK w \in timers \cup intervals : todo' = <<RunOp(w.x, w.ev)>>
      BY <1>5 DEF TimeOut, Tick
    <2>2. runs' = runs /\ Executable(runs, w.x) /\ Questions \subseteq Questions'
      <3>1. runs' = runs
        BY <1>5 DEF TimeOut, Tick, dom
      <3> QED
        BY <3>1, CarryFrame DEF TypeInv, WaitingOK
    <2>3. ShowsAt(page, runs, w.x) => Answers(Questions, ResultAt(runs, w.x))
      BY DEF HashInv, WaitingCarry
    <2>4. ShowsAt(page, runs', w.x) => Answers(Questions', ResultAt(runs', w.x))
      BY <2>2, <2>3, AnswersStay
    <2>5. PICK o : o = RunOp(w.x, w.ev)
      OBVIOUS
    <2>6. o.op = "run" /\ o.x = w.x
      BY <2>5 DEF RunOp
    <2>7. Now(o)
      BY <2>4, <2>6 DEF Now, Carries
    <2> QED
      BY <1>0, <2>1, <2>5, <2>7
  <1> QED
    BY <1>1, <1>2, <1>4, <1>5

\* Every step leaves operations that carry answers.
LEMMA CarryStep ==
    ASSUME HashInv, Next
    PROVE  AllCarry(page', runs', Questions', todo')
  <1>0. SUFFICES AllNow(todo')
    BY CarryFrame DEF AllNow
  <1>1. CASE Fire \/ Dispatch \/ Invoke
    BY <1>1, FireCarries, DispatchCarries, InvokeCarries
  <1>2. CASE CatchNothing \/ CaughtNothing \/ Send \/ Store
    <2>1. todo # <<>> /\ Do(<<>>)
      BY <1>2 DEF CatchNothing, CaughtNothing, Send, Store, At
    <2> QED
      BY <2>1, CarryPushedFew
  <1>3. CASE Actions \/ Action \/ Execute
    BY <1>3, ActionsCarry, ActionCarries, ExecuteCarries
  <1>4. CASE Direct \/ Event \/ Ajax \/ Submit
    BY <1>4, DirectCarries, AjaxCarries, SubmitCarries
  <1>5. CASE Completed \/ Callback \/ BreakCallbacks
    BY <1>5, CompletedCarries, CallbackCarries, BreakCallbacksCarry
  <1>6. CASE Uncaught \/ BreakBefore \/ BreakCallback \/ RethrowCallback
    BY <1>6, ThrowCarries
  <1>7. CASE ParseContext
    BY <1>7, ParseCarries
  <1>8. CASE Insert \/ Trigger \/ Break \/ Eval \/ HashStore \/ Attach \/ Detach
    BY <1>8, RunOtherCarries
  <1>9. CASE User \/ Navigate \/ Announce \/ Respond \/ TimeOut \/ Tick
    BY <1>9, TaskCarries
  <1> QED
    BY <1>1, <1>2, <1>3, <1>4, <1>5, <1>6, <1>7, <1>8, <1>9 DEF Next, Step

-------------------------------------------------------------------------------
(* What waits, what is shown, and the hash *)

\* Which actions change what is kept, what is shown and where the page is.
NavFrame ==
    /\ Store \/ UNCHANGED storage
    /\ Insert \/ UNCHANGED shown
    /\ Completed \/ HashStore \/ UNCHANGED leaving
    /\ Completed \/ HashStore \/ Navigate \/ UNCHANGED hash

\* Every action leaves alone what NavFrame says it leaves alone.
LEMMA NavFrames ==
    ASSUME Next
    PROVE  NavFrame
  <1>1. CASE Fire \/ Dispatch \/ Invoke \/ CatchNothing \/ Actions \/ Action \/ Execute
    BY <1>1 DEF NavFrame, Fire, Dispatch, Invoke, CatchNothing, Actions, Action, Execute, navigation
  <1>2. CASE Direct \/ Event \/ Ajax \/ Submit \/ Send \/ Store
    BY <1>2 DEF NavFrame, Direct, Event, Ajax, Submit, Send, Store, navigation
  <1>3. CASE Completed
    BY <1>3 DEF NavFrame, Completed
  <1>4. CASE HashStore
    BY <1>4 DEF NavFrame, HashStore
  <1>5. CASE Callback \/ CaughtNothing \/ BreakCallbacks
    BY <1>5 DEF NavFrame, Callback, CaughtNothing, BreakCallbacks, navigation
  <1>6. CASE Uncaught \/ BreakBefore \/ BreakCallback \/ RethrowCallback \/ ParseContext
    BY <1>6 DEF NavFrame, Uncaught, BreakBefore, BreakCallback, RethrowCallback, ParseContext, navigation
  <1>7. CASE Insert \/ Trigger \/ Break \/ Eval \/ Attach \/ Detach
    BY <1>7 DEF NavFrame, Insert, Trigger, Break, Eval, Attach, Detach, navigation
  <1>8. CASE User \/ Navigate \/ Announce \/ TimeOut \/ Tick
    BY <1>8 DEF NavFrame, User, Navigate, Announce, TimeOut, Tick, navigation
  <1>9. CASE Respond
    BY <1>9 DEF NavFrame, Respond, Answer, Fail, navigation
  <1> QED
    BY <1>1, <1>2, <1>3, <1>4, <1>5, <1>6, <1>7, <1>8, <1>9 DEF Next, Step

\* What waits carries what it did.
LEMMA WaitingCarryStep ==
    ASSUME HashInv, Next
    PROVE  WaitingCarry'
  <1>0. page' = page /\ Frame /\ NavFrame /\ Questions \subseteq Questions' /\ Refreshed(page, runs, runs', Questions')
    BY CarryFrame, Frames, NavFrames
  <1> DEFINE Asked1(w) == /\ IsAction(MetaAt(page, runs', w.x)) /\ w.data.n > 0
                          /\ AsksHash(page, runs', w.x) => Answers(Questions', w.data)
             Shown1(w) == ShowsAt(page, runs', w.x) => Answers(Questions', ResultAt(runs', w.x))
  <1>1. \A w \in requests \cup timers \cup intervals : Executable(runs, w.x)
    BY CarryFrame DEF TypeInv, WaitingOK
  <1>2. ASSUME NEW w \in requests PROVE Asked1(w)
    <2>1. /\ IsAction(MetaAt(page, runs, w.x)) /\ w.data.n > 0
          /\ AsksHash(page, runs, w.x) => Answers(Questions, w.data)
      BY DEF HashInv, WaitingCarry
    <2>2. MetaAt(page, runs', w.x) = MetaAt(page, runs, w.x) /\ AsksHash(page, runs', w.x) = AsksHash(page, runs, w.x)
      BY <1>1, SameMeta
    <2> QED
      BY <1>0, <2>1, <2>2, AnswersStay
  <1>3. ASSUME NEW w \in timers \cup intervals PROVE Shown1(w)
    <2>1. ShowsAt(page, runs, w.x) => Answers(Questions, ResultAt(runs, w.x))
      BY DEF HashInv, WaitingCarry
    <2>2. ShowsAt(page, runs', w.x) = ShowsAt(page, runs, w.x) /\ Executable(runs, w.x)
      BY <1>1, SameMeta
    <2> QED
      BY <1>0, <2>1, <2>2, AnswersStay DEF Refreshed
  <1>4. ASSUME NEW w \in requests' PROVE Asked1(w)
    <2>1. CASE w \in requests
      BY <1>2, <2>1
    <2>2. CASE Send
      <3>1. todo # <<>> /\ todo[1].op = "send"
        BY <2>2 DEF Send, At
      <3>2. requests' = requests \cup {[x |-> todo[1].x, ev |-> todo[1].ev, data |-> todo[1].data]}
        BY <2>2 DEF Send
      <3>3. Now(todo[1])
        BY <3>1, CarryHead
      <3>4. CASE w \notin requests
        <4>1. w.x = todo[1].x /\ w.data = todo[1].data
          BY <3>2, <3>4
        <4> QED
          BY <3>1, <3>3, <4>1 DEF Now, Carries
      <3> QED
        BY <2>1, <3>4
    <2>3. CASE requests' \subseteq requests
      BY <2>1, <2>3
    <2>4. Send \/ requests' \subseteq requests
      <3>1. CASE Execute \/ Eval
        BY <3>1 DEF Execute, Eval
      <3>2. CASE Respond
        BY <3>2 DEF Respond, Answer, Fail
      <3>3. CASE TimeOut
        BY <3>3 DEF TimeOut
      <3> QED
        BY <1>0, <3>1, <3>2, <3>3 DEF Frame
    <2> QED
      BY <2>2, <2>3, <2>4
  <1>5. ASSUME NEW w \in timers' \cup intervals' PROVE Shown1(w)
    <2>1. CASE w \in timers \cup intervals
      BY <1>3, <2>1
    <2>2. CASE Execute
      <3>1. todo # <<>> /\ todo[1].op = "execute"
        BY <2>2 DEF Execute, At
      <3> DEFINE waiting == [x |-> todo[1].x, ev |-> todo[1].ev, n |-> clock + 1]
      <3>2. /\ timers' = timers \/ timers' = timers \cup {waiting}
            /\ intervals' = intervals \/ intervals' = intervals \cup {waiting}
        BY <2>2 DEF Execute, timing
      <3>3. Now(todo[1])
        BY <3>1, CarryHead
      <3>4. CASE w \notin timers \cup intervals
        <4>1. w.x = todo[1].x
          BY <3>2, <3>4
        <4> QED
          BY <3>1, <3>3, <4>1 DEF Now, Carries
      <3> QED
        BY <2>1, <3>4
    <2>3. CASE timers' \cup intervals' \subseteq timers \cup intervals
      BY <2>1, <2>3
    <2>4. Execute \/ timers' \cup intervals' \subseteq timers \cup intervals
      <3>1. CASE Send
        BY <3>1 DEF Send, timing
      <3>2. CASE Eval
        BY <3>2 DEF Eval
      <3>3. CASE Respond
        BY <3>3 DEF Respond, Answer, Fail, timing
      <3>4. CASE TimeOut
        BY <3>4 DEF TimeOut
      <3> QED
        BY <1>0, <3>1, <3>2, <3>3, <3>4 DEF Frame
    <2> QED
      BY <2>2, <2>3, <2>4
  <1>6. ASSUME NEW s \in storage' PROVE KeptFor(s.key, s.value)
    <2>1. CASE s \in storage
      BY <2>1 DEF HashInv, WaitingCarry
    <2>2. CASE Store
      <3>1. todo # <<>> /\ todo[1].op = "store"
        BY <2>2 DEF Store, At
      <3> DEFINE item == [key |-> todo[1].key, value |-> todo[1].value]
      <3>2. storage' \subseteq storage \cup {item}
        BY <2>2 DEF Store
      <3>3. Now(todo[1])
        BY <3>1, CarryHead
      <3>4. CASE s \notin storage
        <4>1. s = item
          BY <3>2, <3>4
        <4>2. s.key = todo[1].key /\ s.value = todo[1].value
          BY <4>1
        <4> QED
          BY <3>1, <3>3, <4>2 DEF Now, Carries
      <3> QED
        BY <2>1, <3>4
    <2> QED
      BY <1>0, <2>1, <2>2 DEF NavFrame
  <1> QED
    BY <1>0, <1>4, <1>5, <1>6 DEF WaitingCarry

\* An Insert shows its result in its target.
LEMMA InsertShows ==
    ASSUME Insert
    PROVE  \/ UNCHANGED shown
           \/ shown' = [shown EXCEPT ![Meta(todo[1].x).target] = ResultOf(todo[1].x)]
  BY DEF Insert

\* What was asked and what is shown keep their shape.
LEMMA RecallsStep ==
    ASSUME HashInv, Next
    PROVE  RecallsAsks'
  <1>1. "asks" \in DOMAIN history' /\ IsSeq(history'.asks)
    BY QuestionsGrow DEF HashInv
  <1>2. shown = [e \in Element |-> shown[e]]
    BY DEF HashInv, RecallsAsks
  <1>3. \/ UNCHANGED shown
        \/ \E t, d : shown' = [shown EXCEPT ![t] = d]
    BY NavFrames, InsertShows DEF NavFrame
  <1>4. shown' = [e \in Element |-> shown'[e]]
    BY <1>2, <1>3
  <1> QED
    BY <1>1, <1>4 DEF RecallsAsks

-------------------------------------------------------------------------------
(* The inductive invariant *)

\* Where a redirect leads.
LEMMA RedirectLeads ==
    ASSUME NEW r, NEW after, RedirectTo(r, after)
    PROVE  \/ r.to = "hash" /\ hash' = hash /\ SameHash(r.hash, hash) /\ leaving' = leaving
           \/ r.to = "hash" /\ hash' = r.hash /\ leaving' = leaving
           \/ r.to = "page" /\ hash' = hash /\ leaving' = TRUE
  BY DEF RedirectTo, navigation

\* What a Store makes of the hash.
LEMMA StoreLeads ==
    ASSUME HashInv, Next, HashStore, NEW c, c = Meta(todo[1].x).change,
           NEW fp, fp = Changed(c), NEW href, href = ToHref(hash, fp)
    PROVE  /\ ChangeOK(c) /\ IsFparams(fp) /\ IsHash(href)
           /\ \/ href # NoHash /\ hash' = hash /\ SameHash(href, hash) /\ leaving' = leaving
              \/ href # NoHash /\ hash' = href /\ leaving' = leaving
              \/ href = NoHash /\ hash' = hash /\ leaving' = TRUE
  <1>1. AtRun("Store")
    BY DEF HashStore
  <1>2. PICK x : x = todo[1].x
    OBVIOUS
  <1>3. Executable(runs, x) /\ Meta(x).type = "Store"
    BY <1>1, <1>2, AtRunHead
  <1>4. page \in Page /\ AreRuns(page, runs)
    BY DEF HashInv, TypeInv
  <1> DEFINE metas == page.metas[runs[x[1]][x[2]].name]
  <1>5. x[1] \in Element /\ x[2] \in DOMAIN runs[x[1]] /\ x[3] \in DOMAIN runs[x[1]][x[2]].event
    BY <1>3 DEF Executable
  <1>6. runs[x[1]][x[2]].name \in DOMAIN page.metas /\ DOMAIN runs[x[1]][x[2]].event = DOMAIN metas
    BY <1>4, <1>5, RunFacts DEF MetasOf
  <1>7. Meta(x) = metas[x[3]] /\ x[3] \in DOMAIN metas
    BY <1>5, <1>6, ZenonT(30) DEF Meta, RunOf
  <1>8. ChangeOK(c)
    BY <1>2, <1>3, <1>4, <1>6, <1>7, HashFacts, Zenon
  <1>9. IsFparams(fp)
    <2>1. IsHash(hash) /\ c.prefix \in ToSet(PrefixOrder) /\ IsText(c.value)
      BY <1>8 DEF HashInv, ChangeOK
    <2> QED
      BY <2>1, ChangedFparams
  <1>10. IsHash(href)
    BY <1>9, HrefParse
  <1>11. PICK r : r = (IF href = NoHash THEN ToPage ELSE ToHash(href)) /\ RedirectTo(r, <<>>)
    BY DEF HashStore
  <1>12. \/ r.to = "hash" /\ hash' = hash /\ SameHash(r.hash, hash) /\ leaving' = leaving
         \/ r.to = "hash" /\ hash' = r.hash /\ leaving' = leaving
         \/ r.to = "page" /\ hash' = hash /\ leaving' = TRUE
    BY <1>11, RedirectLeads
  <1>13. CASE href = NoHash
    <2>1. r.to = "page"
      BY <1>11, <1>13 DEF ToPage
    <2> QED
      BY <1>8, <1>9, <1>10, <1>12, <1>13, <2>1
  <1>14. CASE href # NoHash
    <2>1. r.to = "hash" /\ r.hash = href
      BY <1>11, <1>14 DEF ToHash
    <2> QED
      BY <1>8, <1>9, <1>10, <1>12, <1>14, <2>1
  <1> QED
    BY <1>13, <1>14

\* Where a completion leads.
LEMMA CompletedLeads ==
    ASSUME HashInv, Next, Completed
    PROVE  /\ IsHash(hash')
           /\ leaving' = leaving \/ (hash' = hash /\ leaving' = TRUE)
  <1>1. todo # <<>> /\ todo[1].op = "complete"
    BY DEF Completed, At
  <1>2. IsHash(todo[1].result.redirect.hash)
    <2>1. Carries(page, runs, Questions, todo[1])
      BY <1>1, CarryHead
    <2> QED
      BY <1>1, <2>1 DEF Carries
  <1>3. \/ RedirectTo(todo[1].result.redirect, <<>>)
        \/ hash' = hash /\ leaving' = leaving
    BY DEF Completed, navigation
  <1>4. IsHash(hash)
    BY DEF HashInv
  <1> QED
    BY <1>2, <1>3, <1>4, RedirectLeads

\* The hash stays one.
LEMMA HashStep ==
    ASSUME HashInv, Next
    PROVE  IsHash(hash')
  <1>1. IsHash(hash) /\ page \in Page
    BY CarryFrame DEF HashInv
  <1>2. CASE Completed
    BY <1>2, CompletedLeads
  <1>3. CASE HashStore
    BY <1>1, <1>3, StoreLeads
  <1>4. CASE Navigate
    <2>1. hash' \in page.hashes
      BY <1>4 DEF Navigate
    <2> QED
      BY <1>1, <2>1, HashFacts
  <1>5. CASE UNCHANGED hash
    BY <1>1, <1>5
  <1> QED
    BY <1>2, <1>3, <1>4, <1>5, NavFrames DEF NavFrame

\* The inductive invariant about the hash and what answers it holds in every state.
THEOREM HashInvariant == Spec => []HashInv
  <1>1. Init => HashInv
    <2> SUFFICES ASSUME Init PROVE HashInv
      OBVIOUS
    <2>1. TypeInv /\ page \in Page
      BY TypeInit DEF TypeInv
    <2>2. RecallsAsks
      BY IsSeqEmpty DEF Init, RecallsAsks
    <2>3. IsHash(hash)
      BY <2>1, HashFacts DEF Init
    <2>4. AllCarry(page, runs, Questions, todo)
      <3>1. todo = <<ParseOp("document")>>
        BY DEF Init
      <3> QED
        BY <3>1, PlainCarry, PlainKinds
    <2>5. WaitingCarry
      BY DEF Init, WaitingCarry
    <2> QED
      BY <2>1, <2>2, <2>3, <2>4, <2>5 DEF HashInv
  <1>2. HashInv /\ [Next]_vars => HashInv'
    <2>1. ASSUME HashInv, Next PROVE HashInv'
      <3>1. TypeInv'
        BY <2>1, TypeStep DEF HashInv
      <3>2. RecallsAsks' /\ WaitingCarry'
        BY <2>1, RecallsStep, WaitingCarryStep
      <3>3. IsHash(hash')
        BY <2>1, HashStep
      <3>4. AllCarry(page', runs', Questions', todo')
        BY <2>1, CarryStep
      <3> QED
        BY <3>1, <3>2, <3>3, <3>4 DEF HashInv
    <2>2. ASSUME HashInv, UNCHANGED vars PROVE HashInv'
      <3>1. TypeInv'
        BY <2>2, TypeStutter DEF HashInv
      <3>2. Questions' = Questions
        BY <2>2 DEF Questions, vars
      <3>3. RecallsAsks' /\ WaitingCarry'
        BY <2>2, <3>2 DEF HashInv, RecallsAsks, WaitingCarry, vars
      <3>4. IsHash(hash') /\ AllCarry(page', runs', Questions', todo')
        BY <2>2, <3>2 DEF HashInv, vars
      <3> QED
        BY <3>1, <3>3, <3>4 DEF HashInv
    <2> QED
      BY <2>1, <2>2
  <1> QED
    BY <1>1, <1>2, PTL DEF Spec

-------------------------------------------------------------------------------
(* Storing one parameter *)

\* Only a Store runs while one is at the head.
LEMMA OnlyStores ==
    ASSUME AtRun("Store"), Next
    PROVE  HashStore
  <1>1. todo # <<>> /\ todo[1].op = "run" /\ Meta(todo[1].x).type = "Store"
    BY DEF AtRun, At
  <1>2. ~ (Fire \/ Dispatch \/ Invoke \/ CatchNothing \/ Actions \/ Action \/ Execute \/ Send \/ Store)
    BY <1>1 DEF Fire, Dispatch, Invoke, CatchNothing, Actions, Action, Execute, Send, Store, At
  <1>3. ~ (Completed \/ Callback \/ CaughtNothing \/ BreakCallbacks \/ ParseContext)
    BY <1>1 DEF Completed, Callback, CaughtNothing, BreakCallbacks, ParseContext, At
  <1>4. ~ (Uncaught \/ BreakBefore \/ BreakCallback \/ RethrowCallback)
    BY <1>1 DEF Uncaught, BreakBefore, BreakCallback, RethrowCallback, At
  <1>5. ~ (Direct \/ Event \/ Ajax \/ Submit \/ Insert \/ Trigger \/ Break \/ Eval \/ Attach \/ Detach)
    BY <1>1 DEF Direct, Event, Ajax, Submit, Insert, Trigger, Break, Eval, Attach, Detach, AtRun
  <1>6. ~ (User \/ Navigate \/ Announce \/ Respond \/ TimeOut \/ Tick)
    BY <1>1 DEF User, Navigate, Announce, Respond, Answer, Fail, TimeOut, Tick, Idle
  <1> QED
    BY <1>2, <1>3, <1>4, <1>5, <1>6 DEF Next, Step

\* A parameter that the change c keeps so that it can be read back, and one that it sets.
KeptParam(c, before, pk) == ~ c.replace /\ pk \in DOMAIN before /\ pk[2] # NoKey /\ ~ Odd(before[pk])
SetsParam(c) == c.verb # "remove" /\ c.value # Empty

\* The parameters after a change: the one that was stored, and the others as they were; where no
\* value ended in ! none does.
ChangeKeeps(c, fp, before, it) ==
    /\ DOMAIN fp.value \subseteq {<<"root", NoKey>>} => NothingLeft(c)
    /\ \A pk : KeptParam(c, before, pk) /\ pk # it =>
          pk \in DOMAIN fp.value /\ DecodePair(UrlEncode(fp.value[pk])) = before[pk]
    /\ SetsParam(c) =>
          it \in DOMAIN fp.value /\ (Odd(c.value) \/ DecodePair(UrlEncode(fp.value[it])) = c.value)
    /\ \A p : ~ RunsOn(c, p) => QuietIn(fp, p)

\* A change keeps them so.
LEMMA ChangedIs ==
    ASSUME IsHash(hash), NEW c, ChangeOK(c), NEW fp, fp = Changed(c),
           NEW before, before = Parse(hash), NEW it, it = <<c.prefix, c.key>>
    PROVE  ChangeKeeps(c, fp, before, it)
  <1> DEFINE removes == c.verb = "remove" \/ (c.verb = "insert" /\ c.value = Empty)
             fresh == c.verb = "insert" /\ c.replace
  <1>1. PICK was : /\ ChangedFrom(c, was)
                   /\ IF removes THEN Removed(was, it, fp) ELSE Added(was, it, UrlEncode(c.value), fp)
    <2>1. c.prefix \in ToSet(PrefixOrder) /\ IsText(c.value)
      BY DEF ChangeOK
    <2> QED
      BY <2>1, ChangedFparams
  <1>2. /\ fresh => DOMAIN was.value = {}
        /\ ~ fresh => /\ DOMAIN was.value = DOMAIN before
                      /\ \A pk \in DOMAIN was.value : was.value[pk] = before[pk] \/ was.value[pk] = UrlEncode(before[pk])
    BY <1>1, Zenon DEF ChangedFrom
  <1>3. removes => /\ DOMAIN fp.value = DOMAIN was.value \ {it}
                   /\ \A pk \in DOMAIN fp.value : fp.value[pk] = was.value[pk]
    BY <1>1, Zenon DEF Removed
  <1>4. ~ removes => /\ DOMAIN fp.value = DOMAIN was.value \cup {it} /\ fp.value[it] = UrlEncode(c.value)
                     /\ \A pk \in DOMAIN was.value : pk # it => fp.value[pk] = was.value[pk]
    BY <1>1, Zenon DEF Added
  <1>5. /\ SetsParam(c) => ~ removes
        /\ removes => c.verb = "remove" \/ c.value = Empty
        /\ fresh => c.replace
    BY Zenon DEF SetsParam
  <1> HIDE DEF removes, fresh
  <1>6. ASSUME DOMAIN fp.value \subseteq {<<"root", NoKey>>} PROVE NothingLeft(c)
    <2>1. removes
      <3>1. it # <<"root", NoKey>>
        <4>1. c.key # NoKey
          BY DEF ChangeOK
        <4> QED
          BY <4>1
      <3> QED
        BY <1>4, <1>6, <3>1
    <2>2. c.replace \/ DOMAIN before \subseteq {it, <<"root", NoKey>>}
      BY <1>2, <1>3, <1>5, <1>6, <2>1
    <2> QED
      BY <1>5, <2>1, <2>2, Zenon DEF NothingLeft
  <1>7. ASSUME NEW pk, KeptParam(c, before, pk), pk # it
        PROVE  pk \in DOMAIN fp.value /\ DecodePair(UrlEncode(fp.value[pk])) = before[pk]
    <2>1. ~ c.replace /\ pk \in DOMAIN before /\ ~ Odd(before[pk])
      BY <1>7 DEF KeptParam
    <2>2. pk \in DOMAIN was.value /\ (was.value[pk] = before[pk] \/ was.value[pk] = UrlEncode(before[pk]))
      BY <1>2, <1>5, <2>1
    <2>3. pk \in DOMAIN fp.value /\ fp.value[pk] = was.value[pk]
      BY <1>3, <1>4, <1>7, <2>2
    <2>4. IsText(before[pk])
      BY <2>1, ParsedFparams DEF IsFparams, IsParam
    <2>5. DecodePair(UrlEncode(before[pk])) = before[pk] /\ DecodePair(UrlEncode(UrlEncode(before[pk]))) = before[pk]
      BY <2>1, <2>4, Decoded
    <2> QED
      BY <2>2, <2>3, <2>5
  <1>8. ASSUME SetsParam(c)
        PROVE  it \in DOMAIN fp.value /\ (Odd(c.value) \/ DecodePair(UrlEncode(fp.value[it])) = c.value)
    <2>1. it \in DOMAIN fp.value /\ fp.value[it] = UrlEncode(c.value)
      BY <1>4, <1>5, <1>8
    <2>2. IsText(c.value)
      BY DEF ChangeOK
    <2> QED
      BY <2>1, <2>2, Decoded
  <1>9. ASSUME NEW p, ~ RunsOn(c, p) PROVE QuietIn(fp, p)
    <2>1. /\ p = c.prefix => ~ EndsInBang(c.value)
          /\ \A pk \in DOMAIN before : pk[1] = p => ~ EndsInBang(before[pk])
      BY <1>9 DEF RunsOn
    <2>2. ASSUME NEW pk \in DOMAIN was.value, pk[1] = p PROVE ~ EndsInBang(was.value[pk])
      <3>1. pk \in DOMAIN before /\ (was.value[pk] = before[pk] \/ was.value[pk] = UrlEncode(before[pk]))
        BY <1>2
      <3>2. IsText(before[pk]) /\ ~ EndsInBang(before[pk])
        BY <2>1, <2>2, <3>1, ParsedFparams DEF IsFparams, IsParam
      <3> QED
        BY <3>1, <3>2, EncodedText
    <2>3. p = c.prefix => ~ EndsInBang(UrlEncode(c.value))
      BY <2>1, EncodedText DEF ChangeOK
    <2>4. it[1] = c.prefix
      OBVIOUS
    <2>5. ASSUME NEW pk \in DOMAIN fp.value, pk[1] = p PROVE ~ EndsInBang(fp.value[pk])
      <3>1. CASE removes
        BY <1>3, <2>2, <2>5, <3>1
      <3>2. CASE ~ removes /\ pk = it
        BY <1>4, <2>3, <2>4, <2>5, <3>2
      <3>3. CASE ~ removes /\ pk # it
        BY <1>4, <2>2, <2>5, <3>3
      <3> QED
        BY <3>1, <3>2, <3>3
    <2> QED
      BY <2>5 DEF QuietIn
  <1> QED
    BY <1>6, <1>7, <1>8, <1>9 DEF ChangeKeeps

\* A Store keeps the rest.
LEMMA StoreKeeps ==
    ASSUME HashInv, Next, AtRun("Store"), NEW c, c = Meta(todo[1].x).change
    PROVE  IF leaving' THEN leaving \/ NothingLeft(c) ELSE StoreStep(c)
  <1>1. HashStore
    BY OnlyStores
  <1>2. PICK fp : fp = Changed(c)
    OBVIOUS
  <1>3. PICK href : href = ToHref(hash, fp)
    OBVIOUS
  <1>4. /\ ChangeOK(c) /\ IsFparams(fp) /\ IsHash(href)
        /\ \/ href # NoHash /\ hash' = hash /\ SameHash(href, hash) /\ leaving' = leaving
           \/ href # NoHash /\ hash' = href /\ leaving' = leaving
           \/ href = NoHash /\ hash' = hash /\ leaving' = TRUE
    BY <1>1, <1>2, <1>3, StoreLeads
  <1>5. PICK before, it : before = Parse(hash) /\ it = <<c.prefix, c.key>>
    OBVIOUS
  <1>6. IsHash(hash)
    BY DEF HashInv
  <1>7. ChangeKeeps(c, fp, before, it)
    BY <1>2, <1>4, <1>5, <1>6, ChangedIs
  <1>8. href = NoHash => NothingLeft(c)
    <2>1. href = NoHash => DOMAIN fp.value \subseteq {<<"root", NoKey>>}
      BY <1>3, <1>4, HrefParse
    <2> QED
      BY <1>7, <2>1 DEF ChangeKeeps
  <1>9. ASSUME href # NoHash, hash' = href \/ (hash' = hash /\ SameHash(href, hash))
        PROVE  StoreStep(c)
    <2>1. href = HrefMade(hash, fp)
      BY <1>3, <1>4, <1>9, HrefParse
    <2>2. PICK after : after = Parse(hash')
      OBVIOUS
    <2>3. after = Parse(href)
      BY <1>4, <1>6, <1>9, <2>2, SameParse
    <2>4. ASSUME NEW p, NEW k, k # NoKey, <<p, k>> \in DOMAIN fp.value, ~ RunsOn(c, p)
          PROVE  <<p, k>> \in DOMAIN after /\ after[<<p, k>>] = DecodePair(UrlEncode(fp.value[<<p, k>>]))
      <3>1. QuietIn(fp, p)
        BY <1>7, <2>4 DEF ChangeKeeps
      <3> QED
        BY <1>4, <2>1, <2>3, <2>4, <3>1, MadeParses
    <2>5. ASSUME NEW pk \in DOMAIN before \ {it}, ~ c.replace, pk[2] # NoKey, ~ Odd(before[pk]), ~ RunsOn(c, pk[1])
          PROVE  pk \in DOMAIN after /\ after[pk] = before[pk]
      <3>1. pk = <<pk[1], pk[2]>>
        BY <1>5, ParseDomain
      <3>2. PICK p, k : p = pk[1] /\ k = pk[2] /\ pk = <<p, k>>
        BY <3>1
      <3>3. pk \in DOMAIN fp.value /\ DecodePair(UrlEncode(fp.value[pk])) = before[pk]
        <4>1. KeptParam(c, before, pk)
          BY <2>5 DEF KeptParam
        <4> QED
          BY <1>7, <4>1 DEF ChangeKeeps
      <3> QED
        BY <2>4, <2>5, <3>2, <3>3
    <2>6. ASSUME c.verb # "remove", c.value # Empty, ~ RunsOn(c, c.prefix)
          PROVE  it \in DOMAIN after /\ (Odd(c.value) \/ after[it] = c.value)
      <3>1. it \in DOMAIN fp.value /\ (Odd(c.value) \/ DecodePair(UrlEncode(fp.value[it])) = c.value)
        <4>1. SetsParam(c)
          BY <2>6 DEF SetsParam
        <4> QED
          BY <1>7, <4>1 DEF ChangeKeeps
      <3>2. PICK p, k : p = c.prefix /\ k = c.key /\ k # NoKey
        BY <1>4 DEF ChangeOK
      <3>3. it = <<p, k>>
        BY <1>5, <3>2
      <3> QED
        BY <2>4, <2>6, <3>1, <3>2, <3>3
    <2>7. ASSUME Len(hash) = 1, NEW p, p = hash[1].prefix, p = "root" \/ \E pk \in DOMAIN after : pk[1] = p
          PROVE  RouteOf(hash', p) = RouteOf(hash, p)
      <3>1. \E i \in DOMAIN href : href[i].prefix = p
        <4>1. CASE p = "root"
          BY <1>4, <2>1, <4>1, MadeIs
        <4>2. CASE \E pk \in DOMAIN after : pk[1] = p
          BY <2>3, <4>2, ParseDomain
        <4> QED
          BY <2>7, <4>1, <4>2
      <3>2. RouteOf(href, p) = RouteOf(hash, p)
        BY <1>4, <1>6, <2>1, <2>7, <3>1, RouteKept
      <3> QED
        BY <1>9, <3>2
    <2> QED
      BY <1>5, <2>2, <2>5, <2>6, <2>7 DEF StoreStep
  <1>10. CASE href = NoHash
    <2>1. NothingLeft(c) /\ leaving' = TRUE
      BY <1>4, <1>8, <1>10
    <2> QED
      BY <2>1
  <1>11. CASE href # NoHash
    <2>1. leaving' = leaving /\ (hash' = href \/ (hash' = hash /\ SameHash(href, hash)))
      BY <1>4, <1>11
    <2>2. StoreStep(c)
      BY <1>9, <1>11, <2>1, Zenon
    <2> QED
      BY <2>1, <2>2
  <1> QED
    BY <1>10, <1>11

\* Storing one parameter in the hash, on any page and for any hash, keeps the other parameters
\* and the route and can be read back, and leaves the page only when nothing is left.  Not kept are
\* the parameters of a prefix with a value that ends in !, into which toHref writes the one that
\* follows (RunsOn), values with a plus or an escape (Odd), and a parameter without a name.
THEOREM StoreKeepsTheRestAlways == Spec => StoreKeepsTheRest
  <1> DEFINE Keeps == AtRun("Store") =>
                         LET c == Meta(todo[1].x).change
                         IN  IF leaving' THEN leaving \/ NothingLeft(c) ELSE StoreStep(c)
  <1>1. HashInv /\ [Next]_vars => [Keeps]_vars
    BY StoreKeeps
  <1>2. Spec => [][Keeps]_vars
    BY <1>1, HashInvariant, PTL DEF Spec
  <1> QED
    BY <1>2 DEF StoreKeepsTheRest

-------------------------------------------------------------------------------
(* HashNavigation *)


\* An Ajax that reads the hash asks.
LEMMA AjaxMaps ==
    ASSUME HashInv, Next, HashDriven, Ajax, history'.asks = Append(history.asks, Parse(hash))
    PROVE  Reload!Ask
  <1>1. hash' = hash /\ leaving' = leaving /\ shown' = shown /\ page' = page
    BY DEF Ajax, navigation, rest
  <1> QED
    BY <1>1 DEF Reload!Ask, HashDriven

\* An Insert into the element shows the answer to a question.
LEMMA InsertMaps ==
    ASSUME HashInv, Next, HashDriven, Insert, history'.asks = history.asks
    PROVE  Reload!Next
  <1>1. hash' = hash /\ leaving' = leaving /\ page' = page
    BY DEF Insert, navigation, rest
  <1> DEFINE r == page.reloads
             x == todo[1].x
             d == ResultOf(x)
  <1>2. r \in Element /\ shown = [e \in Element |-> shown[e]]
    BY CarryFrame, HashFacts DEF HashDriven, HashInv, RecallsAsks
  <1>3. CASE UNCHANGED shown
    BY <1>1, <1>3 DEF Reload!Next, Reload!Navigate, HashDriven
  <1>4. CASE shown' = [shown EXCEPT ![Meta(x).target] = d] /\ Meta(x).target # r
    <2>1. shown'[r] = shown[r]
      BY <1>2, <1>4
    <2> QED
      BY <1>1, <2>1 DEF Reload!Next, Reload!Navigate, HashDriven
  <1>5. CASE shown' = [shown EXCEPT ![Meta(x).target] = d] /\ Meta(x).target = r
    <2>1. shown'[r] = d
      BY <1>2, <1>5
    <2>2. AtRun("Insert")
      BY DEF Insert
    <2>3. todo # <<>> /\ todo[1].op = "run" /\ Executable(runs, x) /\ Meta(x).type = "Insert"
      BY <2>2, AtRunHead
    <2>4. ShowsAt(page, runs, x)
      BY <1>5, <2>3, SameMeta, ZenonT(30) DEF ShowsAt, HashDriven
    <2>5. Answers(Questions, d)
      <3>1. Carries(page, runs, Questions, todo[1])
        BY <2>3, CarryHead
      <3> QED
        BY <2>3, <2>4, <3>1, Zenon DEF Carries, ResultAt, ResultOf, RunOf
    <2>6. PICK i \in DOMAIN history.asks : d.asked = history.asks[i]
      BY <2>5 DEF Answers, Questions
    <2>7. d.n > 0
      BY <2>5 DEF Answers
    <2>8. Reload!Show
      BY <1>1, <2>1, <2>6, <2>7 DEF Reload!Show, HashDriven
    <2> QED
      BY <2>8 DEF Reload!Next
  <1> QED
    BY <1>3, <1>4, <1>5, InsertShows

\* Every step is one of HashNavigation.
LEMMA ReloadStep ==
    ASSUME HashInv, Next
    PROVE  Reload!Next
  <1>0. page' = page /\ leaving \in BOOLEAN /\ NavFrame /\ AsksFrame
    BY CarryFrame, NavFrames, AsksFrames DEF HashInv, TypeInv, CountersOK, RecallsAsks
  <1>1. CASE ~ HashDriven
    BY <1>0, <1>1 DEF Reload!Next, Reload!Navigate, HashDriven
  <1>2. CASE HashDriven /\ history'.asks # history.asks
    <2>1. Reload!Ask
      BY <1>0, <1>2, AjaxMaps DEF AsksFrame
    <2> QED
      BY <2>1 DEF Reload!Next
  <1>3. CASE HashDriven /\ history'.asks = history.asks
    <2>1. CASE Insert
      BY <1>3, <2>1, InsertMaps
    <2>2. CASE UNCHANGED <<shown, leaving>>
      BY <1>0, <1>3, <2>2 DEF Reload!Next, Reload!Navigate, HashDriven
    <2>3. CASE UNCHANGED shown /\ hash' = hash /\ leaving' = TRUE
      <3>1. CASE leaving = TRUE
        BY <2>2, <2>3, <3>1
      <3>2. CASE leaving = FALSE
        <4>1. Reload!Leave
          BY <1>0, <1>3, <2>3, <3>2 DEF Reload!Leave, HashDriven
        <4> QED
          BY <4>1 DEF Reload!Next
      <3> QED
        BY <1>0, <3>1, <3>2
    <2>4. CASE Completed
      <3>1. UNCHANGED shown
        BY <2>4 DEF Completed
      <3> QED
        BY <2>2, <2>3, <2>4, <3>1, CompletedLeads
    <2>5. CASE HashStore
      <3>1. UNCHANGED shown
        BY <2>5 DEF HashStore
      <3> QED
        BY <2>2, <2>3, <2>5, <3>1, StoreLeads
    <2> QED
      BY <1>0, <2>1, <2>2, <2>4, <2>5 DEF NavFrame
  <1> QED
    BY <1>1, <1>2, <1>3

\* An element that is driven by the hash asks for nothing but the hash of the moment and shows
\* nothing but answers to what it asked for, on every page and in every order of the answers:
\* each step of the engine is a step of HashNavigation or none.
THEOREM ReloadSafeAlways == Spec => ReloadSafe
  <1>1. Init => Reload!Init
    <2> SUFFICES ASSUME Init PROVE Reload!Init
      OBVIOUS
    <2>1. page \in Page /\ shown = [e \in Element |-> NoData] /\ history.asks = <<>>
      BY DEF Init
    <2>2. HashDriven => shown[page.reloads].n = 0
      BY <2>1, HashFacts DEF HashDriven, NoData
    <2> QED
      BY <2>1, <2>2 DEF Reload!Init
  <1>2. HashInv /\ [Next]_vars => [Reload!Next]_(Reload!nav)
    <2>1. CASE Next
      BY <2>1, ReloadStep
    <2>2. CASE UNCHANGED vars
      BY <2>2 DEF vars, Reload!nav, HashDriven
    <2> QED
      BY <2>1, <2>2
  <1> QED
    BY <1>1, <1>2, HashInvariant, PTL DEF Spec, ReloadSafe, Reload!Safety

-------------------------------------------------------------------------------
(* The requests that are counted: positions *)

\* A set of positions, without the one at the head, moved by d.
MovedSet(E, d) == {j - d : j \in E \ {1}}

\* It has as many elements.
LEMMA MovedSize ==
    ASSUME NEW E, IsFiniteSet(E), E \subseteq Int, NEW d \in Int, NEW M, M = MovedSet(E, d)
    PROVE  /\ IsFiniteSet(M) /\ Cardinality(M) \in Nat /\ Cardinality(E) \in Nat
           /\ Cardinality(M) = Cardinality(E) - IF 1 \in E THEN 1 ELSE 0
  <1>1. PICK S : S = E \ {1}
    OBVIOUS
  <1>2. IsFiniteSet(S) /\ Cardinality(S) = IF 1 \in E THEN Cardinality(E) - 1 ELSE Cardinality(E)
    BY <1>1, FS_RemoveElement
  <1>3. Cardinality(E) \in Nat /\ Cardinality(S) \in Nat
    BY <1>2, FS_CardinalityType
  <1> DEFINE f == [j \in S |-> j - d]
  <1>4. S \subseteq Int /\ M = {j - d : j \in S}
    BY <1>1 DEF MovedSet
  <1>5. f \in [S -> M] /\ \A j \in S : f[j] = j - d
    BY <1>4
  <1>6. \A i, j \in S : f[i] = f[j] => i = j
    BY <1>4, <1>5
  <1>7. \A m \in M : \E j \in S : f[j] = m
    BY <1>4, <1>5
  <1> HIDE DEF f
  <1>8. f \in Bijection(S, M)
    <2>1. f \in Injection(S, M)
      BY <1>5, <1>6 DEF Injection, IsInjective
    <2>2. f \in Surjection(S, M)
      BY <1>5, <1>7 DEF Surjection
    <2> QED
      BY <2>1, <2>2 DEF Bijection
  <1>9. ExistsBijection(S, M)
    BY <1>8 DEF ExistsBijection
  <1>10. IsFiniteSet(M) /\ Cardinality(M) = Cardinality(S)
    BY <1>2, <1>9, FS_Bijection
  <1> QED
    BY <1>2, <1>3, <1>10

\* E2 is what is left of E, moved by d, with what is at the new positions F: that part is G.
Recount(E, E2, d, F, G) ==
    /\ IsFiniteSet(E) /\ E \subseteq Int /\ d \in Int /\ IsFiniteSet(F)
    /\ \A i \in E2 : i \in F \/ (i + d \in E /\ i + d > 1 /\ i \in Int)
    /\ \A j \in E : j # 1 => j - d \in E2 /\ j > 1
    /\ \A i \in F : i \in Int /\ ~ (i + d > 1)
    /\ \A i : i \in G <=> i \in F /\ i \in E2

\* What is at new positions and what was moved: the numbers add up.
LEMMA Recounted ==
    ASSUME NEW E, NEW E2, NEW d, NEW F, NEW G, Recount(E, E2, d, F, G), NEW h, h = IF 1 \in E THEN 1 ELSE 0
    PROVE  /\ IsFiniteSet(E2) /\ Cardinality(E2) \in Nat /\ Cardinality(E) \in Nat /\ Cardinality(G) \in Nat
           /\ Cardinality(E2) = Cardinality(G) + (Cardinality(E) - h)
  <1>0. /\ IsFiniteSet(E) /\ E \subseteq Int /\ d \in Int /\ IsFiniteSet(F)
        /\ \A i \in E2 : i \in F \/ (i + d \in E /\ i + d > 1 /\ i \in Int)
        /\ \A j \in E : j # 1 => j - d \in E2 /\ j > 1
        /\ \A i \in F : i \in Int /\ ~ (i + d > 1)
        /\ \A i : i \in G <=> i \in F /\ i \in E2
    BY DEF Recount
  <1>1. PICK M : M = MovedSet(E, d)
    OBVIOUS
  <1>2. /\ IsFiniteSet(M) /\ Cardinality(M) \in Nat /\ Cardinality(E) \in Nat
        /\ Cardinality(M) = Cardinality(E) - IF 1 \in E THEN 1 ELSE 0
    BY <1>0, <1>1, MovedSize
  <1>3. IsFiniteSet(G) /\ Cardinality(G) \in Nat
    <2>1. G \in SUBSET F
      BY <1>0
    <2> QED
      BY <1>0, <2>1, FS_Subset, FS_CardinalityType
  <1>4. M \subseteq E2
    BY <1>0, <1>1 DEF MovedSet
  <1>5. \A i \in E2 : i \in G \/ i \in M
    <2>1. ASSUME NEW i \in E2, i \notin F PROVE i \in M
      <3>1. i + d \in E /\ i + d > 1 /\ i \in Int
        BY <1>0, <2>1
      <3>2. i + d \in E \ {1} /\ (i + d) - d = i
        BY <1>0, <3>1
      <3> QED
        BY <1>1, <3>2 DEF MovedSet
    <2> QED
      BY <1>0, <2>1
  <1>6. E2 = G \cup M
    BY <1>0, <1>4, <1>5
  <1>7. \A i \in M : i \notin G
    <2>1. ASSUME NEW j \in E \ {1} PROVE (j - d) \notin F
      <3>1. j > 1 /\ j \in Int /\ d \in Int
        BY <1>0, <2>1
      <3>2. PICK i : i = j - d
        OBVIOUS
      <3>3. i + d > 1
        BY <3>1, <3>2
      <3>4. \A k \in F : ~ (k + d > 1)
        BY <1>0
      <3> QED
        BY <3>2, <3>3, <3>4
    <2>2. \A i \in G : i \in F
      BY <1>0
    <2> QED
      BY <1>1, <2>1, <2>2 DEF MovedSet
  <1>8. G \cap M = {}
    BY <1>7
  <1>9. IsFiniteSet(E2) /\ Cardinality(E2) = Cardinality(G) + Cardinality(M) - Cardinality(G \cap M)
    BY <1>2, <1>3, <1>6, FS_Union
  <1>10. Cardinality(G \cap M) = 0
    BY <1>8, FS_EmptySet
  <1>11. Cardinality(E2) \in Nat
    BY <1>9, FS_CardinalityType
  <1>12. Cardinality(E2) = Cardinality(G) + Cardinality(M)
    BY <1>2, <1>3, <1>9, <1>10
  <1> QED
    BY <1>2, <1>3, <1>9, <1>11, <1>12

-------------------------------------------------------------------------------
(* The requests that are counted: what is counted *)

\* Where the events of a request are triggered, of the page and the runners that are given.
SentAt(pg, rs, x) ==
    IF MetaAt(pg, rs, x).type = "Submit" THEN Doc ELSE <<x[1], rs[x[1]][x[2]].incarnation>>

\* The element was removed, or never there: nobody hears an event that is triggered there.
Gone(nd, s) == s # Doc /\ ~ (s[1] \in Element /\ nd[s[1]] = s[2] /\ s[2] > 0)

\* A count that is to come: the event is to be triggered, or has still a part of its path ahead.
IsSend(o) == o.op = "send"
IsFire(o, type) == o.op = "fire" /\ o.type = type
Going(o, type) == IsFire(o, type) \/ (IsDispatch(o) /\ o.ev.type = type /\ o.path # <<>>)
Begins(o) == Going(o, "incajaxbefore")
Ends(o) == IsSend(o) \/ Going(o, "incajaxcomplete")
Tracked(o) == Counts(o) \/ IsDispatch(o)

BeginsAt == {i \in DOMAIN todo : Begins(todo[i])}
EndsAt == {i \in DOMAIN todo : Ends(todo[i])}

\* One operation: sites and numbers are not ahead of the clock.
AskOK(nd, c, o) ==
    /\ o.op = "fire" /\ o.type \in AjaxEvents => o.site[2] \in Nat /\ o.site[2] <= c
    /\ IsDispatch(o) => PathOK(nd, c, o.path)
    /\ IsSend(o) => o.data.n \in Nat /\ o.data.n <= c

\* Each request has a number of its own.
Numbered ==
    /\ IsFiniteSet(requests)
    /\ \A r \in requests : r.data.n \in Nat /\ r.data.n <= clock
    /\ \A i, j \in DOMAIN todo : i # j /\ IsSend(todo[i]) /\ IsSend(todo[j]) => todo[i].data.n # todo[j].data.n
    /\ \A i \in DOMAIN todo : \A r \in requests : IsSend(todo[i]) => todo[i].data.n # r.data.n
AskedOK == \A i \in DOMAIN todo : AskOK(node, clock, todo[i])

\* What is to be sent follows its IncAjaxBefore.
PairAt(ops, i) ==
    /\ i + 1 \in DOMAIN ops /\ IsSend(ops[i + 1])
    /\ SentAt(page, runs, ops[i + 1].x) = ops[i].site
Paired == Excused \/ \A i \in DOMAIN todo : IsFire(todo[i], "incajaxbefore") => PairAt(todo, i)

\* An element was removed that is to hear an IncAjaxComplete.
DoomedBy(o) ==
    \/ IsSend(o) /\ Gone(node, SentAt(page, runs, o.x))
    \/ IsFire(o, "incajaxcomplete") /\ Gone(node, o.site)
Doomed ==
    \/ \E i \in DOMAIN todo : DoomedBy(todo[i])
    \/ \E r \in requests : Gone(node, SentAt(page, runs, r.x))

\* The count is what has ended still to be counted, without what has still to be counted at all.
Balance ==
    \/ Excused \/ Doomed
    \/ history.busy = Cardinality(EndsAt) + Cardinality(requests) - Cardinality(BeginsAt)

BusyHistory == {"busy", "unheard", "dropped"} \subseteq DOMAIN history /\ history.busy \in Int

\* The inductive invariant.
BusyOK ==
    /\ BusyHistory
    /\ CountsItself(page) => Numbered /\ AskedOK /\ Paired /\ Balance

\* How a step moves the operations that are counted: F are the positions of new ones.
MovedBy(d, F) ==
    /\ d \in Int /\ IsFiniteSet(F)
    /\ \A i \in DOMAIN todo' : i \in F \/ Old(d, i) \/ ~ Tracked(todo'[i])
    /\ \A j \in DOMAIN todo : j # 1 /\ (Begins(todo[j]) \/ Ends(todo[j])) => Kept(d, j) \/ Excused'
    /\ \A i \in F : i \in DOMAIN todo' /\ ~ (i + d > 1)

\* What is counted is tracked.
LEMMA CountedTracked ==
    ASSUME NEW o
    PROVE  Begins(o) \/ Ends(o) => Tracked(o)
  BY DEF Begins, Ends, Going, IsFire, IsSend, Tracked, Counts, AjaxEvents

\* Positions are numbers from 1.
LEMMA TodoPlaces ==
    ASSUME TypeInv
    PROVE  /\ IsSeq(todo) /\ Len(todo) \in Nat /\ DOMAIN todo = 1..Len(todo) /\ IsFiniteSet(DOMAIN todo)
           /\ \A j \in DOMAIN todo : j \in Int /\ j # 1 => j > 1
           /\ DOMAIN todo \subseteq Int
  <1>1. IsSeq(todo)
    BY DEF TypeInv, OpsOK
  <1>2. Len(todo) \in Nat /\ DOMAIN todo = 1..Len(todo)
    BY <1>1, IsSeqDom
  <1>3. IsFiniteSet(1..Len(todo))
    BY <1>2, FS_Interval
  <1> QED
    BY <1>1, <1>2, <1>3

\* The same in the next state.
LEMMA NextPlaces ==
    ASSUME TypeInv'
    PROVE  DOMAIN todo' \subseteq Int
  <1>1. IsSeq(todo')
    BY DEF TypeInv, OpsOK
  <1>2. DOMAIN todo' = 1..Len(todo') /\ Len(todo') \in Nat
    BY <1>1, IsSeqDom
  <1> QED
    BY <1>2

\* The counts of a step: what is new, what is left and what was at the head.
LEMMA CountsMove ==
    ASSUME TypeInv, TypeInv', NEW d, NEW F, MovedBy(d, F), ~ Excused',
           NEW B, B = {i \in F : Begins(todo'[i])}, NEW E, E = {i \in F : Ends(todo'[i])}
    PROVE  /\ Cardinality(BeginsAt) \in Nat /\ Cardinality(EndsAt) \in Nat
           /\ Cardinality(B) \in Nat /\ Cardinality(E) \in Nat
           /\ Cardinality(BeginsAt') = Cardinality(B) + (Cardinality(BeginsAt) - IF 1 \in BeginsAt THEN 1 ELSE 0)
           /\ Cardinality(EndsAt') = Cardinality(E) + (Cardinality(EndsAt) - IF 1 \in EndsAt THEN 1 ELSE 0)
  <1>1. /\ IsFiniteSet(DOMAIN todo) /\ DOMAIN todo \subseteq Int
        /\ \A j \in DOMAIN todo : j # 1 => j > 1
    BY TodoPlaces
  <1>2. DOMAIN todo' \subseteq Int
    BY NextPlaces
  <1>3. d \in Int /\ IsFiniteSet(F) /\ \A i \in F : i \in DOMAIN todo' /\ ~ (i + d > 1)
    BY DEF MovedBy
  <1>4. \A i \in DOMAIN todo' : Begins(todo'[i]) \/ Ends(todo'[i]) => i \in F \/ Old(d, i)
    BY CountedTracked DEF MovedBy
  <1>5. \A j \in DOMAIN todo : j # 1 /\ (Begins(todo[j]) \/ Ends(todo[j])) => Kept(d, j)
    BY DEF MovedBy
  <1>6. PICK b, b2, e, e2 : b = BeginsAt /\ b2 = BeginsAt' /\ e = EndsAt /\ e2 = EndsAt'
    OBVIOUS
  <1>7. b \in SUBSET DOMAIN todo /\ e \in SUBSET DOMAIN todo
    BY <1>6 DEF BeginsAt, EndsAt
  <1>8. IsFiniteSet(b) /\ IsFiniteSet(e) /\ b \subseteq Int /\ e \subseteq Int
    BY <1>1, <1>7, FS_Subset
  <1>9. \A i \in b2 : i \in F \/ (i + d \in b /\ i + d > 1 /\ i \in Int)
    BY <1>2, <1>4, <1>6 DEF BeginsAt, Old
  <1>10. \A i \in e2 : i \in F \/ (i + d \in e /\ i + d > 1 /\ i \in Int)
    BY <1>2, <1>4, <1>6 DEF EndsAt, Old
  <1>11. \A j \in b : j # 1 => j - d \in b2 /\ j > 1
    BY <1>1, <1>5, <1>6 DEF BeginsAt, Kept
  <1>12. \A j \in e : j # 1 => j - d \in e2 /\ j > 1
    BY <1>1, <1>5, <1>6 DEF EndsAt, Kept
  <1>13. \A i \in F : i \in Int /\ ~ (i + d > 1)
    BY <1>2, <1>3
  <1>14. (\A i : i \in B <=> i \in F /\ i \in b2) /\ (\A i : i \in E <=> i \in F /\ i \in e2)
    BY <1>3, <1>6 DEF BeginsAt, EndsAt
  <1>h. PICK hb, he : hb = (IF 1 \in b THEN 1 ELSE 0) /\ he = (IF 1 \in e THEN 1 ELSE 0)
    OBVIOUS
  <1>17. Recount(b, b2, d, F, B)
    BY <1>3, <1>8, <1>9, <1>11, <1>13, <1>14 DEF Recount
  <1>18. Recount(e, e2, d, F, E)
    BY <1>3, <1>8, <1>10, <1>12, <1>13, <1>14 DEF Recount
  <1>15. /\ Cardinality(b2) = Cardinality(B) + (Cardinality(b) - hb)
         /\ Cardinality(b) \in Nat /\ Cardinality(B) \in Nat
    BY <1>h, <1>17, Recounted
  <1>16. /\ Cardinality(e2) = Cardinality(E) + (Cardinality(e) - he)
         /\ Cardinality(e) \in Nat /\ Cardinality(E) \in Nat
    BY <1>h, <1>18, Recounted
  <1> QED
    BY <1>6, <1>h, <1>15, <1>16

-------------------------------------------------------------------------------
(* The requests that are counted: what a step keeps *)

\* What a step changes of what is counted.
BusyFrame ==
    /\ DOMAIN history' = DOMAIN history
    /\ Dispatch \/ history'.busy = history.busy
    /\ Fire \/ history'.unheard = history.unheard
    /\ history.dropped \subseteq history'.dropped

\* What an executable that runs leaves as it is.
LEMMA SeenBusy ==
    ASSUME BusyHistory, NEW x, NEW ev
    PROVE  /\ DOMAIN Seen(x, ev) = DOMAIN history
           /\ Seen(x, ev).busy = history.busy
           /\ Seen(x, ev).unheard = history.unheard
           /\ Seen(x, ev).dropped = history.dropped
  <1> DEFINE v == MixedBy(x, ev)
  <1>1. Seen(x, ev) = [history EXCEPT !.mixed = v]
    BY DEF Seen, MixedBy
  <1> HIDE DEF v
  <1>2. {"busy", "unheard", "dropped"} \subseteq DOMAIN history
    BY DEF BusyHistory
  <1> QED
    BY <1>1, <1>2

\* Every step is one of these.
LEMMA BusyFrames ==
    ASSUME BusyHistory, Next
    PROVE  BusyFrame
  <1>0. "busy" \in DOMAIN history /\ "unheard" \in DOMAIN history /\ "dropped" \in DOMAIN history
    BY DEF BusyHistory
  <1>1. CASE UNCHANGED history
    BY <1>1 DEF BusyFrame
  <1>2. CASE history' = Seen(todo[1].x, todo[1].ev)
    BY <1>2, SeenBusy DEF BusyFrame
  <1>3. CASE Fire
    <2>1. PICK v : history' = [history EXCEPT !.unheard = v]
      BY <1>3, Zenon DEF Fire
    <2> QED
      BY <1>0, <1>3, <2>1, Zenon DEF BusyFrame
  <1>4. CASE Dispatch
    <2>1. history' = history \/ history' = [history EXCEPT !.busy = @ + 1] \/ history' = [history EXCEPT !.busy = @ - 1]
      BY <1>4 DEF Dispatch
    <2> QED
      BY <1>0, <1>4, <2>1 DEF BusyFrame
  <1>5. CASE Invoke
    <2>1. history' = history \/ \E u, v, w : history' = [history EXCEPT !.handled = u, !.twice = v, !.started = w]
      <3> DEFINE site == todo[1].site
                 ev == todo[1].ev
                 e == site[1]
                 r == runner[e]
                 handled == history.handled \cup {<<e, r, ev.n>>}
                 twice == IF \/ \E q \in DOMAIN runs[e] : <<e, q, ev.n>> \in history.handled
                             \/ (ev.type = InitIncoding /\ <<e, r>> \in history.started)
                             THEN history.twice \cup {<<e, ev.type>>} ELSE history.twice
                 started == IF ev.type = InitIncoding THEN history.started \cup {<<e, r>>} ELSE history.started
      <3>1. history' = history \/ history' = [history EXCEPT !.handled = handled, !.twice = twice, !.started = started]
        BY <1>5, Zenon DEF Invoke
      <3> HIDE DEF handled, twice, started
      <3> QED
        BY <3>1
    <2> QED
      BY <1>0, <2>1 DEF BusyFrame
  <1>6. CASE Actions
    <2>1. PICK v : history' = [history EXCEPT !.acted = v]
      BY <1>6 DEF Actions
    <2> QED
      BY <1>0, <2>1 DEF BusyFrame
  <1>7. CASE Execute
    <2>1. history' = history \/ \E v : history' = [history EXCEPT !.restarted = v]
      BY <1>7 DEF Execute
    <2> QED
      BY <1>0, <2>1 DEF BusyFrame
  <1>8. CASE Direct \/ Event \/ Submit \/ Insert \/ Trigger \/ Eval \/ HashStore \/ Attach \/ Detach
    <2>1. history' = Seen(todo[1].x, todo[1].ev)
      BY <1>8 DEF Direct, Event, Submit, Insert, Trigger, Eval, HashStore, Attach, Detach
    <2> QED
      BY <2>1, <1>2, ZenonT(30)
  <1>9. CASE Ajax
    <2> DEFINE seen == Seen(todo[1].x, todo[1].ev)
    <2>1. PICK noted : /\ noted = seen \/ \E a, b : noted = [seen EXCEPT !.asks = a, !.newest = b]
                       /\ history' = noted \/ \E c : history' = [noted EXCEPT !.answered = c]
      BY <1>9 DEF Ajax
    <2>2. /\ DOMAIN seen = DOMAIN history
          /\ seen.busy = history.busy /\ seen.unheard = history.unheard /\ seen.dropped = history.dropped
      BY SeenBusy
    <2> HIDE DEF seen
    <2>3. /\ DOMAIN noted = DOMAIN seen
          /\ noted.busy = seen.busy /\ noted.unheard = seen.unheard /\ noted.dropped = seen.dropped
      BY <1>0, <2>1, <2>2
    <2>4. /\ DOMAIN history' = DOMAIN noted
          /\ history'.busy = noted.busy /\ history'.unheard = noted.unheard /\ history'.dropped = noted.dropped
      BY <1>0, <2>1, <2>2, <2>3
    <2> QED
      BY <2>2, <2>3, <2>4, ZenonT(30) DEF BusyFrame
  <1>10. CASE Break
    <2> DEFINE seen == Seen(todo[1].x, todo[1].ev)
    <2>1. PICK v : history' = [seen EXCEPT !.broken = v]
      BY <1>10 DEF Break
    <2>2. /\ DOMAIN seen = DOMAIN history
          /\ seen.busy = history.busy /\ seen.unheard = history.unheard /\ seen.dropped = history.dropped
      BY SeenBusy
    <2> HIDE DEF seen
    <2> QED
      BY <1>0, <2>1, <2>2 DEF BusyFrame
  <1>11. CASE Uncaught \/ BreakBefore \/ BreakCallback \/ RethrowCallback
    <2>1. PICK v : history' = [history EXCEPT !.dropped = history.dropped \cup v]
      BY <1>11, Zenon DEF Uncaught, BreakBefore, BreakCallback, RethrowCallback
    <2> QED
      BY <1>0, <2>1 DEF BusyFrame
  <1>12. CASE Respond
    <2>1. history' = history \/ \E v : history' = [history EXCEPT !.answered = v]
      BY <1>12, ZenonT(30) DEF Respond, Answer, Fail
    <2> QED
      BY <1>0, <2>1 DEF BusyFrame
  <1>13. CASE User \/ Navigate \/ Announce \/ TimeOut \/ Tick
    <2>1. UNCHANGED history
      BY <1>13 DEF User, Navigate, Announce, TimeOut, Tick
    <2> QED
      BY <1>1, <2>1
  <1>14. CASE CatchNothing \/ Action \/ Send \/ Store \/ Completed \/ Callback \/ CaughtNothing
                 \/ BreakCallbacks \/ ParseContext
    <2>1. UNCHANGED history
      BY <1>14 DEF CatchNothing, Action, Send, Store, Completed, Callback, CaughtNothing, BreakCallbacks, ParseContext
    <2> QED
      BY <1>1, <2>1
  <1> QED
    BY <1>3, <1>4, <1>5, <1>6, <1>7, <1>8, <1>9, <1>10, <1>11, <1>12, <1>13, <1>14 DEF Next, Step

\* What an executable of the page answers or asks for is not ahead of the clock.
LEMMA SentKnown ==
    ASSUME TypeInv, NodesOK, NEW x, Executable(runs, x)
    PROVE  SentAt(page, runs, x)[2] \in Nat /\ SentAt(page, runs, x)[2] <= clock
  <1>1. clock \in Nat
    BY DEF TypeInv, CountersOK
  <1>2. x[1] \in Element /\ x[2] \in DOMAIN runs[x[1]]
    BY DEF Executable
  <1>3. PICK n : n = runs[x[1]][x[2]].incarnation
    OBVIOUS
  <1>4. n \in Nat /\ n <= clock
    BY <1>2, <1>3 DEF TypeInv, AreRuns, IsRun, NodesOK
  <1>5. SentAt(page, runs, x) = Doc \/ SentAt(page, runs, x) = <<x[1], n>>
    BY <1>3 DEF SentAt
  <1>6. Doc[2] = 0 /\ <<x[1], n>>[2] = n
    BY DEF Doc
  <1> QED
    BY <1>1, <1>4, <1>5, <1>6

\* An executable goes on to be sent from the same site.
LEMMA SentStays ==
    ASSUME DomMoves, NEW x, Executable(runs, x)
    PROVE  SentAt(page, runs', x) = SentAt(page, runs, x)
  <1>1. Grown(runs, runs')
    BY DEF DomMoves
  <1>2. MetaAt(page, runs', x) = MetaAt(page, runs, x)
    BY <1>1, MetaStays
  <1>3. runs'[x[1]][x[2]].incarnation = runs[x[1]][x[2]].incarnation
    BY <1>1 DEF Grown, Executable
  <1> QED
    BY <1>2, <1>3 DEF SentAt

\* An element that was removed stays so: what is inserted later has a number of its own.
LEMMA GoneStays ==
    ASSUME DomMoves, NEW s, Gone(node, s), s[2] \in Nat, s[2] <= clock
    PROVE  Gone(node', s)
  <1>1. SUFFICES ASSUME s[1] \in Element, node'[s[1]] = s[2], s[2] > 0 PROVE FALSE
    BY DEF Gone
  <1>2. clock \in Nat /\ (node'[s[1]] = 0 \/ node'[s[1]] = node[s[1]] \/ node'[s[1]] > clock)
    BY <1>1 DEF DomMoves
  <1>3. node[s[1]] = s[2]
    BY <1>1, <1>2
  <1> QED
    BY <1>1, <1>3 DEF Gone

\* What excuses a count is recalled.
LEMMA ExcusedStays ==
    ASSUME BusyHistory, BusyFrame, ~ Fire, Excused
    PROVE  Excused'
  BY DEF BusyFrame, Excused

\* When a Fire is not heard it is recalled, too.
LEMMA ExcusedFire ==
    ASSUME BusyHistory, Fire
    PROVE  /\ Excused => Excused'
           /\ todo[1].type = "incajaxcomplete" /\ Gone(node, todo[1].site) => Excused'
           /\ history'.busy = history.busy
  <1>1. "unheard" \in DOMAIN history
    BY Zenon DEF BusyHistory
  <1> DEFINE f == todo[1]
             path == IF Present(f.site)
                        THEN [i \in DOMAIN Path[f.site[1]] |->
                                <<Path[f.site[1]][i], node[Path[f.site[1]][i]]>>] \o <<Doc>>
                        ELSE IF f.site = Doc THEN <<Doc>> ELSE <<>>
  <1>2. history' = [history EXCEPT !.unheard = @ \/ (f.type = "incajaxcomplete" /\ path = <<>>)]
    BY Zenon DEF Fire
  <1>3. Gone(node, f.site) => path = <<>>
    BY DEF Gone, Present
  <1> HIDE DEF path, f
  <1>4. PICK v : v = (f.type = "incajaxcomplete" /\ path = <<>>)
    OBVIOUS
  <1>5. history' = [history EXCEPT !.unheard = (history.unheard \/ v)]
    BY <1>2, <1>4
  <1>6. /\ history'.unheard = (history.unheard \/ v)
        /\ history'.dropped = history.dropped /\ history'.busy = history.busy
    BY <1>1, <1>5
  <1>7. Excused => Excused'
    BY <1>6 DEF Excused
  <1>8. v => Excused'
    BY <1>6 DEF Excused
  <1> QED
    BY <1>3, <1>4, <1>6, <1>7, <1>8 DEF f

-------------------------------------------------------------------------------
(* The requests that are counted: what goes with the operations that are moved *)

\* Numbers, sites and paths stay behind the clock.
LEMMA AskStays ==
    ASSUME DomMoves, NEW o, AskOK(node, clock, o)
    PROVE  AskOK(node', clock', o)
  <1>1. clock \in Nat /\ clock' \in Nat /\ clock <= clock'
    BY DEF DomMoves
  <1>2. \A m \in Nat : m <= clock => m <= clock'
    BY <1>1
  <1> QED
    BY <1>2, PathStays DEF AskOK

\* They do for what was moved and for what is new.
LEMMA AskedJoined ==
    ASSUME AskedOK, DomMoves, NEW d, NEW F, MovedBy(d, F), \A i \in F : AskOK(node', clock', todo'[i])
    PROVE  AskedOK'
  <1>1. ASSUME NEW i \in DOMAIN todo' PROVE AskOK(node', clock', todo'[i])
    <2>1. CASE i \in F
      BY <2>1
    <2>2. CASE Old(d, i)
      <3>1. PICK k : k \in DOMAIN todo /\ todo'[i] = todo[k]
        BY <2>2 DEF Old
      <3>2. AskOK(node, clock, todo[k])
        BY <3>1 DEF AskedOK
      <3> QED
        BY <3>1, <3>2, AskStays
    <2>3. CASE ~ Tracked(todo'[i])
      BY <2>3 DEF AskOK, Tracked, Counts, IsSend
    <2> QED
      BY <2>1, <2>2, <2>3 DEF MovedBy
  <1> QED
    BY <1>1 DEF AskedOK

\* A request keeps its number to itself.
LEMMA NumberedJoined ==
    ASSUME TypeInv', DomMoves, AskedOK, Numbered, NEW d, NEW F, MovedBy(d, F),
           \A i, j \in F : IsSend(todo'[i]) /\ IsSend(todo'[j]) => i = j,
           \A i \in F : IsSend(todo'[i]) => todo'[i].data.n \in Nat /\ todo'[i].data.n > clock,
           IsFiniteSet(requests'),
           \A r \in requests' : \/ r \in requests
                                \/ /\ 1 \in DOMAIN todo /\ IsSend(todo[1]) /\ r.data = todo[1].data
                                   /\ \A i \in F : ~ IsSend(todo'[i])
    PROVE  Numbered'
  <1>1. clock \in Nat /\ clock' \in Nat /\ clock <= clock'
    BY DEF DomMoves
  <1>2. ASSUME NEW i \in DOMAIN todo', IsSend(todo'[i])
        PROVE  \/ i \in F
               \/ i + d \in DOMAIN todo /\ i + d > 1 /\ todo'[i] = todo[i + d]
    <2>1. Tracked(todo'[i])
      BY <1>2 DEF Tracked, Counts, IsSend
    <2> QED
      BY <2>1 DEF MovedBy, Old
  <1>3. \A k \in DOMAIN todo : IsSend(todo[k]) => todo[k].data.n \in Nat /\ todo[k].data.n <= clock
    BY DEF AskedOK, AskOK
  <1>4. /\ \A r \in requests : r.data.n \in Nat /\ r.data.n <= clock
        /\ \A i, j \in DOMAIN todo : i # j /\ IsSend(todo[i]) /\ IsSend(todo[j]) => todo[i].data.n # todo[j].data.n
        /\ \A i \in DOMAIN todo : \A r \in requests : IsSend(todo[i]) => todo[i].data.n # r.data.n
    BY DEF Numbered
  <1>5. \A m, n \in Nat : m > clock /\ n <= clock => m # n
    BY <1>1
  <1>6. ASSUME NEW i \in DOMAIN todo', NEW j \in DOMAIN todo', i # j, IsSend(todo'[i]), IsSend(todo'[j])
        PROVE  todo'[i].data.n # todo'[j].data.n
    <2>1. CASE i \in F /\ j \in F
      BY <1>6, <2>1
    <2>2. CASE i \in F /\ j \notin F
      <3>1. todo'[j].data.n \in Nat /\ todo'[j].data.n <= clock
        BY <1>2, <1>3, <1>6, <2>2
      <3>2. todo'[i].data.n \in Nat /\ todo'[i].data.n > clock
        BY <1>6, <2>2
      <3> QED
        BY <1>5, <3>1, <3>2
    <2>3. CASE i \notin F /\ j \in F
      <3>1. todo'[i].data.n \in Nat /\ todo'[i].data.n <= clock
        BY <1>2, <1>3, <1>6, <2>3
      <3>2. todo'[j].data.n \in Nat /\ todo'[j].data.n > clock
        BY <1>6, <2>3
      <3> QED
        BY <1>5, <3>1, <3>2
    <2>4. CASE i \notin F /\ j \notin F
      <3>1. PICK k, l : k = i + d /\ l = j + d
        OBVIOUS
      <3>2. k \in DOMAIN todo /\ l \in DOMAIN todo /\ todo'[i] = todo[k] /\ todo'[j] = todo[l]
        BY <1>2, <1>6, <2>4, <3>1
      <3>3. k # l
        <4>1. i \in Int /\ j \in Int /\ d \in Int
          BY NextPlaces DEF MovedBy
        <4> QED
          BY <1>6, <3>1, <4>1, ShiftApart
      <3> QED
        BY <1>4, <1>6, <3>2, <3>3
    <2> QED
      BY <2>1, <2>2, <2>3, <2>4
  <1>7. ASSUME NEW r \in requests' PROVE r.data.n \in Nat /\ r.data.n <= clock'
    <2>1. r.data.n \in Nat /\ r.data.n <= clock
      BY <1>3, <1>4
    <2> QED
      BY <1>1, <2>1
  <1>8. ASSUME NEW i \in DOMAIN todo', NEW r \in requests', IsSend(todo'[i]) PROVE todo'[i].data.n # r.data.n
    <2>1. CASE r \in requests /\ i \in F
      <3>1. r.data.n \in Nat /\ r.data.n <= clock /\ todo'[i].data.n \in Nat /\ todo'[i].data.n > clock
        BY <1>4, <1>8, <2>1
      <3> QED
        BY <1>5, <3>1
    <2>2. CASE r \in requests /\ i \notin F
      BY <1>2, <1>4, <1>8, <2>2
    <2>3. CASE r \notin requests
      <3>1. /\ 1 \in DOMAIN todo /\ IsSend(todo[1]) /\ r.data = todo[1].data
            /\ i \notin F
        BY <1>8, <2>3
      <3>2. PICK k : k = i + d
        OBVIOUS
      <3>3. k \in DOMAIN todo /\ k > 1 /\ todo'[i] = todo[k]
        BY <1>2, <1>8, <3>1, <3>2
      <3>4. k # 1
        BY <3>3
      <3> QED
        BY <1>4, <1>8, <3>1, <3>3, <3>4
    <2> QED
      BY <2>1, <2>2, <2>3
  <1> QED
    BY <1>6, <1>7, <1>8 DEF Numbered

\* What is to be sent goes on to follow its IncAjaxBefore.
LEMMA PairedJoined ==
    ASSUME TypeInv, TypeInv', DomMoves, Paired, Excused => Excused', NEW d, NEW F, MovedBy(d, F),
           \A i \in F : IsFire(todo'[i], "incajaxbefore") => PairAt(todo, i)'
    PROVE  Paired'
  <1>1. SUFFICES ASSUME ~ Excused', NEW i \in DOMAIN todo', IsFire(todo'[i], "incajaxbefore"), i \notin F
                 PROVE  PairAt(todo, i)'
    BY DEF Paired
  <1>2. i + d \in DOMAIN todo /\ i + d > 1 /\ todo'[i] = todo[i + d]
    <2>1. Tracked(todo'[i])
      BY <1>1 DEF IsFire, Tracked, Counts, AjaxEvents
    <2> QED
      BY <1>1, <2>1 DEF MovedBy, Old
  <1>3. i \in Int /\ d \in Int
    BY NextPlaces DEF MovedBy
  <1>4. PICK k, l : k = i + d /\ l = k + 1
    OBVIOUS
  <1>5. l # 1 /\ l - d = i + 1
    BY <1>2, <1>3, <1>4
  <1>6. /\ k \in DOMAIN todo /\ todo'[i] = todo[k]
        /\ l \in DOMAIN todo /\ IsSend(todo[l]) /\ SentAt(page, runs, todo[l].x) = todo[k].site
    <2>1. k \in DOMAIN todo /\ todo'[i] = todo[k]
      BY <1>2, <1>4
    <2>2. PairAt(todo, k)
      BY <1>1, <2>1 DEF Paired
    <2> QED
      BY <1>4, <2>1, <2>2 DEF PairAt
  <1>7. Kept(d, l)
    <2>1. Ends(todo[l])
      BY <1>6 DEF Ends
    <2> QED
      BY <1>1, <1>5, <1>6, <2>1 DEF MovedBy
  <1>8. i + 1 \in DOMAIN todo' /\ todo'[i + 1] = todo[l]
    BY <1>5, <1>7 DEF Kept
  <1>9. Executable(runs, todo[l].x)
    BY <1>6 DEF TypeInv, OpsOK, OpOK, IsSend
  <1>10. SentAt(page, runs', todo[l].x) = todo[k].site /\ page' = page
    BY <1>6, <1>9, SentStays DEF DomMoves
  <1> QED
    BY <1>6, <1>8, <1>10 DEF PairAt

\* Where something is to be sent from or triggered is known.
LEMMA DoomedKnown ==
    ASSUME TypeInv, NodesOK, AskedOK, DomMoves, NEW j \in DOMAIN todo, DoomedBy(todo[j])
    PROVE  /\ IsSend(todo[j]) => /\ Executable(runs, todo[j].x)
                                 /\ Gone(node, SentAt(page, runs, todo[j].x))
                                 /\ Gone(node', SentAt(page, runs', todo[j].x))
           /\ IsFire(todo[j], "incajaxcomplete") => Gone(node, todo[j].site) /\ Gone(node', todo[j].site)
           /\ IsSend(todo[j]) \/ IsFire(todo[j], "incajaxcomplete")
           /\ Ends(todo[j])
  <1>1. PICK o : o = todo[j]
    OBVIOUS
  <1>2. CASE IsSend(o)
    <2>1. Executable(runs, o.x)
      BY <1>1, <1>2 DEF TypeInv, OpsOK, OpOK, IsSend
    <2>2. PICK s : s = SentAt(page, runs, o.x)
      OBVIOUS
    <2>3. s[2] \in Nat /\ s[2] <= clock
      BY <2>1, <2>2, SentKnown
    <2>4. Gone(node, s)
      BY <1>1, <1>2, <2>2 DEF DoomedBy, IsSend, IsFire
    <2>5. Gone(node', s)
      BY <2>3, <2>4, GoneStays
    <2>6. SentAt(page, runs', o.x) = s
      BY <2>1, <2>2, SentStays
    <2>7. Ends(o) /\ ~ IsFire(o, "incajaxcomplete")
      BY <1>2 DEF Ends, IsSend, IsFire
    <2> QED
      BY <1>1, <1>2, <2>1, <2>2, <2>4, <2>5, <2>6, <2>7
  <1>3. CASE ~ IsSend(o)
    <2>1. IsFire(o, "incajaxcomplete") /\ Gone(node, o.site)
      BY <1>1, <1>3 DEF DoomedBy
    <2>2. PICK s : s = o.site
      OBVIOUS
    <2>3. AskOK(node, clock, o)
      BY <1>1 DEF AskedOK
    <2>4. s[2] \in Nat /\ s[2] <= clock
      BY <2>1, <2>2, <2>3 DEF AskOK, IsFire, AjaxEvents
    <2>5. Gone(node', s)
      BY <2>1, <2>2, <2>4, GoneStays
    <2>6. Ends(o)
      BY <2>1 DEF Ends, Going
    <2> QED
      BY <1>1, <1>3, <2>1, <2>2, <2>5, <2>6
  <1> QED
    BY <1>2, <1>3

\* The element that is not there any more stays away: from the executables of requests.
LEMMA RequestKnown ==
    ASSUME TypeInv, NodesOK, DomMoves, NEW r \in requests, Gone(node, SentAt(page, runs, r.x))
    PROVE  Gone(node', SentAt(page, runs', r.x))
  <1>1. Executable(runs, r.x)
    BY DEF TypeInv, WaitingOK
  <1>2. PICK s : s = SentAt(page, runs, r.x)
    OBVIOUS
  <1>3. s[2] \in Nat /\ s[2] <= clock /\ Gone(node, s)
    BY <1>1, <1>2, SentKnown
  <1>4. Gone(node', s)
    BY <1>3, GoneStays
  <1> QED
    BY <1>1, <1>2, <1>4, SentStays

\* An element that is missed goes on to be missed until its event is not heard.
LEMMA DoomedJoined ==
    ASSUME TypeInv, NodesOK, AskedOK, DomMoves, NEW d, NEW F, MovedBy(d, F), Doomed,
           1 \in DOMAIN todo /\ IsSend(todo[1]) => \E r \in requests' : r.x = todo[1].x,
           1 \in DOMAIN todo /\ IsFire(todo[1], "incajaxcomplete") /\ Gone(node, todo[1].site) => Excused',
           \A r \in requests : Gone(node, SentAt(page, runs, r.x)) => r \in requests' \/ Doomed'
    PROVE  Doomed' \/ Excused'
  <1>0. page' = page
    BY DEF DomMoves
  <1>1. ASSUME NEW j \in DOMAIN todo, DoomedBy(todo[j]), j # 1 PROVE Doomed' \/ Excused'
    <2>1. Kept(d, j) \/ Excused'
      BY <1>1, DoomedKnown DEF MovedBy
    <2>2. ASSUME Kept(d, j) PROVE Doomed'
      <3>1. PICK i : i \in DOMAIN todo' /\ todo'[i] = todo[j]
        BY <2>2 DEF Kept
      <3>2. \/ IsSend(todo[j]) /\ Gone(node', SentAt(page, runs', todo[j].x))
            \/ IsFire(todo[j], "incajaxcomplete") /\ Gone(node', todo[j].site)
        BY <1>1, DoomedKnown
      <3>3. DoomedBy(todo[i])'
        BY <1>0, <3>1, <3>2 DEF DoomedBy
      <3> QED
        BY <3>1, <3>3 DEF Doomed
    <2> QED
      BY <2>1, <2>2
  <1>2. ASSUME 1 \in DOMAIN todo, DoomedBy(todo[1]) PROVE Doomed' \/ Excused'
    <2>1. /\ IsSend(todo[1]) => Gone(node', SentAt(page, runs', todo[1].x))
          /\ IsFire(todo[1], "incajaxcomplete") => Gone(node, todo[1].site)
          /\ IsSend(todo[1]) \/ IsFire(todo[1], "incajaxcomplete")
      BY <1>2, DoomedKnown
    <2>2. ASSUME IsSend(todo[1]) PROVE Doomed'
      <3>1. PICK r \in requests' : r.x = todo[1].x
        BY <1>2, <2>2
      <3>2. Gone(node', SentAt(page', runs', r.x))
        BY <1>0, <2>1, <2>2, <3>1
      <3> QED
        BY <3>2 DEF Doomed
    <2> QED
      BY <1>2, <2>1, <2>2
  <1>3. ASSUME NEW r \in requests, Gone(node, SentAt(page, runs, r.x)) PROVE Doomed'
    <2>1. Gone(node', SentAt(page', runs', r.x))
      BY <1>0, <1>3, RequestKnown
    <2> QED
      BY <1>3, <2>1 DEF Doomed
  <1> QED
    BY <1>1, <1>2, <1>3 DEF Doomed

\* The count of a step.
LEMMA BalanceJoined ==
    ASSUME TypeInv, TypeInv', BusyHistory, Balance, Excused => Excused', Doomed => Doomed' \/ Excused',
           NEW d, NEW F, MovedBy(d, F),
           NEW B, B = {i \in F : Begins(todo'[i])}, NEW E, E = {i \in F : Ends(todo'[i])},
           IsFiniteSet(requests), IsFiniteSet(requests'),
           \/ Excused' \/ Doomed'
           \/ history'.busy = history.busy
                 + (Cardinality(requests') - Cardinality(requests))
                 + (Cardinality(E) - IF 1 \in EndsAt THEN 1 ELSE 0)
                 - (Cardinality(B) - IF 1 \in BeginsAt THEN 1 ELSE 0)
    PROVE  Balance'
  <1>1. SUFFICES ASSUME ~ Excused', ~ Doomed'
                 PROVE  history'.busy = Cardinality(EndsAt') + Cardinality(requests') - Cardinality(BeginsAt')
    BY DEF Balance
  <1>2. PICK b, b2, e, e2, q, q2 :
           /\ b = Cardinality(BeginsAt) /\ b2 = Cardinality(BeginsAt') /\ e = Cardinality(EndsAt)
           /\ e2 = Cardinality(EndsAt') /\ q = Cardinality(requests) /\ q2 = Cardinality(requests')
    OBVIOUS
  <1>3. q \in Nat /\ q2 \in Nat
    BY <1>2, FS_CardinalityType
  <1>4. PICK hb, he : hb = (IF 1 \in BeginsAt THEN 1 ELSE 0) /\ he = (IF 1 \in EndsAt THEN 1 ELSE 0)
    OBVIOUS
  <1>5. PICK nb, ne : nb = Cardinality(B) /\ ne = Cardinality(E)
    OBVIOUS
  <1>6. /\ b \in Nat /\ e \in Nat /\ nb \in Nat /\ ne \in Nat
        /\ b2 = nb + (b - hb) /\ e2 = ne + (e - he)
    BY <1>1, <1>2, <1>4, <1>5, CountsMove
  <1>7. history.busy \in Int /\ history.busy = e + q - b
    BY <1>1, <1>2 DEF Balance, BusyHistory
  <1>8. history'.busy = history.busy + (q2 - q) + (ne - he) - (nb - hb)
    BY <1>1, <1>2, <1>4, <1>5
  <1>9. hb \in {0, 1} /\ he \in {0, 1}
    BY <1>4
  <1>10. history'.busy = e2 + q2 - b2
    BY <1>3, <1>6, <1>7, <1>8, <1>9
  <1> QED
    BY <1>2, <1>10

-------------------------------------------------------------------------------
(* The requests that are counted: the steps *)

\* What is said of a page that counts its requests itself.
Counting == Numbered /\ AskedOK /\ Paired /\ Balance

\* The new operations, at the positions F.
NewAsked(F) ==
    /\ \A i \in F : AskOK(node', clock', todo'[i])
    /\ \A i, j \in F : IsSend(todo'[i]) /\ IsSend(todo'[j]) => i = j
    /\ \A i \in F : IsSend(todo'[i]) => todo'[i].data.n \in Nat /\ todo'[i].data.n > clock
    /\ \A i \in F : IsFire(todo'[i], "incajaxbefore") => PairAt(todo, i)'

\* What the operation at the head leaves: nothing that is counted gets lost.
HeadAsked ==
    /\ 1 \in DOMAIN todo /\ IsSend(todo[1]) => \E r \in requests' : r.x = todo[1].x
    /\ 1 \in DOMAIN todo /\ IsFire(todo[1], "incajaxcomplete") /\ Gone(node, todo[1].site) => Excused'

\* What a step does to the count.
Counted(B, E) ==
    \/ Excused' \/ Doomed'
    \/ history'.busy = history.busy
          + (Cardinality(requests') - Cardinality(requests))
          + (Cardinality(E) - IF 1 \in EndsAt THEN 1 ELSE 0)
          - (Cardinality(B) - IF 1 \in BeginsAt THEN 1 ELSE 0)

\* A step that moves the operations, adds some and sends or ends what is counted.
LEMMA CountingJoined ==
    ASSUME TypeInv, TypeInv', NodesOK, DomMoves, BusyHistory, Counting, Excused => Excused',
           NEW d, NEW F, MovedBy(d, F), NewAsked(F), HeadAsked,
           IsFiniteSet(requests'),
           \A r \in requests' : \/ r \in requests
                                \/ /\ 1 \in DOMAIN todo /\ IsSend(todo[1]) /\ r.data = todo[1].data
                                   /\ \A i \in F : ~ IsSend(todo'[i]),
           \A r \in requests : Gone(node, SentAt(page, runs, r.x)) => r \in requests' \/ Doomed',
           NEW B, B = {i \in F : Begins(todo'[i])}, NEW E, E = {i \in F : Ends(todo'[i])},
           Counted(B, E)
    PROVE  Counting'
  <1>1. Numbered /\ AskedOK /\ Paired /\ Balance
    BY DEF Counting
  <1>2. AskedOK'
    BY <1>1, AskedJoined DEF NewAsked
  <1>3. Numbered'
    BY <1>1, NumberedJoined DEF NewAsked
  <1>4. Paired'
    BY <1>1, PairedJoined DEF NewAsked
  <1>5. Doomed => Doomed' \/ Excused'
    BY <1>1, DoomedJoined DEF HeadAsked
  <1>6. IsFiniteSet(requests)
    BY <1>1 DEF Numbered
  <1>7. Balance'
    BY <1>1, <1>5, <1>6, BalanceJoined DEF Counted
  <1> QED
    BY <1>2, <1>3, <1>4, <1>7 DEF Counting

\* A step that does nothing to what is counted.
LEMMA CountingKept ==
    ASSUME TypeInv, TypeInv', NodesOK, DomMoves, BusyHistory, Counting, Excused => Excused',
           NEW d, MovedBy(d, {}), requests' = requests, history'.busy = history.busy,
           1 \in DOMAIN todo => ~ Begins(todo[1]) /\ ~ Ends(todo[1])
    PROVE  Counting'
  <1>1. PICK F, B, E : F = {} /\ B = {i \in F : Begins(todo'[i])} /\ E = {i \in F : Ends(todo'[i])}
    OBVIOUS
  <1>2. MovedBy(d, F) /\ NewAsked(F) /\ \A i \in F : ~ IsSend(todo'[i])
    BY <1>1 DEF NewAsked
  <1>3. 1 \notin EndsAt /\ 1 \notin BeginsAt
    BY DEF EndsAt, BeginsAt
  <1>4. HeadAsked
    BY DEF HeadAsked, Ends, Going
  <1>5. IsFiniteSet(requests)
    BY DEF Counting, Numbered
  <1>6. Cardinality(B) = 0 /\ Cardinality(E) = 0
    BY <1>1, FS_EmptySet
  <1>7. Cardinality(requests') = Cardinality(requests) /\ Cardinality(requests) \in Nat
    BY <1>5, FS_CardinalityType
  <1>8. history.busy \in Int
    BY DEF BusyHistory
  <1>9. Counted(B, E)
    BY <1>3, <1>6, <1>7, <1>8 DEF Counted
  <1> QED
    BY <1>1, <1>2, <1>4, <1>5, <1>9, CountingJoined

\* What is left of what is counted when nothing begins.
LEMMA QuietMoved ==
    ASSUME QuietTodo, ~ Asking, CountsItself(page)
    PROVE  \E d : MovedBy(d, {})
  <1>1. PICK d \in Int :
           /\ \A i \in DOMAIN todo' :
                 \/ Mild(page, runs', todo'[i])
                 \/ Old(d, i)
                 \/ Len(todo') = 1 /\ ~ Named(todo'[i]) /\ todo'[i].op = "run"
           /\ \A j \in DOMAIN todo : Watched(todo[j]) => Kept(d, j) \/ Lost(todo[j]) \/ IsSent(j)
    BY DEF QuietTodo
  <1>2. \A i \in DOMAIN todo' : Old(d, i) \/ ~ Tracked(todo'[i])
    BY <1>1 DEF Mild, Tracked, Counts, Named, IsDispatch
  <1>3. ASSUME NEW j \in DOMAIN todo, j # 1, Begins(todo[j]) \/ Ends(todo[j])
        PROVE  Kept(d, j) \/ Excused'
    <2>1. Watched(todo[j]) /\ ~ IsSent(j)
      BY <1>3 DEF Begins, Ends, Going, IsSend, IsFire, IsDispatch, Watched, Calm, IsSent
    <2>2. Kept(d, j) \/ Lost(todo[j])
      BY <1>1, <1>3, <2>1
    <2>3. Lost(todo[j]) => Excused'
      BY <1>3 DEF Lost, Begins, Ends, Going, IsSend, IsFire, IsDispatch, Excused
    <2> QED
      BY <2>2, <2>3
  <1>4. IsFiniteSet({})
    BY FS_EmptySet
  <1> QED
    BY <1>1, <1>2, <1>3, <1>4 DEF MovedBy

\* Operations that replace the one at the head: those at the positions F are counted.
LEMMA PushedMoved ==
    ASSUME TypeInv, todo # <<>>, NEW a, IsSeq(a), Do(a), NEW F, F \subseteq DOMAIN a,
           \A i \in DOMAIN a : i \in F \/ ~ Tracked(a[i])
    PROVE  /\ \E d : MovedBy(d, F)
           /\ \A i \in DOMAIN a : i \in DOMAIN todo' /\ todo'[i] = a[i]
  <1>1. PICK d \in Int : /\ d = 1 - Len(a)
                         /\ \A i \in DOMAIN todo' : i \in DOMAIN a \/ Old(d, i)
                         /\ \A j \in DOMAIN todo : j # 1 => Kept(d, j)
    BY PushedPlaces
  <1>2. \A i \in DOMAIN a : i \in DOMAIN todo' /\ todo'[i] = a[i]
    BY PushedPlaces
  <1>3. Len(a) \in Nat /\ DOMAIN a = 1..Len(a)
    BY IsSeqDom
  <1>4. IsFiniteSet(F)
    <2>1. IsFiniteSet(DOMAIN a) /\ F \in SUBSET DOMAIN a
      BY <1>3, FS_Interval
    <2> QED
      BY <2>1, FS_Subset
  <1>5. \A i \in F : ~ (i + d > 1)
    BY <1>1, <1>3
  <1>6. \A i \in DOMAIN todo' : i \in F \/ Old(d, i) \/ ~ Tracked(todo'[i])
    BY <1>1, <1>2
  <1> QED
    BY <1>1, <1>2, <1>4, <1>5, <1>6 DEF MovedBy

\* An operation of the engine is done by the action that is named for it.
LEMMA HeadNamed ==
    ASSUME Next, todo # <<>>, Tracked(todo[1])
    PROVE  Fire \/ Dispatch \/ Send
  <1>0. todo[1].op \in {"fire", "dispatch", "send"}
    BY DEF Tracked, Counts, IsDispatch
  <1>1. ~ Idle
    BY DEF Idle
  <1>2. \A op : op \notin {"fire", "dispatch", "send"} => ~ At(op)
    BY <1>0, ZenonT(30) DEF At
  <1>3. ~ Invoke /\ ~ ParseContext
    BY <1>2 DEF Invoke, ParseContext
  <1>4. ~ (CatchNothing \/ Actions \/ Action \/ Execute)
    BY <1>2 DEF CatchNothing, Actions, Action, Execute
  <1>5. ~ (Direct \/ Event \/ Ajax \/ Submit \/ Store)
    BY <1>2 DEF Direct, Event, Ajax, Submit, Store, AtRun
  <1>6. ~ (Completed \/ Callback \/ CaughtNothing \/ BreakCallbacks)
    BY <1>2, ZenonT(30) DEF Completed, Callback, CaughtNothing, BreakCallbacks
  <1>7. ~ (Uncaught \/ BreakBefore \/ BreakCallback \/ RethrowCallback)
    BY <1>2, Zenon DEF Uncaught, BreakBefore, BreakCallback, RethrowCallback
  <1>8. ~ (Insert \/ Trigger \/ Break \/ Eval \/ HashStore \/ Attach \/ Detach)
    BY <1>2 DEF Insert, Trigger, Break, Eval, HashStore, Attach, Detach, AtRun
  <1>9. ~ (User \/ Navigate \/ Announce \/ TimeOut \/ Tick)
    BY <1>1 DEF User, Navigate, Announce, TimeOut, Tick
  <1>10. ~ Respond
    BY <1>1, Zenon DEF Respond, Answer, Fail
  <1> QED
    BY <1>3, <1>4, <1>5, <1>6, <1>7, <1>8, <1>9, <1>10 DEF Next, Step

\* Only Send sends and only an answer or a failure ends a request.
LEMMA RequestsKept ==
    ASSUME Next, ~ Send, ~ Respond
    PROVE  requests' = requests
  <1>1. CASE Fire \/ Dispatch \/ Invoke
    BY <1>1, Zenon DEF Fire, Dispatch, Invoke
  <1>2. CASE CatchNothing \/ Actions \/ Action \/ Execute
    BY <1>2, Zenon DEF CatchNothing, Actions, Action, Execute
  <1>3. CASE Direct \/ Event \/ Ajax \/ Submit
    BY <1>3, Zenon DEF Direct, Event, Ajax, Submit
  <1>4. CASE Store \/ Completed \/ Callback
    BY <1>4, Zenon DEF Store, Completed, Callback
  <1>5. CASE CaughtNothing \/ BreakCallbacks \/ Uncaught \/ BreakBefore \/ BreakCallback \/ RethrowCallback
    BY <1>5, Zenon DEF CaughtNothing, BreakCallbacks, Uncaught, BreakBefore, BreakCallback, RethrowCallback
  <1>6. CASE ParseContext \/ Insert \/ Trigger \/ Break \/ Eval
    BY <1>6, Zenon DEF ParseContext, Insert, Trigger, Break, Eval
  <1>7. CASE HashStore \/ Attach \/ Detach
    BY <1>7, Zenon DEF HashStore, Attach, Detach
  <1>8. CASE User \/ Navigate \/ Announce \/ TimeOut \/ Tick
    BY <1>8, Zenon DEF User, Navigate, Announce, TimeOut, Tick
  <1> QED
    BY <1>1, <1>2, <1>3, <1>4, <1>5, <1>6, <1>7, <1>8, Zenon DEF Next, Step

-------------------------------------------------------------------------------
(* The requests that are counted: steps that ask and send *)

\* The first position is one of an operation.
LEMMA FirstPlace ==
    ASSUME TypeInv
    PROVE  /\ todo # <<>> => 1 \in DOMAIN todo
           /\ todo = <<>> => DOMAIN todo = {}
  <1>1. todo # <<>> => 1 \in DOMAIN todo
    BY AtHead
  <1> QED
    BY <1>1, IsSeqEmpty

\* A step that neither triggers, calls, asks nor sends leaves the count alone.
LEMMA QuietCounting ==
    ASSUME TypeInv, TypeInv', TodoBr, OnceHistoryOK, NodesOK, DomMoves, BusyHistory, Counting,
           CountsItself(page), Next, ~ Fire, ~ Dispatch, ~ Invoke, ~ ParseContext, ~ Send, ~ Asking
    PROVE  Counting'
  <1>1. QuietTodo
    BY QuietStep
  <1>2. PICK d : MovedBy(d, {})
    BY <1>1, QuietMoved
  <1>3. requests' = requests
    BY RequestsKept DEF Asking
  <1>4. BusyFrame
    BY BusyFrames
  <1>5. history'.busy = history.busy /\ (Excused => Excused')
    BY <1>4, ExcusedStays DEF BusyFrame
  <1>6. 1 \in DOMAIN todo => ~ Begins(todo[1]) /\ ~ Ends(todo[1])
    BY FirstPlace, HeadNamed, CountedTracked
  <1> QED
    BY <1>2, <1>3, <1>5, <1>6, CountingKept

\* What replaces the operation at the head is not counted, nor was that.
LEMMA PushedCounting ==
    ASSUME TypeInv, TypeInv', NodesOK, DomMoves, BusyHistory, Counting, Excused => Excused',
           requests' = requests, history'.busy = history.busy,
           todo # <<>>, ~ Begins(todo[1]), ~ Ends(todo[1]),
           NEW a, IsSeq(a), Do(a), \A i \in DOMAIN a : ~ Tracked(a[i])
    PROVE  Counting'
  <1>1. PICK F : F = {}
    OBVIOUS
  <1>2. F \subseteq DOMAIN a /\ \A i \in DOMAIN a : i \in F \/ ~ Tracked(a[i])
    BY <1>1
  <1>3. PICK d : MovedBy(d, F)
    BY <1>2, PushedMoved
  <1> QED
    BY <1>1, <1>3, CountingKept

\* A call of a handler, and parse, trigger nothing that is counted.
LEMMA CallCounting ==
    ASSUME TypeInv, TypeInv', OnceHistoryOK, NodesOK, DomMoves, BusyHistory, Counting, Next,
           Invoke \/ ParseContext
    PROVE  Counting'
  <1>1. todo # <<>> /\ todo[1].op \in {"invoke", "parse"}
    BY ZenonT(30) DEF Invoke, ParseContext, At
  <1>2. ~ Tracked(todo[1]) /\ ~ Fire /\ ~ Dispatch /\ ~ Send
    BY <1>1, Zenon DEF Tracked, Counts, IsDispatch, Fire, Dispatch, Send, At
  <1>3. ~ Respond
    BY <1>1 DEF Respond, Answer, Fail, Idle
  <1>4. requests' = requests
    BY <1>2, <1>3, RequestsKept
  <1>5. history'.busy = history.busy /\ (Excused => Excused')
    BY <1>2, BusyFrames, ExcusedStays DEF BusyFrame
  <1>6. \E a : IsSeq(a) /\ Do(a) /\ \A i \in DOMAIN a : a[i].op \in {"execute", "catch", "actions", "invoke"}
    <2>1. CASE Invoke
      <3>1. Do(<<>>) \/ \E a : IsSeq(a) /\ Do(a) /\ \A i \in DOMAIN a : a[i].op \in {"execute", "catch", "actions"}
        BY <2>1, InvokeCalls
      <3> QED
        BY <3>1, IsSeqEmpty
    <2>2. CASE ParseContext
      <3>1. PICK a : IsSeq(a) /\ Do(a) /\ Initialises(a)
        BY <2>2, ParseCalls
      <3>2. \A i \in DOMAIN a : a[i].op = "invoke"
        BY <3>1 DEF Initialises
      <3> QED
        BY <3>1, <3>2
    <2> QED
      BY <2>1, <2>2
  <1>7. PICK a : IsSeq(a) /\ Do(a) /\ \A i \in DOMAIN a : a[i].op \in {"execute", "catch", "actions", "invoke"}
    BY <1>6
  <1>8. \A i \in DOMAIN a : ~ Tracked(a[i])
    BY <1>7 DEF Tracked, Counts, IsDispatch
  <1> QED
    BY <1>1, <1>2, <1>4, <1>5, <1>7, <1>8, CountedTracked, PushedCounting

\* What Ajax and Submit leave: nothing that is counted, or a pair of operations that are.
Asks(x) ==
    \E o, p : /\ Do(<<o, p>>)
              /\ IsFire(o, "incajaxbefore") /\ o.site = SentAt(page, runs, x)
              /\ IsSend(p) /\ p.x = x /\ p.data.n = clock + 1

\* They leave one of the two, and the executables as they are.
LEMMA AskDoes ==
    ASSUME TypeInv, Ajax \/ Submit, NEW x, x = todo[1].x
    PROVE  /\ todo # <<>> /\ todo[1].op = "run" /\ clock' = clock + 1 /\ runs' = runs
           /\ \/ \E a : IsSeq(a) /\ Do(a) /\ \A i \in DOMAIN a : ~ Tracked(a[i])
              \/ Asks(x)
  <1>1. todo # <<>> /\ todo[1].op = "run" /\ clock' = clock + 1 /\ runs' = runs
    BY DEF Ajax, Submit, AtRun, At, dom
  <1>2. Meta(x) = MetaAt(page, runs, x)
    BY MetaIsMetaAt
  <1>3. \A u, ev, data : [op |-> "send", x |-> u, ev |-> ev, data |-> data].x = u
    OBVIOUS
  <1>4. CASE Ajax
    <2>1. Meta(x).type = "Ajax" /\ SentAt(page, runs, x) = Self(x)
      BY <1>2, <1>4, ZenonT(30) DEF Ajax, AtRun, SentAt, Self, RunOf
    <2>2. \/ \E s : Do(<<FireOp("incajaxsuccess", Self(x), NoData), CompleteOp(x, todo[1].ev, s.value)>>)
          \/ \E asked : Do(<<FireOp("incajaxbefore", Self(x), NoData),
                             [op |-> "send", x |-> x, ev |-> todo[1].ev, data |-> [n |-> clock + 1, asked |-> asked]]>>)
      BY <1>4 DEF Ajax
    <2>3. CASE \E s : Do(<<FireOp("incajaxsuccess", Self(x), NoData), CompleteOp(x, todo[1].ev, s.value)>>)
      <3>a. PICK s : Do(<<FireOp("incajaxsuccess", Self(x), NoData), CompleteOp(x, todo[1].ev, s.value)>>)
        BY <2>3
      <3>b. PICK o, p : o = FireOp("incajaxsuccess", Self(x), NoData) /\ p = CompleteOp(x, todo[1].ev, s.value)
        OBVIOUS
      <3>1. Do(<<o, p>>)
        BY <3>a, <3>b
      <3>2. ~ Tracked(o) /\ ~ Tracked(p)
        BY <3>b DEF FireOp, CompleteOp, Tracked, Counts, IsDispatch, AjaxEvents
      <3>3. PICK a : a = <<o, p>>
        OBVIOUS
      <3>4. IsSeq(a) /\ \A i \in DOMAIN a : a[i] = o \/ a[i] = p
        BY <3>3, IsSeqTuples
      <3> QED
        BY <1>1, <3>1, <3>2, <3>3, <3>4
    <2>4. CASE \E asked : Do(<<FireOp("incajaxbefore", Self(x), NoData),
                               [op |-> "send", x |-> x, ev |-> todo[1].ev, data |-> [n |-> clock + 1, asked |-> asked]]>>)
      <3>1. PICK asked : Do(<<FireOp("incajaxbefore", Self(x), NoData),
                              [op |-> "send", x |-> x, ev |-> todo[1].ev, data |-> [n |-> clock + 1, asked |-> asked]]>>)
        BY <2>4
      <3>2. PICK o, p : /\ o = FireOp("incajaxbefore", Self(x), NoData)
                        /\ p = [op |-> "send", x |-> x, ev |-> todo[1].ev, data |-> [n |-> clock + 1, asked |-> asked]]
        OBVIOUS
      <3>3. IsFire(o, "incajaxbefore") /\ o.site = Self(x) /\ IsSend(p) /\ p.x = x /\ p.data.n = clock + 1
        BY <3>2 DEF FireOp, IsFire, IsSend
      <3> QED
        BY <1>1, <2>1, <3>1, <3>2, <3>3 DEF Asks
    <2> QED
      BY <2>2, <2>3, <2>4, ZenonT(30)
  <1>5. CASE Submit
    <2>1. SentAt(page, runs, x) = Doc
      BY <1>2, <1>5 DEF Submit, AtRun, SentAt
    <2>2. \/ Do(<<>>)
          \/ Do(<<FireOp("incajaxbefore", Doc, NoData),
                  [op |-> "send", x |-> x, ev |-> todo[1].ev, data |-> [n |-> clock + 1, asked |-> <<>>]]>>)
      BY <1>5 DEF Submit
    <2>3. CASE Do(<<>>)
      BY <1>1, <2>3, IsSeqEmpty
    <2>4. CASE Do(<<FireOp("incajaxbefore", Doc, NoData),
                    [op |-> "send", x |-> x, ev |-> todo[1].ev, data |-> [n |-> clock + 1, asked |-> <<>>]]>>)
      <3>1. PICK o, p : /\ o = FireOp("incajaxbefore", Doc, NoData)
                        /\ p = [op |-> "send", x |-> x, ev |-> todo[1].ev, data |-> [n |-> clock + 1, asked |-> <<>>]]
        OBVIOUS
      <3>2. IsFire(o, "incajaxbefore") /\ o.site = Doc /\ IsSend(p) /\ p.x = x /\ p.data.n = clock + 1
        BY <3>1 DEF FireOp, IsFire, IsSend
      <3> QED
        BY <1>1, <2>1, <2>4, <3>1, <3>2 DEF Asks
    <2> QED
      BY <2>2, <2>3, <2>4
  <1> QED
    BY <1>4, <1>5

\* What is asked for is to be sent after its IncAjaxBefore.
LEMMA AskCounting ==
    ASSUME TypeInv, TypeInv', NodesOK, DomMoves, BusyHistory, Counting, Next, Ajax \/ Submit
    PROVE  Counting'
  <1>1. PICK x : x = todo[1].x
    OBVIOUS
  <1>2. /\ todo # <<>> /\ todo[1].op = "run" /\ clock' = clock + 1 /\ runs' = runs
        /\ \/ \E a : IsSeq(a) /\ Do(a) /\ \A i \in DOMAIN a : ~ Tracked(a[i])
           \/ Asks(x)
    BY <1>1, AskDoes
  <1>3. ~ Tracked(todo[1]) /\ ~ Fire /\ ~ Dispatch /\ ~ Send
    BY <1>2 DEF Tracked, Counts, IsDispatch, Fire, Dispatch, Send, At
  <1>4. ~ Respond
    BY <1>2 DEF Respond, Answer, Fail, Idle
  <1>5. requests' = requests
    BY <1>3, <1>4, RequestsKept
  <1>6. history'.busy = history.busy /\ (Excused => Excused')
    BY <1>3, BusyFrames, ExcusedStays DEF BusyFrame
  <1>7. CASE \E a : IsSeq(a) /\ Do(a) /\ \A i \in DOMAIN a : ~ Tracked(a[i])
    BY <1>2, <1>3, <1>5, <1>6, <1>7, CountedTracked, PushedCounting
  <1>8. CASE Asks(x)
    <2>1. PICK o, p : /\ Do(<<o, p>>)
                      /\ IsFire(o, "incajaxbefore") /\ o.site = SentAt(page, runs, x)
                      /\ IsSend(p) /\ p.x = x /\ p.data.n = clock + 1
      BY <1>8 DEF Asks
    <2>2. PICK a, F : a = <<o, p>> /\ F = {1, 2}
      OBVIOUS
    <2>3. IsSeq(a) /\ Do(a) /\ DOMAIN a = {1, 2} /\ a[1] = o /\ a[2] = p
      BY <2>1, <2>2, IsSeqTuples
    <2>4. F \subseteq DOMAIN a /\ \A i \in DOMAIN a : i \in F \/ ~ Tracked(a[i])
      BY <2>2, <2>3
    <2>5. /\ \E d : MovedBy(d, F)
          /\ \A i \in DOMAIN a : i \in DOMAIN todo' /\ todo'[i] = a[i]
      BY <1>2, <2>3, <2>4, PushedMoved
    <2>6. PICK d : MovedBy(d, F)
      BY <2>5
    <2>7. 1 \in DOMAIN todo' /\ 2 \in DOMAIN todo' /\ todo'[1] = o /\ todo'[2] = p
      BY <2>3, <2>5
    <2>8. clock \in Nat
      BY DEF TypeInv, CountersOK
    <2>9. Executable(runs, x)
      BY <1>1, <1>2, AtHeadExecutable
    <2>10. o.site[2] \in Nat /\ o.site[2] <= clock
      BY <2>1, <2>9, SentKnown
    <2>11. /\ o.op = "fire" /\ o.type = "incajaxbefore" /\ p.op = "send"
      BY <2>1 DEF IsFire, IsSend
    <2>12. AskOK(node', clock', o)
      BY <1>2, <2>8, <2>10, <2>11 DEF AskOK, IsDispatch, IsSend
    <2>13. AskOK(node', clock', p)
      BY <1>2, <2>1, <2>8, <2>11 DEF AskOK, IsDispatch
    <2>14. ~ IsSend(o) /\ ~ IsFire(p, "incajaxbefore")
      BY <2>11 DEF IsSend, IsFire
    <2>15. PairAt(todo, 1)'
      <3>1. SentAt(page', runs', p.x) = o.site
        BY <1>2, <2>1 DEF DomMoves
      <3> QED
        BY <2>1, <2>7, <3>1 DEF PairAt
    <2>16. NewAsked(F)
      <3>1. \A i \in F : i = 1 \/ i = 2
        BY <2>2
      <3>2. \A i \in F : AskOK(node', clock', todo'[i])
        BY <2>7, <2>12, <2>13, <3>1
      <3>3. \A i \in F : IsSend(todo'[i]) => i = 2
        BY <2>7, <2>14, <3>1
      <3>4. p.data.n \in Nat /\ p.data.n > clock
        BY <2>1, <2>8
      <3>5. \A i \in F : IsSend(todo'[i]) => todo'[i].data.n \in Nat /\ todo'[i].data.n > clock
        BY <2>7, <3>3, <3>4
      <3>6. \A i \in F : IsFire(todo'[i], "incajaxbefore") => i = 1
        BY <2>7, <2>14, <3>1
      <3> QED
        BY <2>15, <3>2, <3>3, <3>5, <3>6 DEF NewAsked
    <2>17. HeadAsked
      BY <1>2 DEF HeadAsked, IsSend, IsFire
    <2>18. PICK B, E : B = {i \in F : Begins(todo'[i])} /\ E = {i \in F : Ends(todo'[i])}
      OBVIOUS
    <2>19. Begins(o) /\ ~ Ends(o) /\ Ends(p) /\ ~ Begins(p)
      BY <2>11 DEF Begins, Ends, Going, IsFire, IsSend, IsDispatch
    <2>20. B = {1} /\ E = {2}
      BY <2>2, <2>7, <2>18, <2>19
    <2>21. Cardinality(B) = 1 /\ Cardinality(E) = 1
      BY <2>20, FS_Singleton
    <2>22. 1 \notin EndsAt /\ 1 \notin BeginsAt
      BY <1>3, CountedTracked DEF EndsAt, BeginsAt
    <2>23. IsFiniteSet(requests)
      BY DEF Counting, Numbered
    <2>24. Cardinality(requests') = Cardinality(requests) /\ Cardinality(requests) \in Nat
      BY <1>5, <2>23, FS_CardinalityType
    <2>25. history.busy \in Int
      BY DEF BusyHistory
    <2>26. Counted(B, E)
      BY <1>6, <2>21, <2>22, <2>24, <2>25 DEF Counted
    <2>27. IsFiniteSet(requests') /\ \A r \in requests' : r \in requests
      BY <1>5, <2>23
    <2>28. \A r \in requests : r \in requests'
      BY <1>5
    <2> QED
      BY <1>6, <2>6, <2>16, <2>17, <2>18, <2>26, <2>27, <2>28, CountingJoined
  <1> QED
    BY <1>2, <1>7, <1>8

\* What is sent is a request with a number of its own.
LEMMA SendCounting ==
    ASSUME TypeInv, TypeInv', NodesOK, DomMoves, BusyHistory, Counting, CountsItself(page), Next, Send
    PROVE  Counting'
  <1>1. PICK o : o = todo[1]
    OBVIOUS
  <1>2. todo # <<>> /\ IsSend(o) /\ o.op = "send"
    BY <1>1 DEF Send, At, IsSend
  <1>3. 1 \in DOMAIN todo
    BY <1>2, FirstPlace
  <1>4. ~ Asking /\ ~ Fire /\ ~ Dispatch
    BY <1>1, <1>2 DEF Asking, AtRun, At, Respond, Answer, Fail, Idle, Fire, Dispatch
  <1>5. QuietTodo
    BY NothingLeftQuiet
  <1>6. PICK d : MovedBy(d, {})
    BY <1>4, <1>5, QuietMoved
  <1>7. history'.busy = history.busy /\ (Excused => Excused')
    BY <1>4, BusyFrames, ExcusedStays DEF BusyFrame
  <1>8. PICK r : r = [x |-> o.x, ev |-> o.ev, data |-> o.data]
    OBVIOUS
  <1>9. r.x = o.x /\ r.data = o.data
    BY <1>8
  <1>10. requests' = requests \cup {r}
    BY <1>1, <1>8 DEF Send
  <1>11. Numbered
    BY DEF Counting
  <1>12. IsFiniteSet(requests)
    BY <1>11 DEF Numbered
  <1>13. r \notin requests
    <2>1. \A q \in requests : IsSend(todo[1]) => todo[1].data.n # q.data.n
      BY <1>3, <1>11 DEF Numbered
    <2> QED
      BY <1>1, <1>2, <1>9, <2>1
  <1>14. IsFiniteSet(requests') /\ Cardinality(requests') = Cardinality(requests) + 1
    BY <1>10, <1>12, <1>13, FS_AddElement
  <1>15. Cardinality(requests) \in Nat
    BY <1>12, FS_CardinalityType
  <1>16. PICK F, B, E : F = {} /\ B = {i \in F : Begins(todo'[i])} /\ E = {i \in F : Ends(todo'[i])}
    OBVIOUS
  <1>17. MovedBy(d, F) /\ NewAsked(F) /\ \A i \in F : ~ IsSend(todo'[i])
    BY <1>6, <1>16 DEF NewAsked
  <1>18. Cardinality(B) = 0 /\ Cardinality(E) = 0
    BY <1>16, FS_EmptySet
  <1>19. 1 \in EndsAt /\ 1 \notin BeginsAt
    BY <1>1, <1>2, <1>3 DEF EndsAt, BeginsAt, Ends, Begins, Going, IsFire, IsDispatch
  <1>20. history.busy \in Int
    BY DEF BusyHistory
  <1>21. Counted(B, E)
    BY <1>7, <1>14, <1>15, <1>18, <1>19, <1>20 DEF Counted
  <1>22. HeadAsked
    BY <1>1, <1>2, <1>9, <1>10 DEF HeadAsked, IsFire
  <1>23. \A q \in requests' : \/ q \in requests
                              \/ /\ 1 \in DOMAIN todo /\ IsSend(todo[1]) /\ q.data = todo[1].data
                                 /\ \A i \in F : ~ IsSend(todo'[i])
    BY <1>1, <1>2, <1>3, <1>9, <1>10, <1>17
  <1>24. \A q \in requests : q \in requests'
    BY <1>10
  <1> QED
    BY <1>7, <1>14, <1>16, <1>17, <1>21, <1>22, <1>23, <1>24, CountingJoined

-------------------------------------------------------------------------------
(* The requests that are counted: answers *)

\* o is in s, and nothing else that is tracked.
One(s, o) ==
    /\ IsSeq(s)
    /\ \E p \in DOMAIN s : s[p] = o /\ \A i \in DOMAIN s : i # p => ~ Tracked(s[i])

\* What comes before is not tracked.
LEMMA OneBehind ==
    ASSUME NEW s, IsSeq(s), \A i \in DOMAIN s : ~ Tracked(s[i]), NEW t, NEW o, One(t, o), NEW u, u = s \o t
    PROVE  One(u, o)
  <1>1. IsSeq(t)
    BY DEF One
  <1>2. PICK p \in DOMAIN t : t[p] = o /\ \A i \in DOMAIN t : i # p => ~ Tracked(t[i])
    BY DEF One
  <1>3. PICK n, m : n = Len(s) /\ m = Len(t)
    OBVIOUS
  <1>4. n \in Nat /\ m \in Nat /\ DOMAIN s = 1..n /\ DOMAIN t = 1..m
    BY <1>1, <1>3, IsSeqDom
  <1>5. IsSeq(u) /\ DOMAIN u = 1..(n + m) /\ (\A i \in 1..n : u[i] = s[i]) /\ (\A i \in 1..m : u[n + i] = t[i])
    BY <1>1, <1>3, IsSeqConcat
  <1>6. n + p \in DOMAIN u /\ u[n + p] = o
    BY <1>2, <1>4, <1>5
  <1>7. ASSUME NEW i \in DOMAIN u, i # n + p PROVE ~ Tracked(u[i])
    <2>1. CASE i \in 1..n
      BY <1>4, <1>5, <2>1
    <2>2. CASE i \notin 1..n
      <3>1. PICK j : j = i - n
        OBVIOUS
      <3>2. j \in 1..m /\ i = n + j
        BY <1>4, <1>5, <2>2, <3>1
      <3>3. j # p
        BY <1>7, <3>2
      <3>4. u[i] = t[j] /\ j \in DOMAIN t
        BY <1>4, <1>5, <3>2
      <3> QED
        BY <1>2, <3>3, <3>4
    <2> QED
      BY <2>1, <2>2
  <1> QED
    BY <1>5, <1>6, <1>7 DEF One

\* o beside something else.
LEMMA OneOfTwo ==
    ASSUME NEW o, NEW p, ~ Tracked(p)
    PROVE  One(<<o, p>>, o) /\ One(<<p, o>>, o)
  <1>1. \A u, v : DOMAIN <<u, v>> = {1, 2} /\ <<u, v>>[1] = u /\ <<u, v>>[2] = v
    OBVIOUS
  <1>2. PICK s, t : s = <<o, p>> /\ t = <<p, o>>
    OBVIOUS
  <1>3. /\ IsSeq(s) /\ DOMAIN s = {1, 2} /\ s[1] = o /\ s[2] = p
        /\ IsSeq(t) /\ DOMAIN t = {1, 2} /\ t[1] = p /\ t[2] = o
    BY <1>1, <1>2, IsSeqTuples
  <1>4. One(s, o) /\ One(t, o)
    BY <1>3 DEF One
  <1> QED
    BY <1>2, <1>4

\* What Answer and Fail leave: one event that ends the request, where the request was sent from.
EndsRequest(r, o) ==
    /\ One(todo', o) /\ IsFire(o, "incajaxcomplete")
    /\ o.site = Doc \/ o.site = Self(r.x)
    /\ o.site = SentAt(page, runs, r.x) \/ SentAt(page, runs, r.x) = Doc

\* Self is where an executable is sent from that is no Submit.
LEMMA SelfSent ==
    ASSUME NEW x
    PROVE  SentAt(page, runs, x) = IF Meta(x).type = "Submit" THEN Doc ELSE Self(x)
  BY MetaIsMetaAt DEF SentAt, Self, RunOf

\* Answer leaves it: before the completion when it was a Submit, else after it.
LEMMA AnswerDoes ==
    ASSUME NEW r, Answer(r)
    PROVE  \E o : EndsRequest(r, o)
  <1>1. PICK success, redirect :
           LET result == Result(success, r.data, redirect)
               site == IF IsSubmit(r) THEN Doc ELSE Self(r.x)
               d == FireOp("incajaxcomplete", site, r.data)
               c == CompleteOp(r.x, r.ev, result)
               kept == IF Meta(r.x).localCache
                          THEN <<[op |-> "store", key |-> <<Meta(r.x).arg, r.data.asked>>,
                                    value |-> result]>> ELSE <<>>
           IN  todo' = <<FireOp("incajaxsuccess", site, r.data)>>
                          \o IF IsSubmit(r) THEN <<d, c>> ELSE kept \o <<c, d>>
    BY DEF Answer
  <1> DEFINE result == Result(success, r.data, redirect)
             site == IF IsSubmit(r) THEN Doc ELSE Self(r.x)
             o == FireOp("incajaxsuccess", site, r.data)
             d == FireOp("incajaxcomplete", site, r.data)
             c == CompleteOp(r.x, r.ev, result)
             s == [op |-> "store", key |-> <<Meta(r.x).arg, r.data.asked>>, value |-> result]
             kept == IF Meta(r.x).localCache THEN <<s>> ELSE <<>>
  <1>2. IsFire(d, "incajaxcomplete") /\ d.site = site
    BY DEF FireOp, IsFire
  <1>3. site = SentAt(page, runs, r.x) /\ (site = Doc \/ site = Self(r.x))
    BY SelfSent DEF IsSubmit
  <1>4. ~ Tracked(o)
    BY DEF FireOp, Tracked, Counts, IsDispatch, AjaxEvents
  <1>5. ~ Tracked(c)
    BY DEF CompleteOp, Tracked, Counts, IsDispatch
  <1>6. ~ Tracked(s)
    BY DEF Tracked, Counts, IsDispatch
  <1>7. todo' = <<o>> \o IF IsSubmit(r) THEN <<d, c>> ELSE kept \o <<c, d>>
    BY <1>1
  <1>8. kept = <<s>> \/ kept = <<>>
    OBVIOUS
  <1> HIDE DEF result, site, o, d, c, s, kept
  <1>9. \A u : IsSeq(<<u>>) /\ DOMAIN <<u>> = {1} /\ <<u>>[1] = u
    <2>1. \A u : DOMAIN <<u>> = {1} /\ <<u>>[1] = u
      OBVIOUS
    <2> QED
      BY <2>1, IsSeqTuples
  <1>10. IsSeq(kept) /\ \A i \in DOMAIN kept : ~ Tracked(kept[i])
    BY <1>6, <1>8, <1>9, IsSeqEmpty
  <1>11. One(<<d, c>>, d) /\ One(<<c, d>>, d)
    BY <1>5, OneOfTwo
  <1>12. PICK cd, more : cd = <<c, d>> /\ more = kept \o cd
    OBVIOUS
  <1>13. One(more, d)
    BY <1>10, <1>11, <1>12, OneBehind
  <1>14. PICK last : last = IF IsSubmit(r) THEN <<d, c>> ELSE more
    OBVIOUS
  <1>15. One(last, d)
    BY <1>11, <1>13, <1>14
  <1>16. PICK first, all : first = <<o>> /\ all = first \o last
    OBVIOUS
  <1>17. IsSeq(first) /\ \A i \in DOMAIN first : ~ Tracked(first[i])
    BY <1>4, <1>9, <1>16
  <1>18. One(all, d)
    BY <1>15, <1>16, <1>17, OneBehind
  <1>19. todo' = all
    BY <1>7, <1>12, <1>14, <1>16
  <1>20. EndsRequest(r, d)
    BY <1>2, <1>3, <1>18, <1>19 DEF EndsRequest
  <1> QED
    BY <1>20, Zenon

\* Fail leaves it after incajaxerror.
LEMMA FailDoes ==
    ASSUME NEW r, Fail(r)
    PROVE  \E o : EndsRequest(r, o)
  <1>1. PICK p, o : /\ p = FireOp("incajaxerror", Self(r.x), NoData)
                    /\ o = FireOp("incajaxcomplete", Self(r.x), NoData)
    OBVIOUS
  <1>2. todo' = <<p, o>>
    BY <1>1 DEF Fail
  <1>3. ~ Tracked(p) /\ IsFire(o, "incajaxcomplete") /\ o.site = Self(r.x)
    BY <1>1 DEF FireOp, IsFire, Tracked, Counts, IsDispatch, AjaxEvents
  <1>4. One(todo', o)
    BY <1>2, <1>3, OneOfTwo
  <1>5. EndsRequest(r, o)
    BY <1>3, <1>4, SelfSent DEF EndsRequest
  <1> QED
    BY <1>5

\* What begins when nothing is left: those at the positions F are counted.
LEMMA FreshMoved ==
    ASSUME TypeInv, TypeInv', todo = <<>>, NEW F, F \subseteq DOMAIN todo',
           \A i \in DOMAIN todo' : i \in F \/ ~ Tracked(todo'[i])
    PROVE  \E d : MovedBy(d, F)
  <1>1. DOMAIN todo = {}
    BY FirstPlace
  <1>2. IsSeq(todo')
    BY DEF TypeInv, OpsOK
  <1>3. PICK n : n = Len(todo')
    OBVIOUS
  <1>4. n \in Nat /\ DOMAIN todo' = 1..n
    BY <1>2, <1>3, IsSeqDom
  <1>5. IsFiniteSet(F)
    <2>1. IsFiniteSet(DOMAIN todo') /\ F \in SUBSET DOMAIN todo'
      BY <1>4, FS_Interval
    <2> QED
      BY <2>1, FS_Subset
  <1>6. PICK d \in Int : d = 0 - n
    BY <1>4
  <1>7. \A i \in F : i \in DOMAIN todo' /\ ~ (i + d > 1)
    BY <1>4, <1>6
  <1>8. MovedBy(d, F)
    BY <1>1, <1>5, <1>7 DEF MovedBy
  <1> QED
    BY <1>8

\* A site of an executable is not ahead of the clock.
LEMMA SelfKnown ==
    ASSUME TypeInv, NodesOK, NEW x, Executable(runs, x)
    PROVE  Self(x)[2] \in Nat /\ Self(x)[2] <= clock
  <1>1. x[1] \in Element /\ x[2] \in DOMAIN runs[x[1]]
    BY DEF Executable
  <1>2. PICK n : n = runs[x[1]][x[2]].incarnation
    OBVIOUS
  <1>3. n \in Nat /\ n <= clock
    BY <1>1, <1>2 DEF TypeInv, AreRuns, IsRun, NodesOK
  <1>4. Self(x) = <<x[1], n>>
    BY <1>2 DEF Self, RunOf
  <1> QED
    BY <1>3, <1>4

\* A request that ends is one less, and its IncAjaxComplete is to come.
LEMMA RespondCounting ==
    ASSUME TypeInv, TypeInv', NodesOK, DomMoves, BusyHistory, Counting, Next, Respond
    PROVE  Counting'
  <1>1. PICK r \in requests : Answer(r) \/ Fail(r)
    BY DEF Respond
  <1>2. todo = <<>> /\ requests' = requests \ {r}
    BY <1>1 DEF Answer, Fail, Idle
  <1>3. runs' = runs /\ node' = node /\ clock' = clock /\ page' = page
    BY <1>1 DEF Answer, Fail, dom, rest
  <1>4. PICK o : EndsRequest(r, o)
    BY <1>1, AnswerDoes, FailDoes
  <1>5. PICK p \in DOMAIN todo' : todo'[p] = o /\ \A i \in DOMAIN todo' : i # p => ~ Tracked(todo'[i])
    BY <1>4 DEF EndsRequest, One
  <1>6. PICK F : F = {p}
    OBVIOUS
  <1>7. F \subseteq DOMAIN todo' /\ \A i \in DOMAIN todo' : i \in F \/ ~ Tracked(todo'[i])
    BY <1>5, <1>6
  <1>8. PICK d : MovedBy(d, F)
    BY <1>2, <1>7, FreshMoved
  <1>9. ~ Fire /\ ~ Dispatch
    BY <1>2 DEF Fire, Dispatch, At
  <1>10. history'.busy = history.busy /\ (Excused => Excused')
    BY <1>9, BusyFrames, ExcusedStays DEF BusyFrame
  <1>11. o.op = "fire" /\ o.type = "incajaxcomplete" /\ IsFire(o, "incajaxcomplete")
    BY <1>4 DEF EndsRequest, IsFire
  <1>12. Executable(runs, r.x)
    BY DEF TypeInv, WaitingOK
  <1>13. clock \in Nat
    BY DEF TypeInv, CountersOK
  <1>14. o.site[2] \in Nat /\ o.site[2] <= clock
    <2>1. CASE o.site = Doc
      <3>1. Doc[2] = 0
        BY DEF Doc
      <3> QED
        BY <1>13, <2>1, <3>1
    <2>2. CASE o.site = Self(r.x)
      BY <1>12, <2>2, SelfKnown
    <2> QED
      BY <1>4, <2>1, <2>2 DEF EndsRequest
  <1>15. AskOK(node', clock', o)
    BY <1>3, <1>11, <1>14 DEF AskOK, IsDispatch, IsSend
  <1>16. ~ IsSend(o) /\ ~ IsFire(o, "incajaxbefore")
    BY <1>11 DEF IsSend, IsFire
  <1>17. NewAsked(F)
    BY <1>5, <1>6, <1>15, <1>16 DEF NewAsked
  <1>18. 1 \notin DOMAIN todo
    BY <1>2, FirstPlace
  <1>19. HeadAsked
    BY <1>18 DEF HeadAsked
  <1>20. PICK B, E : B = {i \in F : Begins(todo'[i])} /\ E = {i \in F : Ends(todo'[i])}
    OBVIOUS
  <1>21. Ends(o) /\ ~ Begins(o)
    BY <1>11 DEF Begins, Ends, Going, IsFire, IsDispatch
  <1>22. B = {} /\ E = {p}
    BY <1>5, <1>6, <1>20, <1>21
  <1>23. Cardinality(B) = 0 /\ Cardinality(E) = 1
    BY <1>22, FS_EmptySet, FS_Singleton
  <1>24. 1 \notin EndsAt /\ 1 \notin BeginsAt
    BY <1>18 DEF EndsAt, BeginsAt
  <1>25. IsFiniteSet(requests)
    BY DEF Counting, Numbered
  <1>26. IsFiniteSet(requests') /\ Cardinality(requests') = Cardinality(requests) - 1 /\ Cardinality(requests) \in Nat
    BY <1>2, <1>25, FS_RemoveElement, FS_CardinalityType
  <1>27. history.busy \in Int
    BY DEF BusyHistory
  <1>28. Counted(B, E)
    BY <1>10, <1>23, <1>24, <1>26, <1>27 DEF Counted
  <1>29. \A q \in requests' : q \in requests
    BY <1>2
  <1>30. ASSUME NEW q \in requests, Gone(node, SentAt(page, runs, q.x)) PROVE q \in requests' \/ Doomed'
    <2>1. CASE q # r
      BY <1>2, <2>1
    <2>2. CASE q = r
      <3>1. SentAt(page, runs, q.x) # Doc
        BY <1>30 DEF Gone
      <3>2. Gone(node', o.site)
        BY <1>3, <1>4, <1>30, <2>2, <3>1 DEF EndsRequest
      <3>3. DoomedBy(todo[p])'
        BY <1>5, <1>11, <3>2 DEF DoomedBy
      <3> QED
        BY <1>5, <3>3 DEF Doomed
    <2> QED
      BY <2>1, <2>2
  <1> QED
    BY <1>8, <1>10, <1>17, <1>19, <1>20, <1>26, <1>28, <1>29, <1>30, CountingJoined

-------------------------------------------------------------------------------
(* The requests that are counted: events that go around *)

\* The operation at the head is replaced by a dispatch, after calls that are not counted.
LEMMA DispatchedCounting ==
    ASSUME TypeInv, TypeInv', NodesOK, DomMoves, BusyHistory, Counting, Excused => Excused',
           requests' = requests, HeadAsked, todo # <<>>,
           NEW a, NEW c, Do(a), One(a, c), c.op = "dispatch", AskOK(node', clock', c),
           NEW b \in {0, 1}, b = 1 <=> Begins(c), NEW e \in {0, 1}, e = 1 <=> Ends(c),
           \/ Excused' \/ Doomed
           \/ history'.busy = history.busy + (e - IF 1 \in EndsAt THEN 1 ELSE 0)
                                           - (b - IF 1 \in BeginsAt THEN 1 ELSE 0)
    PROVE  Counting'
  <1>1. IsSeq(a)
    BY DEF One
  <1>2. PICK p \in DOMAIN a : a[p] = c /\ \A i \in DOMAIN a : i # p => ~ Tracked(a[i])
    BY DEF One
  <1>3. PICK F : F = {p}
    OBVIOUS
  <1>4. F \subseteq DOMAIN a /\ \A i \in DOMAIN a : i \in F \/ ~ Tracked(a[i])
    BY <1>2, <1>3
  <1>5. /\ \E d : MovedBy(d, F)
        /\ \A i \in DOMAIN a : i \in DOMAIN todo' /\ todo'[i] = a[i]
    BY <1>1, <1>4, PushedMoved
  <1>6. PICK d : MovedBy(d, F)
    BY <1>5
  <1>7. \A i \in F : i = p /\ todo'[i] = c
    BY <1>2, <1>3, <1>5
  <1>8. ~ IsSend(c) /\ ~ IsFire(c, "incajaxbefore")
    BY DEF IsSend, IsFire
  <1>9. NewAsked(F)
    BY <1>7, <1>8 DEF NewAsked
  <1>10. PICK B, E : B = {i \in F : Begins(todo'[i])} /\ E = {i \in F : Ends(todo'[i])}
    OBVIOUS
  <1>11. B = (IF Begins(c) THEN {p} ELSE {}) /\ E = (IF Ends(c) THEN {p} ELSE {})
    BY <1>3, <1>7, <1>10
  <1>12. Cardinality({p}) = 1 /\ Cardinality({}) = 0
    BY FS_EmptySet, FS_Singleton
  <1>13. Cardinality(B) = b /\ Cardinality(E) = e
    BY <1>11, <1>12
  <1>14. IsFiniteSet(requests) /\ Cardinality(requests) \in Nat
    BY FS_CardinalityType DEF Counting, Numbered
  <1>15. Cardinality(requests') - Cardinality(requests) = 0
    BY <1>14
  <1>16. AskedOK
    BY DEF Counting
  <1>17. IsFiniteSet(requests') /\ (\A r \in requests' : r \in requests) /\ (\A r \in requests : r \in requests')
    BY <1>14
  <1>18. Doomed => Doomed' \/ Excused'
    BY <1>6, <1>16, <1>17, DoomedJoined DEF HeadAsked
  <1>19. history.busy \in Int
    BY DEF BusyHistory
  <1>20. Counted(B, E)
    BY <1>13, <1>15, <1>18, <1>19 DEF Counted
  <1> QED
    BY <1>6, <1>9, <1>10, <1>17, <1>20, CountingJoined

\* The path of an element leads to document.
LEMMA PathNotEmpty ==
    ASSUME NEW e \in Element, NEW p, p = [i \in DOMAIN Path[e] |-> <<Path[e][i], node[Path[e][i]]>>] \o <<Doc>>
    PROVE  p # <<>>
  <1>1. PICK q : q = Path[e]
    OBVIOUS
  <1>2. PICK s : s = [i \in DOMAIN q |-> <<q[i], node[q[i]]>>]
    OBVIOUS
  <1>3. IsSeq(q)
    BY <1>1, PathAssumption, IsSeqDef
  <1>4. IsSeq(s)
    <2>1. s = [i \in DOMAIN q |-> s[i]]
      BY <1>2
    <2> QED
      BY <1>3, <2>1, Mapped
  <1>5. PICK t : t = <<Doc>>
    OBVIOUS
  <1>6. IsSeq(t) /\ Len(t) = 1
    BY <1>5, IsSeqTuples
  <1>7. p = s \o t
    BY <1>1, <1>2, <1>5
  <1>8. Len(p) = Len(s) + 1 /\ Len(s) \in Nat
    <2>1. Len(s \o t) = Len(s) + Len(t)
      BY <1>4, <1>6, IsSeqConcat
    <2>2. Len(s) \in Nat
      BY <1>4, IsSeqDom
    <2> QED
      BY <1>6, <1>7, <2>1, <2>2
  <1> QED
    BY <1>8, IsSeqEmpty

\* Fire leaves a dispatch: without a path only when the element is gone.
LEMMA FireDoes ==
    ASSUME TypeInv, NodesOK, DomMoves, Fire
    PROVE  /\ todo # <<>> /\ todo[1].op = "fire" /\ 1 \in DOMAIN todo
           /\ \E o : /\ Do(<<o>>) /\ o.op = "dispatch" /\ o.ev.type = todo[1].type
                     /\ PathOK(node', clock', o.path)
                     /\ o.path = <<>> => Gone(node, todo[1].site)
  <1>1. todo # <<>> /\ todo[1].op = "fire"
    BY Zenon DEF Fire, At
  <1>2. 1 \in DOMAIN todo
    BY <1>1, FirstPlace
  <1>3. clock \in Nat
    BY Zenon DEF TypeInv, CountersOK
  <1> DEFINE f == todo[1]
             p == IF Present(f.site)
                     THEN [i \in DOMAIN Path[f.site[1]] |->
                             <<Path[f.site[1]][i], node[Path[f.site[1]][i]]>>] \o <<Doc>>
                     ELSE IF f.site = Doc THEN <<Doc>> ELSE <<>>
             ev == [type |-> f.type, n |-> clock + 1, data |-> f.data]
             o == [op |-> "dispatch", path |-> p, ev |-> ev]
  <1>4. Do(<<o>>)
    BY Zenon DEF Fire
  <1>5. o.op = "dispatch" /\ o.ev.type = todo[1].type /\ o.path = p
    BY Zenon
  <1>6. \/ \E e \in Element : p = [i \in DOMAIN Path[e] |-> <<Path[e][i], node[Path[e][i]]>>] \o <<Doc>>
        \/ p = <<Doc>>
        \/ p = <<>> /\ Gone(node, f.site)
    BY Zenon DEF Present, Gone
  <1> HIDE DEF p, o
  <1>7. PathOK(node, clock, p) /\ (p = <<>> => Gone(node, f.site))
    <2>1. CASE \E e \in Element : p = [i \in DOMAIN Path[e] |-> <<Path[e][i], node[Path[e][i]]>>] \o <<Doc>>
      BY <1>3, <2>1, PathOfElement, PathNotEmpty
    <2>2. CASE p = <<Doc>>
      <3>1. <<Doc>> # <<>>
        OBVIOUS
      <3> QED
        BY <2>2, <3>1, PathOfNone
    <2>3. CASE p = <<>> /\ Gone(node, f.site)
      BY <2>3, PathOfNone
    <2> QED
      BY <1>6, <2>1, <2>2, <2>3
  <1>8. PathOK(node', clock', p)
    BY <1>7, PathStays
  <1> QED
    BY <1>1, <1>2, <1>4, <1>5, <1>7, <1>8

\* One operation is a list of one.
LEMMA OneAlone ==
    ASSUME NEW o
    PROVE  One(<<o>>, o)
  <1>1. PICK s : s = <<o>>
    OBVIOUS
  <1>2. IsSeq(s) /\ DOMAIN s = {1} /\ s[1] = o
    BY <1>1, IsSeqTuples
  <1>3. One(s, o)
    BY <1>2 DEF One
  <1> QED
    BY <1>1, <1>3

\* An event that is triggered is still to be counted, unless its element is gone.
LEMMA FireCounting ==
    ASSUME TypeInv, TypeInv', NodesOK, DomMoves, BusyHistory, Counting, Next, Fire
    PROVE  Counting'
  <1>1. PICK f : f = todo[1]
    OBVIOUS
  <1>2. todo # <<>> /\ f.op = "fire" /\ 1 \in DOMAIN todo
    BY <1>1, FireDoes
  <1>3. PICK o : /\ Do(<<o>>) /\ o.op = "dispatch" /\ o.ev.type = f.type
                 /\ PathOK(node', clock', o.path)
                 /\ o.path = <<>> => Gone(node, f.site)
    BY <1>1, FireDoes
  <1>4. ~ Send /\ ~ Respond
    BY <1>1, <1>2 DEF Send, At, Respond, Answer, Fail, Idle
  <1>5. requests' = requests
    BY <1>4, RequestsKept
  <1>6. /\ Excused => Excused'
        /\ f.type = "incajaxcomplete" /\ Gone(node, f.site) => Excused'
        /\ history'.busy = history.busy
    BY <1>1, ExcusedFire
  <1>7. HeadAsked
    BY <1>1, <1>2, <1>6 DEF HeadAsked, IsSend, IsFire
  <1>8. PICK a : a = <<o>>
    OBVIOUS
  <1>9. One(a, o) /\ Do(a)
    BY <1>3, <1>8, OneAlone
  <1>10. AskOK(node', clock', o)
    BY <1>3 DEF AskOK, IsSend
  <1>11. IsDispatch(o) /\ ~ IsFire(o, "incajaxbefore") /\ ~ IsFire(o, "incajaxcomplete") /\ ~ IsSend(o)
    BY <1>3 DEF IsDispatch, IsFire, IsSend
  <1>12. /\ Begins(o) <=> f.type = "incajaxbefore" /\ o.path # <<>>
         /\ Ends(o) <=> f.type = "incajaxcomplete" /\ o.path # <<>>
    BY <1>3, <1>11 DEF Begins, Ends, Going
  <1>13. /\ 1 \in BeginsAt <=> f.type = "incajaxbefore"
         /\ 1 \in EndsAt <=> f.type = "incajaxcomplete"
    BY <1>1, <1>2 DEF BeginsAt, EndsAt, Begins, Ends, Going, IsFire, IsSend, IsDispatch
  <1>14. ASSUME f.type = "incajaxbefore", o.path = <<>> PROVE Excused' \/ Doomed
    <2>1. Gone(node, f.site)
      BY <1>3, <1>14
    <2>2. Paired
      BY DEF Counting
    <2>3. CASE Excused
      BY <1>6, <2>3
    <2>4. CASE ~ Excused
      <3>1. IsFire(todo[1], "incajaxbefore")
        BY <1>1, <1>2, <1>14 DEF IsFire
      <3>2. PairAt(todo, 1)
        BY <1>2, <2>2, <2>4, <3>1 DEF Paired
      <3>3. PICK j : j = 1 + 1
        BY Zenon
      <3>4. j \in DOMAIN todo /\ IsSend(todo[j]) /\ SentAt(page, runs, todo[j].x) = f.site
        BY <1>1, <3>2, <3>3 DEF PairAt
      <3>5. DoomedBy(todo[j])
        BY <2>1, <3>4 DEF DoomedBy
      <3> QED
        BY <3>4, <3>5 DEF Doomed
    <2> QED
      BY <2>3, <2>4
  <1>15. PICK b, e : b = (IF Begins(o) THEN 1 ELSE 0) /\ e = (IF Ends(o) THEN 1 ELSE 0)
    OBVIOUS
  <1>16. b \in {0, 1} /\ (b = 1 <=> Begins(o)) /\ e \in {0, 1} /\ (e = 1 <=> Ends(o))
    BY <1>15
  <1>17. \/ Excused' \/ Doomed
         \/ history'.busy = history.busy + (e - IF 1 \in EndsAt THEN 1 ELSE 0)
                                         - (b - IF 1 \in BeginsAt THEN 1 ELSE 0)
    <2>1. history.busy \in Int
      BY DEF BusyHistory
    <2>2. CASE o.path # <<>>
      <3>1. (e = 1 <=> 1 \in EndsAt) /\ (b = 1 <=> 1 \in BeginsAt)
        BY <1>12, <1>13, <1>16, <2>2
      <3>2. e = (IF 1 \in EndsAt THEN 1 ELSE 0) /\ b = (IF 1 \in BeginsAt THEN 1 ELSE 0)
        BY <1>16, <3>1
      <3> QED
        BY <1>6, <2>1, <3>2
    <2>3. CASE o.path = <<>>
      <3>1. CASE f.type = "incajaxbefore"
        BY <1>14, <2>3, <3>1
      <3>2. CASE f.type = "incajaxcomplete"
        BY <1>3, <1>6, <2>3, <3>2
      <3>3. CASE f.type # "incajaxbefore" /\ f.type # "incajaxcomplete"
        <4>1. b = 0 /\ e = 0 /\ 1 \notin EndsAt /\ 1 \notin BeginsAt
          BY <1>12, <1>13, <1>15, <3>3
        <4> QED
          BY <1>6, <2>1, <4>1
      <3> QED
        BY <3>1, <3>2, <3>3
    <2> QED
      BY <2>2, <2>3
  <1> QED
    BY <1>2, <1>3, <1>5, <1>6, <1>7, <1>9, <1>10, <1>16, <1>17, DispatchedCounting

-------------------------------------------------------------------------------
(* The requests that are counted: handlers *)

\* An executable that asks is run by the action that is named for it.
LEMMA AskNamed ==
    ASSUME Next, AtRun("Ajax") \/ AtRun("Submit")
    PROVE  Ajax \/ Submit
  <1>1. todo # <<>> /\ todo[1].op = "run" /\ Meta(todo[1].x).type \in {"Ajax", "Submit"}
    BY DEF AtRun, At
  <1>2. \A op : op # "run" => ~ At(op)
    BY <1>1 DEF At
  <1>3. \A type : type \notin {"Ajax", "Submit"} => ~ AtRun(type)
    BY <1>1 DEF AtRun
  <1>4. ~ Idle
    BY <1>1, Zenon DEF Idle
  <1>5. ~ (Fire \/ Dispatch \/ Invoke \/ ParseContext \/ Send \/ Store)
    BY <1>2, Zenon DEF Fire, Dispatch, Invoke, ParseContext, Send, Store
  <1>6. ~ (CatchNothing \/ Actions \/ Action \/ Execute)
    BY <1>2 DEF CatchNothing, Actions, Action, Execute
  <1>7. ~ (Direct \/ Event)
    BY <1>3 DEF Direct, Event
  <1>8. ~ (Completed \/ Callback \/ CaughtNothing \/ BreakCallbacks)
    BY <1>2, ZenonT(30) DEF Completed, Callback, CaughtNothing, BreakCallbacks
  <1>9. ~ (Uncaught \/ BreakBefore \/ BreakCallback \/ RethrowCallback)
    BY <1>2, Zenon DEF Uncaught, BreakBefore, BreakCallback, RethrowCallback
  <1>10. ~ (Insert \/ Trigger \/ Break \/ Eval \/ HashStore \/ Attach \/ Detach)
    BY <1>3 DEF Insert, Trigger, Break, Eval, HashStore, Attach, Detach
  <1>11. ~ (User \/ Navigate \/ Announce \/ TimeOut \/ Tick)
    BY <1>4 DEF User, Navigate, Announce, TimeOut, Tick
  <1>12. ~ Respond
    BY <1>4 DEF Respond, Answer, Fail
  <1> QED
    BY <1>5, <1>6, <1>7, <1>8, <1>9, <1>10, <1>11, <1>12 DEF Next, Step

\* No handler of an element keeps the events of a request from document.
LEMMA NoHandlers ==
    ASSUME TypeInv, BindsOnce, CountsItself(page), NEW site, site # Doc, NEW type \in AjaxEvents,
           NEW hs, hs = Handlers(site, type)
    PROVE  \A i \in DOMAIN hs : ~ Stops(hs[i])
  <1>1. SUFFICES ASSUME DOMAIN hs # {} PROVE FALSE
    OBVIOUS
  <1>2. PICK e : e = site[1]
    OBVIOUS
  <1>3. BindsOK
    BY DEF TypeInv
  <1>4. Present(site) /\ PartOf(binds[e], {i \in DOMAIN binds[e] : type \in binds[e][i].events}, hs)
    BY <1>1, <1>2, <1>3, HandlersPart
  <1>5. PICK at : \A k \in DOMAIN hs : at[k] \in DOMAIN binds[e] /\ type \in binds[e][at[k]].events
    BY <1>4 DEF PartOf
  <1>6. PICK j : j \in DOMAIN binds[e] /\ type \in binds[e][j].events
    BY <1>1, <1>5
  <1>7. e \in Element
    BY <1>2, <1>4 DEF Present
  <1>8. type \in DocumentBinds
    BY DEF AjaxEvents, DocumentBinds
  <1>9. Canceled(page, binds[e][j], type)
    BY <1>6, <1>7, <1>8 DEF BindsOnce
  <1>10. PICK name \in DOMAIN page.metas : CancelsFrom(page.metas[name], type)
    BY <1>9 DEF Canceled
  <1>11. PICK k \in DOMAIN page.metas[name] :
            page.metas[name][k].onEventStatus = CancelAll /\ type \in page.metas[name][k].onBind
    BY <1>10 DEF CancelsFrom
  <1>12. page.metas[name][k].onBind \cap AjaxEvents = {}
    BY <1>11, ZenonT(30) DEF CountsItself
  <1> QED
    BY <1>11, <1>12

\* The dispatch that goes on, or none is left.
LEMMA DispatchLeaves ==
    ASSUME TypeInv, Dispatch, NEW d, d = todo[1], d.path # <<>>
    PROVE  /\ todo # <<>> /\ d.op = "dispatch" /\ 1 \in DOMAIN todo
           /\ \E a : /\ IsSeq(a) /\ Do(a)
                     /\ \/ /\ \A i \in DOMAIN a : ~ Tracked(a[i])
                           /\ d.path[1] # Doc
                           /\ \E i \in DOMAIN Handlers(d.path[1], d.ev.type) : Stops(Handlers(d.path[1], d.ev.type)[i])
                        \/ \E c : One(a, c) /\ c.op = "dispatch" /\ c.path = Tail(d.path) /\ c.ev = d.ev
  <1>1. /\ todo # <<>> /\ d.op = "dispatch" /\ 1 \in DOMAIN todo
        /\ \E site, hs, calls, rest2 : DispatchPushes(d, site, hs, calls, rest2)
    BY DispatchDoes
  <1>2. PICK site, hs, calls, rest2 : DispatchPushes(d, site, hs, calls, rest2)
    BY <1>1
  <1>3. PICK c : c = [op |-> "dispatch", path |-> Tail(d.path), ev |-> d.ev]
    OBVIOUS
  <1>4. c.op = "dispatch" /\ c.path = Tail(d.path) /\ c.ev = d.ev
    BY <1>3
  <1>5. PICK t : t = <<c>>
    OBVIOUS
  <1>6. /\ site = d.path[1] /\ hs = Handlers(d.path[1], d.ev.type)
        /\ calls = [i \in DOMAIN hs |-> InvokeOp(IF site = Doc THEN hs[i].site ELSE site, d.ev)]
        /\ \/ rest2 = <<>> /\ site # Doc /\ \E i \in DOMAIN hs : Stops(hs[i])
           \/ rest2 = t
        /\ Do(calls \o rest2)
    BY <1>2, <1>3, <1>5 DEF DispatchPushes
  <1>7. IsSeq(hs)
    BY <1>6, HandlersSeq, Zenon DEF TypeInv
  <1>8. IsSeq(calls) /\ DOMAIN calls = DOMAIN hs
    <2>1. calls = [i \in DOMAIN hs |-> calls[i]] /\ DOMAIN calls = DOMAIN hs
      BY <1>6, ZenonT(30)
    <2> QED
      BY <1>7, <2>1, Mapped, Zenon
  <1>9. \A i \in DOMAIN calls : calls[i].op = "invoke"
    BY <1>6, <1>8, Zenon DEF InvokeOp
  <1>10. \A i \in DOMAIN calls : ~ Tracked(calls[i])
    BY <1>9 DEF Tracked, Counts, IsDispatch
  <1>11. PICK a : a = calls \o rest2
    BY Zenon
  <1>12. Do(a)
    BY <1>6, <1>11, Zenon
  <1>13. CASE rest2 = t
    <2>1. One(t, c)
      BY <1>5, OneAlone
    <2>2. One(a, c)
      BY <1>8, <1>10, <1>11, <1>13, <2>1, OneBehind, Zenon
    <2>3. IsSeq(a)
      BY <2>2 DEF One
    <2> QED
      BY <1>1, <1>4, <1>12, <2>2, <2>3
  <1>14. CASE rest2 = <<>> /\ site # Doc /\ \E i \in DOMAIN hs : Stops(hs[i])
    <2>1. calls \o <<>> = calls
      BY <1>8, Z3 DEF IsSeq
    <2>2. a = calls
      BY <1>11, <1>14, <2>1
    <2> QED
      BY <1>1, <1>6, <1>8, <1>10, <1>12, <1>14, <2>2, Zenon
  <1> QED
    BY <1>6, <1>13, <1>14

\* What a dispatch does to the count.
LEMMA DispatchBusy ==
    ASSUME BusyHistory, Dispatch, NEW d, d = todo[1]
    PROVE  /\ d.path = <<>> => Do(<<>>)
           /\ d.path = <<>> \/ d.path[1] # Doc \/ d.ev.type \notin AjaxEvents => history'.busy = history.busy
           /\ d.path # <<>> /\ d.path[1] = Doc =>
                 /\ d.ev.type = "incajaxbefore" => history'.busy = history.busy + 1
                 /\ d.ev.type = "incajaxcomplete" => history'.busy = history.busy - 1
  <1>0. "busy" \in DOMAIN history
    BY DEF BusyHistory
  <1>1. CASE d.path = <<>>
    BY <1>1 DEF Dispatch
  <1>2. CASE d.path # <<>>
    <2>1. history' = IF d.path[1] # Doc THEN history
                     ELSE CASE d.ev.type = "incajaxbefore" -> [history EXCEPT !.busy = @ + 1]
                            [] d.ev.type = "incajaxcomplete" -> [history EXCEPT !.busy = @ - 1]
                            [] OTHER -> history
      BY <1>2 DEF Dispatch
    <2>2. d.path[1] # Doc \/ d.ev.type \notin AjaxEvents => history' = history
      BY <2>1 DEF AjaxEvents
    <2>3. d.path[1] = Doc =>
             /\ d.ev.type = "incajaxbefore" => history' = [history EXCEPT !.busy = @ + 1]
             /\ d.ev.type = "incajaxcomplete" => history' = [history EXCEPT !.busy = @ - 1]
      BY <2>1
    <2> QED
      BY <1>0, <1>2, <2>2, <2>3
  <1> QED
    BY <1>1, <1>2

\* A path that does not begin on document goes on.
LEMMA PathGoesOn ==
    ASSUME NEW nd, NEW c, NEW p, PathOK(nd, c, p), p # <<>>, NEW q, q = Tail(p)
    PROVE  /\ p[1] = Doc => q = <<>>
           /\ p[1] # Doc => q # <<>>
  <1>1. IsSeq(p)
    BY DEF PathOK
  <1>2. IsSeq(q) /\ Len(p) > 0 /\ Len(q) = Len(p) - 1
    BY <1>1, IsSeqTail
  <1>3. Len(p) \in Nat /\ DOMAIN p = 1..Len(p) /\ Len(q) \in Nat /\ DOMAIN q = 1..Len(q)
    BY <1>1, <1>2, IsSeqDom
  <1>4. 1 \in DOMAIN p
    BY <1>2, <1>3
  <1>5. ASSUME p[1] # Doc PROVE q # <<>>
    <2>1. 1 < Len(p)
      BY <1>4, <1>5 DEF PathOK
    <2>2. Len(q) # 0
      BY <1>2, <1>3, <2>1
    <2> QED
      BY <2>2, IsSeqEmpty
  <1>6. ASSUME p[1] = Doc PROVE q = <<>>
    <2>1. DOMAIN q = {}
      BY <1>6, PathTail
    <2>2. q = [i \in DOMAIN q |-> q[i]]
      BY <1>2, <1>3, IsSeqDom
    <2> QED
      BY <2>1, <2>2
  <1> QED
    BY <1>5, <1>6

\* An event is counted when it gets to document, and goes on to be counted until it does.
LEMMA DispatchCounting ==
    ASSUME TypeInv, TypeInv', NodesOK, BindsOnce, DomMoves, BusyHistory, Counting, CountsItself(page), Next, Dispatch
    PROVE  Counting'
  <1>1. PICK d : d = todo[1]
    OBVIOUS
  <1>2. todo # <<>> /\ d.op = "dispatch" /\ 1 \in DOMAIN todo
    BY <1>1, DispatchDoes
  <1>3. ~ Send /\ ~ Respond /\ ~ Fire
    BY <1>1, <1>2 DEF Send, At, Fire, Respond, Answer, Fail, Idle
  <1>4. requests' = requests
    BY <1>3, RequestsKept
  <1>5. Excused => Excused'
    BY <1>3, BusyFrames, ExcusedStays
  <1>6. /\ d.path = <<>> => Do(<<>>)
        /\ d.path = <<>> \/ d.path[1] # Doc \/ d.ev.type \notin AjaxEvents => history'.busy = history.busy
        /\ d.path # <<>> /\ d.path[1] = Doc =>
              /\ d.ev.type = "incajaxbefore" => history'.busy = history.busy + 1
              /\ d.ev.type = "incajaxcomplete" => history'.busy = history.busy - 1
    BY <1>1, DispatchBusy
  <1>7. IsDispatch(d) /\ (\A type : ~ IsFire(d, type)) /\ ~ IsSend(d)
    BY <1>2 DEF IsDispatch, IsFire, IsSend
  <1>8. /\ Begins(d) <=> d.ev.type = "incajaxbefore" /\ d.path # <<>>
        /\ Ends(d) <=> d.ev.type = "incajaxcomplete" /\ d.path # <<>>
    BY <1>7 DEF Begins, Ends, Going
  <1>9. CASE d.path = <<>>
    <2>1. PICK a : a = <<>>
      OBVIOUS
    <2>2. IsSeq(a) /\ Do(a) /\ \A i \in DOMAIN a : ~ Tracked(a[i])
      BY <1>6, <1>9, <2>1, IsSeqEmpty
    <2>3. ~ Begins(todo[1]) /\ ~ Ends(todo[1]) /\ history'.busy = history.busy
      BY <1>1, <1>6, <1>8, <1>9
    <2> QED
      BY <1>2, <1>4, <1>5, <2>2, <2>3, PushedCounting
  <1>10. CASE d.path # <<>>
    <2>1. PICK a : /\ IsSeq(a) /\ Do(a)
                   /\ \/ /\ \A i \in DOMAIN a : ~ Tracked(a[i])
                         /\ d.path[1] # Doc
                         /\ \E i \in DOMAIN Handlers(d.path[1], d.ev.type) : Stops(Handlers(d.path[1], d.ev.type)[i])
                      \/ \E c : One(a, c) /\ c.op = "dispatch" /\ c.path = Tail(d.path) /\ c.ev = d.ev
      BY <1>1, <1>10, DispatchLeaves
    <2>2. ASSUME \A i \in DOMAIN a : ~ Tracked(a[i]), d.path[1] # Doc,
                 \E i \in DOMAIN Handlers(d.path[1], d.ev.type) : Stops(Handlers(d.path[1], d.ev.type)[i])
          PROVE  Counting'
      <3>1. PICK hs : hs = Handlers(d.path[1], d.ev.type)
        OBVIOUS
      <3>2. d.ev.type \notin AjaxEvents
        BY <2>2, <3>1, NoHandlers
      <3>3. ~ Begins(todo[1]) /\ ~ Ends(todo[1]) /\ history'.busy = history.busy
        BY <1>1, <1>6, <1>8, <3>2 DEF AjaxEvents
      <3> QED
        BY <1>2, <1>4, <1>5, <2>1, <2>2, <3>3, PushedCounting
    <2>3. ASSUME NEW c, One(a, c), c.op = "dispatch", c.path = Tail(d.path), c.ev = d.ev
          PROVE  Counting'
      <3>1. PICK q : q = Tail(d.path)
        OBVIOUS
      <3>2. PathOK(node, clock, d.path)
        BY <1>1, <1>2, <1>7 DEF Counting, AskedOK, AskOK
      <3>3. PathOK(node, clock, q)
        BY <1>10, <3>1, <3>2, PathTail
      <3>4. /\ d.path[1] = Doc => q = <<>>
            /\ d.path[1] # Doc => q # <<>>
        <4>1. PICK p : p = d.path
          OBVIOUS
        <4>2. PathOK(node, clock, p) /\ p # <<>> /\ q = Tail(p)
          BY <1>10, <3>1, <3>2, <4>1
        <4>3. (p[1] = Doc => q = <<>>) /\ (p[1] # Doc => q # <<>>)
          BY <4>2, PathGoesOn
        <4> QED
          BY <4>1, <4>3
      <3>5. PathOK(node', clock', c.path)
        BY <2>3, <3>1, <3>3, PathStays
      <3>6. IsDispatch(c) /\ (\A type : ~ IsFire(c, type)) /\ ~ IsSend(c)
        BY <2>3 DEF IsDispatch, IsFire, IsSend
      <3>7. AskOK(node', clock', c)
        BY <2>3, <3>5, <3>6 DEF AskOK, IsSend
      <3>8. /\ Begins(c) <=> d.ev.type = "incajaxbefore" /\ q # <<>>
            /\ Ends(c) <=> d.ev.type = "incajaxcomplete" /\ q # <<>>
        BY <2>3, <3>1, <3>6 DEF Begins, Ends, Going
      <3>9. PICK b, e : b = (IF Begins(c) THEN 1 ELSE 0) /\ e = (IF Ends(c) THEN 1 ELSE 0)
        OBVIOUS
      <3>10. b \in {0, 1} /\ (b = 1 <=> Begins(c)) /\ e \in {0, 1} /\ (e = 1 <=> Ends(c))
        BY <3>9
      <3>11. PICK hb, he : hb = (IF 1 \in BeginsAt THEN 1 ELSE 0) /\ he = (IF 1 \in EndsAt THEN 1 ELSE 0)
        OBVIOUS
      <3>12. (1 \in BeginsAt <=> Begins(d)) /\ (1 \in EndsAt <=> Ends(d))
        BY <1>1, <1>2 DEF BeginsAt, EndsAt
      <3>13. history.busy \in Int
        BY DEF BusyHistory
      <3>14. history'.busy = history.busy + (e - he) - (b - hb)
        <4>1. CASE d.path[1] # Doc
          <5>1. b = hb /\ e = he
            BY <1>8, <1>10, <3>4, <3>8, <3>9, <3>11, <3>12, <4>1
          <5>2. e \in Int /\ b \in Int
            BY <3>10
          <5> QED
            BY <1>6, <3>13, <4>1, <5>1, <5>2
        <4>2. CASE d.path[1] = Doc
          <5>1. b = 0 /\ e = 0
            BY <3>4, <3>8, <3>9, <4>2
          <5>2. CASE d.ev.type = "incajaxbefore"
            <6>1. hb = 1 /\ he = 0
              BY <1>8, <1>10, <3>11, <3>12, <5>2
            <6> QED
              BY <1>6, <1>10, <3>13, <4>2, <5>1, <5>2, <6>1
          <5>3. CASE d.ev.type = "incajaxcomplete"
            <6>1. hb = 0 /\ he = 1
              BY <1>8, <1>10, <3>11, <3>12, <5>3
            <6> QED
              BY <1>6, <1>10, <3>13, <4>2, <5>1, <5>3, <6>1
          <5>4. CASE d.ev.type \notin AjaxEvents
            <6>1. hb = 0 /\ he = 0
              BY <1>8, <3>11, <3>12, <5>4 DEF AjaxEvents
            <6> QED
              BY <1>6, <3>13, <5>1, <5>4, <6>1
          <5> QED
            BY <5>2, <5>3, <5>4 DEF AjaxEvents
        <4> QED
          BY <4>1, <4>2
      <3>15. HeadAsked
        BY <1>1, <1>7 DEF HeadAsked
      <3>16. \/ Excused' \/ Doomed
             \/ history'.busy = history.busy + (e - IF 1 \in EndsAt THEN 1 ELSE 0)
                                             - (b - IF 1 \in BeginsAt THEN 1 ELSE 0)
        BY <3>11, <3>14
      <3> QED
        BY <1>2, <1>4, <1>5, <2>1, <2>3, <3>7, <3>10, <3>15, <3>16, DispatchedCounting
    <2> QED
      BY <2>1, <2>2, <2>3
  <1> QED
    BY <1>9, <1>10

-------------------------------------------------------------------------------
(* The requests that are counted: every step *)

\* A page that was loaded has asked for nothing.
LEMMA BusyInit ==
    ASSUME Init
    PROVE  BusyOK
  <1>1. BusyHistory /\ history.busy = 0
    <2>1. history = [busy |-> 0, handled |-> {}, twice |-> {}, started |-> {}, acted |-> {},
                     broken |-> {}, mixed |-> {}, restarted |-> {}, dropped |-> {},
                     unheard |-> FALSE, asks |-> <<>>, newest |-> 0,
                     answered |-> [n |-> 0, success |-> TRUE]]
      BY DEF Init
    <2> QED
      BY <2>1 DEF BusyHistory
  <1>2. PICK o : o = ParseOp("document")
    OBVIOUS
  <1>3. todo = <<o>> /\ requests = {}
    BY <1>2 DEF Init
  <1>4. DOMAIN todo = {1} /\ todo[1] = o
    <2>1. DOMAIN <<o>> = {1} /\ <<o>>[1] = o
      OBVIOUS
    <2> QED
      BY <1>3, <2>1
  <1>5. o.op = "parse"
    BY <1>2 DEF ParseOp
  <1>6. ~ IsSend(o) /\ ~ IsDispatch(o) /\ \A type : ~ IsFire(o, type)
    BY <1>5 DEF IsSend, IsDispatch, IsFire
  <1>7. Numbered
    BY <1>3, <1>4, <1>6, FS_EmptySet DEF Numbered
  <1>8. AskedOK
    BY <1>4, <1>5, <1>6 DEF AskedOK, AskOK
  <1>9. Paired
    BY <1>4, <1>6 DEF Paired
  <1>10. BeginsAt = {} /\ EndsAt = {}
    BY <1>4, <1>6 DEF BeginsAt, EndsAt, Begins, Ends, Going
  <1>11. Balance
    <2>1. Cardinality({}) = 0
      BY FS_EmptySet
    <2> QED
      BY <1>1, <1>3, <1>10, <2>1 DEF Balance
  <1> QED
    BY <1>1, <1>7, <1>8, <1>9, <1>11 DEF BusyOK

\* The count stays a number.
LEMMA BusyHistoryStep ==
    ASSUME BusyHistory, Next
    PROVE  BusyHistory'
  <1>1. DOMAIN history' = DOMAIN history /\ (Dispatch \/ history'.busy = history.busy)
    BY BusyFrames DEF BusyFrame
  <1>2. CASE Dispatch
    <2>1. PICK d : d = todo[1]
      OBVIOUS
    <2>2. \/ history'.busy = history.busy
          \/ history'.busy = history.busy + 1
          \/ history'.busy = history.busy - 1
      BY <1>2, <2>1, DispatchBusy DEF AjaxEvents
    <2> QED
      BY <1>1, <2>2 DEF BusyHistory
  <1> QED
    BY <1>1, <1>2 DEF BusyHistory

\* Each step keeps what is said of the requests.
LEMMA CountingStep ==
    ASSUME OnceInv, BusyHistory, Counting, CountsItself(page), Next
    PROVE  Counting'
  <1>1. TypeInv /\ TodoBr /\ OnceHistoryOK /\ NodesOK /\ BindsOnce
    BY DEF OnceInv, OnceOK, BreakInv, EventInv, BreaksOK
  <1>2. TypeInv'
    BY <1>1, TypeStep
  <1>3. DomMoves
    BY <1>1, DomMovesStep
  <1>4. CASE Fire
    BY <1>1, <1>2, <1>3, <1>4, FireCounting
  <1>5. CASE Dispatch
    BY <1>1, <1>2, <1>3, <1>5, DispatchCounting
  <1>6. CASE Invoke \/ ParseContext
    BY <1>1, <1>2, <1>3, <1>6, CallCounting
  <1>7. CASE Ajax \/ Submit
    BY <1>1, <1>2, <1>3, <1>7, AskCounting
  <1>8. CASE Send
    BY <1>1, <1>2, <1>3, <1>8, SendCounting
  <1>9. CASE Respond
    BY <1>1, <1>2, <1>3, <1>9, RespondCounting
  <1>10. CASE ~ Fire /\ ~ Dispatch /\ ~ (Invoke \/ ParseContext) /\ ~ (Ajax \/ Submit) /\ ~ Send /\ ~ Respond
    <2>1. ~ Asking
      BY <1>10, AskNamed DEF Asking
    <2>2. ~ Invoke /\ ~ ParseContext
      BY <1>10
    <2> QED
      BY <1>1, <1>2, <1>3, <1>10, <2>1, <2>2, QuietCounting
  <1> QED
    BY <1>4, <1>5, <1>6, <1>7, <1>8, <1>9, <1>10

\* The inductive invariant: how often an event is handled, and what is counted.
BusyInv == OnceInv /\ BusyOK

\* Every state has it.
THEOREM BusyInvariant == Spec => []BusyInv
  <1>1. Init => BusyOK
    BY BusyInit
  <1>2. OnceInv /\ BusyOK /\ [Next]_vars => BusyOK'
    <2>1. ASSUME BusyOK, UNCHANGED vars PROVE BusyOK'
      BY <2>1 DEF BusyOK, BusyHistory, Numbered, AskedOK, Paired, PairAt, Balance, Doomed, DoomedBy, Excused,
                  BeginsAt, EndsAt, vars
    <2>2. ASSUME OnceInv, BusyOK, Next PROVE BusyOK'
      <3>1. TypeInv
        BY <2>2 DEF OnceInv, BreakInv, EventInv
      <3>2. page' = page
        BY <2>2, <3>1, DomMovesStep DEF DomMoves
      <3>3. BusyHistory'
        BY <2>2, BusyHistoryStep DEF BusyOK
      <3>4. ASSUME CountsItself(page) PROVE Counting'
        <4>1. BusyHistory /\ Counting
          BY <2>2, <3>4 DEF BusyOK, Counting
        <4> QED
          BY <2>2, <3>4, <4>1, CountingStep
      <3>5. CountsItself(page') => CountsItself(page)
        BY <3>2
      <3> QED
        BY <3>3, <3>4, <3>5 DEF BusyOK, Counting
    <2> QED
      BY <2>1, <2>2
  <1>3. OnceInv /\ BusyOK => BusyInv
    BY DEF BusyInv
  <1> QED
    BY <1>1, <1>2, <1>3, OnceInvariant, PTL DEF Spec

\* On every page whose requests are counted by the engine alone: when a task has ended and no
\* request is under way the indicator is off, as many IncAjaxComplete as IncAjaxBefore got to
\* document, unless one of these events, or a request, was dropped or not heard.
THEOREM IndicatorAlways == Spec => [](CountsItself(page) => IndicatorBalanced)
  <1>1. BusyInv => (CountsItself(page) => IndicatorBalanced)
    <2>1. ASSUME BusyInv, CountsItself(page), todo = <<>>, requests = {}
          PROVE  history.busy = 0 \/ Excused
      <3>1. Balance
        BY <2>1 DEF BusyInv, BusyOK
      <3>2. DOMAIN todo = {}
        BY <2>1, IsSeqEmpty
      <3>3. BeginsAt = {} /\ EndsAt = {} /\ ~ Doomed
        BY <2>1, <3>2 DEF BeginsAt, EndsAt, Doomed
      <3>4. Cardinality({}) = 0
        BY FS_EmptySet
      <3>5. Excused \/ history.busy = 0 + 0 - 0
        BY <2>1, <3>1, <3>3, <3>4 DEF Balance
      <3> QED
        BY <3>5
    <2> QED
      BY <2>1 DEF IndicatorBalanced
  <1> QED
    BY <1>1, BusyInvariant, PTL
===============================================================================
