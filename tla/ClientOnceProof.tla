--------------------------- MODULE ClientOnceProof ----------------------------
(***************************************************************************)
(* An element runs its executables once for an event, unless the event was  *)
(* bound twice.  An event is at one place only: what it calls at one        *)
(* element and where it still goes are apart, the elements around an        *)
(* element are different ones, each type has one handler unless two strings *)
(* onBind name it or nothing was unbound in between, and an incarnation     *)
(* that is gone does not come back.                                         *)
(*                                                                         *)
(* And when a task has ended, every element in the document was parsed and  *)
(* initialised since, whatever was inserted or attached: what is to be      *)
(* parsed is parsed next, and an initialisation stays to be done until it   *)
(* is done or an exception drops it.                                        *)
(***************************************************************************)
EXTENDS ClientEventProof

-------------------------------------------------------------------------------
(* How often an event is handled: sites *)

\* No ExecutableBind that could meet an initialisation under way: one that is delayed is a task
\* of its own, another one attaches a list that initialises nothing.
AttachesLate(p) ==
    \A name \in DOMAIN p.metas : \A i \in DOMAIN p.metas[name] :
        LET m == p.metas[name][i]
        IN  m.type = "Attach" => m.delay # "none" \/ ~ HasInit(p.metas[m.arg])

\* BoundTwice, of the runners that are given.
Twice(pg, rs, e, type) ==
    \/ \E q, r \in DOMAIN rs[e] : q # r /\ rs[e][q].incarnation = rs[e][r].incarnation
    \/ \E r \in DOMAIN rs[e] :
          LET metas == pg.metas[rs[e][r].name]
          IN  \E i, j \in DOMAIN metas : /\ metas[i].onBind # metas[j].onBind
                                        /\ type \in metas[i].onBind \cap metas[j].onBind

\* An element and an incarnation it had; the present one is the last, the clock is ahead.
SiteOK(nd, c, s) ==
    /\ s[1] \in Element /\ s[2] \in Nat /\ s[2] <= c
    /\ nd[s[1]] = 0 \/ s[2] <= nd[s[1]]

\* A runner was made for the site.
Made(rs, s) == \E r \in DOMAIN rs[s[1]] : rs[s[1]][r].incarnation = s[2]

\* The same element in the same incarnation.
Same(s, t) == s[1] = t[1] /\ s[2] = t[2]

\* Incarnations follow each other, and runners are made for the present one.
NodesOK ==
    \A e \in Element :
        /\ node[e] \in Nat /\ node[e] <= clock
        /\ \A r \in DOMAIN runs[e] : /\ runs[e][r].incarnation <= clock
                                     /\ node[e] = 0 \/ runs[e][r].incarnation <= node[e]

\* An executable that waited is all there is to do.
RunsAlone ==
    \A i \in DOMAIN todo : todo[i].op = "run" /\ MetaAt(page, runs, todo[i].x).delay # "none" => Len(todo) = 1

\* How a step moves the elements: an incarnation ends, or a new one has a number of its own.
DomMoves ==
    /\ page' = page /\ Grown(runs, runs')
    /\ clock \in Nat /\ clock' \in Nat /\ clock <= clock'
    /\ \A e \in Element :
          /\ node'[e] \in Nat
          /\ node'[e] = 0 \/ node'[e] = node[e] \/ (node'[e] > clock /\ node'[e] <= clock')
          /\ runner'[e] = 0 \/ (runner'[e] = runner[e] /\ node'[e] = node[e]) \/ runner'[e] \notin DOMAIN runs[e]
          /\ \A r \in DOMAIN runs'[e] :
                r \in DOMAIN runs[e] \/ (runs'[e][r].incarnation = node[e] /\ node'[e] = node[e])

\* Only parse makes runners.
LEMMA RunsKept ==
    ASSUME TypeInv, Next, ~ ParseContext
    PROVE  \A e \in Element : DOMAIN runs'[e] = DOMAIN runs[e]
  <1>1. page \in Page /\ AreRuns(page, runs)
    BY DEF TypeInv
  <1>2. CASE Invoke
    <2>1. CASE Present(todo[1].site) /\ runner[todo[1].site[1]] # 0
      BY <1>2, <2>1, InvokeDoes DEF Stored
    <2>2. CASE ~ (Present(todo[1].site) /\ runner[todo[1].site[1]] # 0)
      BY <1>2, <2>2 DEF Invoke
    <2> QED
      BY <2>1, <2>2
  <1>3. CASE Actions
    BY <1>3, ActionsDoes DEF Stored
  <1>4. CASE Action
    BY <1>4, ActionDoes DEF Stored
  <1>5. CASE BreakBefore
    BY <1>5, BreakBeforeDoes DEF Stored
  <1>6. CASE Callback
    <2>1. Executable(runs, todo[1].x)
      BY <1>6, AtHeadExecutable, Zenon DEF Callback, At
    <2> QED
      BY <1>1, <1>6, <2>1, CallbackDoes, Zenon DEF ResultSet
  <1>7. CASE UNCHANGED runs
    BY <1>7
  <1> QED
    BY <1>2, <1>3, <1>4, <1>5, <1>6, <1>7, Frames DEF Frame

\* What Insert does to the elements.
LEMMA InsertMoves ==
    ASSUME TypeInv, Insert
    PROVE  /\ clock' = clock + 1
           /\ \A e \in Element :
                 \/ node'[e] = node[e] /\ attr'[e] = attr[e] /\ runner'[e] = runner[e] /\ binds'[e] = binds[e]
                 \/ node'[e] = 0 /\ attr'[e] = "" /\ runner'[e] = 0 /\ binds'[e] = <<>>
                 \/ node'[e] = clock + 1 /\ attr'[e] = e /\ runner'[e] = 0 /\ binds'[e] = <<>>
           /\ docBinds' = docBinds
  <1>1. clock' = clock + 1 /\ docBinds' = docBinds
    BY DEF Insert, dom
  <1>2. CASE UNCHANGED dom
    BY <1>1, <1>2 DEF dom
  <1>3. CASE ~ UNCHANGED dom
    <2> DEFINE old == Inside(Meta(todo[1].x).target)
               new == IF ResultOf(todo[1].x) = NoData THEN {} ELSE old
    <2>1. new \in SUBSET old
      BY Zenon
    <2>2. /\ node' = [e \in Element |-> IF e \in new THEN clock + 1 ELSE IF e \in old THEN 0 ELSE node[e]]
          /\ attr' = [e \in Element |-> IF e \in new THEN e ELSE IF e \in old THEN "" ELSE attr[e]]
          /\ runner' = [e \in Element |-> IF e \in old THEN 0 ELSE runner[e]]
          /\ binds' = [e \in Element |-> IF e \in old THEN <<>> ELSE binds[e]]
      BY <1>3 DEF Insert, Cleaned
    <2> HIDE DEF old, new
    <2> QED
      BY <1>1, <2>1, <2>2
  <1> QED
    BY <1>2, <1>3

\* How every step moves the elements.
LEMMA DomMovesStep ==
    ASSUME TypeInv, Next
    PROVE  DomMoves
  <1>1. Frame /\ Grown(runs, runs') /\ page' = page
    BY Frames, RunsStep
  <1>2. clock \in Nat /\ clock' \in Nat /\ clock <= clock'
    BY ClockStep DEF TypeInv, CountersOK
  <1>3. \A e \in Element : node[e] \in Nat
    BY DEF TypeInv, DomOK
  <1>4. ASSUME ~ ParseContext,
               \A e \in Element :
                  /\ node'[e] \in Nat
                  /\ node'[e] = 0 \/ node'[e] = node[e] \/ (node'[e] > clock /\ node'[e] <= clock')
                  /\ runner'[e] = 0 \/ (runner'[e] = runner[e] /\ node'[e] = node[e])
        PROVE  DomMoves
    BY <1>1, <1>2, <1>4, RunsKept DEF DomMoves
  <1>5. CASE ParseContext
    <2> DEFINE S == ToSet(Unparsed(todo[1].context))
    <2>1. /\ node' = node
          /\ runner' = [e \in Element |-> IF e \in S THEN Len(runs[e]) + 1 ELSE runner[e]]
      BY <1>5 DEF ParseContext
    <2>2. Parsed(runs, runs', S)
      BY <1>5, ParseRuns DEF TypeInv
    <2> HIDE DEF S
    <2>3. ASSUME NEW e \in Element
          PROVE  /\ runner'[e] = runner[e] \/ runner'[e] \notin DOMAIN runs[e]
                 /\ \A r \in DOMAIN runs'[e] : r \in DOMAIN runs[e] \/ runs'[e][r].incarnation = node[e]
      <3>1. CASE e \in S
        <4>1. Len(runs[e]) \in Nat /\ DOMAIN runs[e] = 1..Len(runs[e])
          BY IsSeqDom DEF TypeInv, AreRuns
        <4>2. Len(runs[e]) + 1 \notin DOMAIN runs[e]
          BY <4>1
        <4>3. DOMAIN runs'[e] = DOMAIN runs[e] \cup {Len(runs[e]) + 1} /\ runs'[e][Len(runs[e]) + 1].incarnation = node[e]
          BY <2>2, <3>1 DEF Parsed
        <4> QED
          BY <2>1, <3>1, <4>2, <4>3
      <3>2. CASE e \notin S
        <4>1. runs'[e] = runs[e] /\ runner'[e] = runner[e]
          BY <2>1, <2>2, <3>2 DEF Parsed
        <4> QED
          BY <4>1
      <3> QED
        BY <3>1, <3>2
    <2>4. \A e \in Element : node'[e] = node[e]
      BY <2>1
    <2> QED
      BY <1>1, <1>2, <1>3, <2>3, <2>4 DEF DomMoves
  <1>6. CASE Insert
    <2>1. ~ ParseContext
      BY <1>6 DEF Insert, AtRun, At, ParseContext
    <2>2. /\ clock' = clock + 1
          /\ \A e \in Element : \/ node'[e] = node[e] /\ runner'[e] = runner[e]
                                \/ node'[e] \in {0, clock + 1} /\ runner'[e] = 0
      BY <1>6, InsertMoves
    <2>3. clock + 1 > clock /\ clock + 1 <= clock' /\ clock + 1 \in Nat
      BY <1>2, <2>2
    <2>4. \A e \in Element :
             /\ node'[e] \in Nat
             /\ node'[e] = 0 \/ node'[e] = node[e] \/ (node'[e] > clock /\ node'[e] <= clock')
             /\ runner'[e] = 0 \/ (runner'[e] = runner[e] /\ node'[e] = node[e])
      BY <1>3, <2>2, <2>3
    <2> QED
      BY <1>4, <2>1, <2>4
  <1>7. CASE Attach
    <2>1. ~ ParseContext
      BY <1>7 DEF Attach, AtRun, At, ParseContext
    <2>2. node' = node /\ (runner' = runner \/ \E t : runner' = [runner EXCEPT ![t] = 0])
      BY <1>7 DEF Attach
    <2>3. runner \in [Element -> Nat]
      BY DEF TypeInv, DomOK
    <2>4. \A e \in Element : runner'[e] = 0 \/ runner'[e] = runner[e]
      BY <2>2, <2>3
    <2>5. \A e \in Element :
             /\ node'[e] \in Nat
             /\ node'[e] = 0 \/ node'[e] = node[e] \/ (node'[e] > clock /\ node'[e] <= clock')
             /\ runner'[e] = 0 \/ (runner'[e] = runner[e] /\ node'[e] = node[e])
      BY <1>3, <2>2, <2>4
    <2> QED
      BY <1>4, <2>1, <2>5
  <1>8. CASE ~ ParseContext /\ UNCHANGED <<node, runner>>
    <2>1. \A e \in Element :
             /\ node'[e] \in Nat
             /\ node'[e] = 0 \/ node'[e] = node[e] \/ (node'[e] > clock /\ node'[e] <= clock')
             /\ runner'[e] = 0 \/ (runner'[e] = runner[e] /\ node'[e] = node[e])
      BY <1>3, <1>8
    <2> QED
      BY <1>4, <1>8, <2>1
  <1>9. CASE Detach
    <2>1. ~ ParseContext /\ UNCHANGED <<node, runner>>
      BY <1>9 DEF Detach, AtRun, At, ParseContext
    <2> QED
      BY <1>8, <2>1
  <1> QED
    BY <1>1, <1>5, <1>6, <1>7, <1>8, <1>9 DEF Frame

\* What is said of sites stays true.
LEMMA SitesStay ==
    ASSUME DomMoves
    PROVE  /\ \A s : SiteOK(node, clock, s) => SiteOK(node', clock', s)
           /\ \A s : s[1] \in Element /\ Made(runs, s) => Made(runs', s)
           /\ \A e \in Element : \A type : Twice(page, runs, e, type) => Twice(page, runs', e, type)
  <1>1. ASSUME NEW s, SiteOK(node, clock, s) PROVE SiteOK(node', clock', s)
    <2>1. PICK e, k : e = s[1] /\ k = s[2]
      OBVIOUS
    <2>2. e \in Element /\ k \in Nat /\ k <= clock /\ (node[e] = 0 \/ k <= node[e])
      BY <1>1, <2>1 DEF SiteOK
    <2>3. /\ clock \in Nat /\ clock' \in Nat /\ clock <= clock' /\ node'[e] \in Nat
          /\ node'[e] = 0 \/ node'[e] = node[e] \/ (node'[e] > clock /\ node'[e] <= clock')
      BY <2>2 DEF DomMoves
    <2>4. k <= clock'
      BY <2>2, <2>3
    <2>5. node'[e] = 0 \/ k <= node'[e]
      BY <2>2, <2>3
    <2> QED
      BY <2>1, <2>2, <2>4, <2>5 DEF SiteOK
  <1>2. \A e \in Element : \A r \in DOMAIN runs[e] : /\ r \in DOMAIN runs'[e]
                                                     /\ runs'[e][r].name = runs[e][r].name
                                                     /\ runs'[e][r].incarnation = runs[e][r].incarnation
    BY DEF DomMoves, Grown
  <1>3. \A s : s[1] \in Element /\ Made(runs, s) => Made(runs', s)
    BY <1>2 DEF Made
  <1>4. ASSUME NEW e \in Element, NEW type, Twice(page, runs, e, type) PROVE Twice(page, runs', e, type)
    <2>1. CASE \E q, r \in DOMAIN runs[e] : q # r /\ runs[e][q].incarnation = runs[e][r].incarnation
      <3>1. \E q, r \in DOMAIN runs'[e] : q # r /\ runs'[e][q].incarnation = runs'[e][r].incarnation
        BY <1>2, <2>1
      <3> QED
        BY <3>1 DEF Twice
    <2>2. CASE ~ \E q, r \in DOMAIN runs[e] : q # r /\ runs[e][q].incarnation = runs[e][r].incarnation
      <3>1. PICK r \in DOMAIN runs[e] :
               \E i, j \in DOMAIN page.metas[runs[e][r].name] :
                  /\ page.metas[runs[e][r].name][i].onBind # page.metas[runs[e][r].name][j].onBind
                  /\ type \in page.metas[runs[e][r].name][i].onBind \cap page.metas[runs[e][r].name][j].onBind
        BY <1>4, <2>2, Zenon DEF Twice
      <3>2. r \in DOMAIN runs'[e] /\ runs'[e][r].name = runs[e][r].name
        BY <1>2, Zenon
      <3>3. \E i, j \in DOMAIN page.metas[runs'[e][r].name] :
                  /\ page.metas[runs'[e][r].name][i].onBind # page.metas[runs'[e][r].name][j].onBind
                  /\ type \in page.metas[runs'[e][r].name][i].onBind \cap page.metas[runs'[e][r].name][j].onBind
        BY <3>1, <3>2, Zenon
      <3> QED
        BY <3>2, <3>3, ZenonT(30) DEF Twice
    <2> QED
      BY <2>1, <2>2, Zenon
  <1> QED
    BY <1>1, <1>3, <1>4

\* Incarnations go on to follow each other.
LEMMA NodesStep ==
    ASSUME TypeInv, NodesOK, DomMoves
    PROVE  NodesOK'
  <1> SUFFICES ASSUME NEW e \in Element
               PROVE  /\ node'[e] \in Nat /\ node'[e] <= clock'
                      /\ \A r \in DOMAIN runs'[e] : /\ runs'[e][r].incarnation <= clock'
                                                    /\ node'[e] = 0 \/ runs'[e][r].incarnation <= node'[e]
    BY DEF NodesOK
  <1>1. node[e] \in Nat /\ node[e] <= clock /\ clock \in Nat /\ clock' \in Nat /\ clock <= clock'
    BY DEF NodesOK, DomMoves
  <1>2. /\ node'[e] \in Nat
        /\ node'[e] = 0 \/ node'[e] = node[e] \/ (node'[e] > clock /\ node'[e] <= clock')
    BY DEF DomMoves
  <1>3. node'[e] <= clock'
    BY <1>1, <1>2
  <1>4. ASSUME NEW r \in DOMAIN runs'[e]
        PROVE  runs'[e][r].incarnation <= clock' /\ (node'[e] = 0 \/ runs'[e][r].incarnation <= node'[e])
    <2>1. CASE r \in DOMAIN runs[e]
      <3>1. PICK k : k = runs[e][r].incarnation
        OBVIOUS
      <3>2. k \in Nat /\ k <= clock /\ (node[e] = 0 \/ k <= node[e])
        BY <2>1, <3>1 DEF NodesOK, TypeInv, AreRuns, IsRun
      <3>3. runs'[e][r].incarnation = k
        BY <2>1, <3>1 DEF DomMoves, Grown
      <3>4. k <= clock'
        BY <1>1, <3>2
      <3>5. node'[e] = 0 \/ k <= node'[e]
        BY <1>1, <1>2, <3>2
      <3> QED
        BY <3>3, <3>4, <3>5
    <2>2. CASE r \notin DOMAIN runs[e]
      <3>1. runs'[e][r].incarnation = node[e] /\ node'[e] = node[e]
        BY <2>2 DEF DomMoves
      <3>2. node[e] <= clock' /\ node[e] <= node[e]
        BY <1>1
      <3> QED
        BY <3>1, <3>2
    <2> QED
      BY <2>1, <2>2
  <1> QED
    BY <1>2, <1>3, <1>4

\* The attribute is set again only where nothing is initialised.
LEMMA AttrMoves ==
    ASSUME TypeInv, RunsAlone, Next, AttachesLate(page), Len(todo) > 1, NEW e \in Element
    PROVE  \/ node'[e] = 0 \/ node'[e] > clock \/ attr'[e] = ""
           \/ attr'[e] = attr[e] /\ node'[e] = node[e]
           \/ ~ HasInit(page.metas[attr'[e]])
  <1>1. CASE ParseContext
    BY <1>1 DEF ParseContext
  <1>2. CASE Insert
    <2>1. clock \in Nat /\ clock + 1 > clock
      BY DEF TypeInv, CountersOK
    <2> QED
      BY <1>2, <2>1, InsertMoves
  <1>3. CASE Attach
    <2> DEFINE m == Meta(todo[1].x)
    <2>1. todo # <<>> /\ todo[1].op = "run" /\ m.type = "Attach" /\ node' = node
      BY <1>3 DEF Attach, AtRun, At
    <2>2. PICK name : name \in DOMAIN page.metas /\ \E i \in DOMAIN page.metas[name] : m = page.metas[name][i]
      BY <2>1, HeadMeta
    <2>3. m.delay # "none" \/ ~ HasInit(page.metas[m.arg])
      BY <2>1, <2>2 DEF AttachesLate
    <2>4. m.delay = "none"
      <3>1. 1 \in DOMAIN todo /\ Len(todo) \in Nat
        BY <2>1, AtHead
      <3>2. MetaAt(page, runs, todo[1].x) = m
        BY MetaIsMetaAt
      <3> HIDE DEF m
      <3>3. PICK n \in Nat : n = Len(todo)
        BY <3>1
      <3>4. n # 1
        <4>1. n > 1
          BY <3>3
        <4> QED
          BY <4>1
      <3> QED
        BY <2>1, <3>1, <3>2, <3>3, <3>4 DEF RunsAlone
    <2>5. attr' = attr \/ attr' = [attr EXCEPT ![m.target] = m.arg]
      BY <1>3 DEF Attach
    <2>6. attr \in [Element -> DOMAIN page.metas \cup {""}]
      BY DEF TypeInv, DomOK
    <2> HIDE DEF m
    <2>7. attr'[e] = attr[e] \/ attr'[e] = m.arg
      BY <2>5, <2>6
    <2> QED
      BY <2>1, <2>3, <2>4, <2>7
  <1>4. CASE Detach
    BY <1>4 DEF Detach
  <1>5. CASE UNCHANGED <<node, attr>>
    BY <1>5
  <1> QED
    BY <1>1, <1>2, <1>3, <1>4, <1>5, Frames, ZenonT(30) DEF Frame

-------------------------------------------------------------------------------
(* How often an event is handled: what is left to be done *)

\* An event that goes on along the path meets neither the element e nor a handler on document.
Elsewhere(path, type, e) == \A k \in DOMAIN path : path[k][1] # e /\ type \notin DocumentBinds

\* A path visits no element twice and ends with document.
PathOK(nd, c, path) ==
    /\ IsSeq(path)
    /\ \A k \in DOMAIN path : (path[k] = Doc /\ k = Len(path)) \/ (k < Len(path) /\ SiteOK(nd, c, path[k]))
    /\ \A j, k \in DOMAIN path : path[j][1] = path[k][1] => j = k

\* The initialisation of an element.
IsInit(o) == IsInvoke(o) /\ o.ev.type = InitIncoding

\* One operation: an initialisation is of an element that was parsed and is not to be parsed
\* again for the next one.
SingleOK(pg, rs, nd, at, c, o) ==
    /\ o.op = "fire" => o.type # InitIncoding
    /\ IsInvoke(o) => SiteOK(nd, c, o.site)
    /\ IsDispatch(o) => PathOK(nd, c, o.path) /\ o.ev.type # InitIncoding
    /\ IsInit(o) =>
          /\ Made(rs, o.site)
          /\ AttachesLate(pg) /\ nd[o.site[1]] = o.site[2] /\ o.site[2] > 0 /\ at[o.site[1]] # ""
                => ~ HasInit(pg.metas[at[o.site[1]]])

\* An initialisation that finds its runner started has another one beside it.
Ready(pg, rs, nd, rn, st, o) ==
    IsInit(o) /\ nd[o.site[1]] = o.site[2] /\ o.site[2] > 0 /\ rn[o.site[1]] # 0
        /\ <<o.site[1], rn[o.site[1]]>> \in st
      => Twice(pg, rs, o.site[1], InitIncoding) /\ ~ AttachesLate(pg)

\* Two operations: an event is at one place of its path, ahead of what it called already, and
\* calls an element twice only when it is bound twice.
Apart(pg, rs, o, p) ==
    /\ Named(o) /\ Named(p) /\ o.ev.n = p.ev.n =>
          /\ ~ (IsDispatch(o) /\ IsDispatch(p))
          /\ IsDispatch(o) /\ IsInvoke(p) => Elsewhere(o.path, o.ev.type, p.site[1])
          /\ IsInvoke(o) /\ IsInvoke(p) /\ Same(o.site, p.site) => Twice(pg, rs, o.site[1], o.ev.type)
          /\ AttachesLate(pg) => ~ IsInit(o)
    /\ IsInit(o) /\ IsInit(p) /\ Same(o.site, p.site) =>
          Twice(pg, rs, o.site[1], InitIncoding) /\ ~ AttachesLate(pg)

\* An operation and what was handled: a runner that handled the event is met again only when it
\* is bound twice, or is one of a later incarnation.
Unseen(pg, rs, o, w) ==
    Named(o) /\ o.ev.n = w[3] =>
        /\ IsDispatch(o) => Elsewhere(o.path, o.ev.type, w[1])
        /\ IsInvoke(o) /\ w[1] = o.site[1] =>
              Twice(pg, rs, w[1], o.ev.type) \/ o.site[2] < rs[w[1]][w[2]].incarnation
        /\ AttachesLate(pg) => ~ IsInit(o)

\* What handled an event exists.
Held(w) == w[1] \in Element /\ w[2] \in DOMAIN runs[w[1]] /\ w[3] \in Nat /\ w[3] <= clock

SinglesOK == \A i \in DOMAIN todo : SingleOK(page, runs, node, attr, clock, todo[i])
ReadyOK == \A i \in DOMAIN todo : Ready(page, runs, node, runner, history.started, todo[i])
PairsOK == \A i, j \in DOMAIN todo : i # j => Apart(page, runs, todo[i], todo[j])
PastOK == \A w \in history.handled : Held(w) /\ \A i \in DOMAIN todo : Unseen(page, runs, todo[i], w)
StartedOK == \A w \in history.started : w[1] \in Element /\ w[2] \in DOMAIN runs[w[1]]

TodoOnce == RunsAlone /\ SinglesOK /\ ReadyOK /\ PairsOK /\ PastOK /\ StartedOK

\* Arithmetic that is needed below, apart from what surrounds it there.
LEMMA NotAhead ==
    ASSUME NEW c \in Nat
    PROVE  \A m \in Nat : (m <= c => ~ (m > c)) /\ (m > 0 => m # 0)
  OBVIOUS

\* Two positions that are moved by the same distance stay apart.
LEMMA ShiftApart ==
    ASSUME NEW i \in Int, NEW j \in Int, i # j, NEW d \in Int
    PROVE  i + d # j + d
  OBVIOUS

\* The events that go around have numbers, and one type for each.
LEMMA NamedEvents ==
    ASSUME EventsOK, TodoBr, NEW i \in DOMAIN todo, Named(todo[i])
    PROVE  /\ todo[i].ev.n \in Nat /\ todo[i].ev.n <= clock
           /\ \A j \in DOMAIN todo : Named(todo[j]) /\ todo[j].ev.n = todo[i].ev.n => todo[j].ev.type = todo[i].ev.type
  <1>1. \A j \in DOMAIN todo : Named(todo[j]) => todo[j].ev \in FirstEvents(page, runs, todo)
    BY DEF Named, FirstPart, FirstEvents
  <1>2. todo[i].ev.n \in Nat /\ todo[i].ev.n <= clock
    BY <1>1, FirstNumbers
  <1>3. \A j \in DOMAIN todo : Named(todo[j]) /\ todo[j].ev.n = todo[i].ev.n => todo[j].ev.type = todo[i].ev.type
    BY <1>1 DEF TodoBr, Agree
  <1> QED
    BY <1>2, <1>3

\* A path stays one.
LEMMA PathStays ==
    ASSUME DomMoves, NEW path, PathOK(node, clock, path)
    PROVE  PathOK(node', clock', path)
  BY SitesStay DEF PathOK

\* What is said of one operation stays true.
LEMMA SingleStays ==
    ASSUME TypeInv, RunsAlone, SinglesOK, DomMoves, Next, NEW k \in DOMAIN todo, k > 1
    PROVE  SingleOK(page, runs', node', attr', clock', todo[k])
  <1>1. PICK o : o = todo[k]
    OBVIOUS
  <1>2. SingleOK(page, runs, node, attr, clock, o)
    BY <1>1 DEF SinglesOK
  <1>3. IsInvoke(o) => SiteOK(node', clock', o.site)
    BY <1>2, SitesStay DEF SingleOK
  <1>4. IsDispatch(o) => PathOK(node', clock', o.path) /\ o.ev.type # InitIncoding
    BY <1>2, PathStays DEF SingleOK
  <1>5. ASSUME IsInit(o)
        PROVE  /\ Made(runs', o.site)
               /\ AttachesLate(page) /\ node'[o.site[1]] = o.site[2] /\ o.site[2] > 0 /\ attr'[o.site[1]] # ""
                     => ~ HasInit(page.metas[attr'[o.site[1]]])
    <2>1. IsInvoke(o)
      BY <1>5 DEF IsInit
    <2>2. PICK e, n : e = o.site[1] /\ n = o.site[2]
      OBVIOUS
    <2>3. e \in Element /\ n \in Nat /\ n <= clock /\ clock \in Nat
      BY <1>2, <2>1, <2>2 DEF SingleOK, SiteOK, DomMoves
    <2>4. Made(runs', o.site)
      <3>1. Made(runs, o.site)
        BY <1>2, <1>5 DEF SingleOK
      <3> QED
        BY <2>2, <2>3, <3>1, SitesStay
    <2>5. ASSUME AttachesLate(page), node'[e] = n, n > 0, attr'[e] # "" PROVE ~ HasInit(page.metas[attr'[e]])
      <3>1. Len(todo) > 1
        <4>1. DOMAIN todo = 1..Len(todo) /\ Len(todo) \in Nat
          BY IsSeqDom DEF TypeInv, OpsOK
        <4> QED
          BY <4>1
      <3>2. \/ node'[e] = 0 \/ node'[e] > clock \/ attr'[e] = ""
            \/ attr'[e] = attr[e] /\ node'[e] = node[e]
            \/ ~ HasInit(page.metas[attr'[e]])
        BY <2>3, <2>5, <3>1, AttrMoves
      <3>3. node'[e] # 0 /\ ~ (node'[e] > clock)
        <4>1. \A m \in Nat : (m <= clock => ~ (m > clock)) /\ (m > 0 => m # 0)
          BY <2>3, NotAhead
        <4>2. ~ (n > clock) /\ n # 0
          BY <2>3, <2>5, <4>1
        <4> QED
          BY <2>5, <4>2
      <3>4. attr[e] # "" /\ node[e] = n => ~ HasInit(page.metas[attr[e]])
        BY <1>2, <1>5, <2>2, <2>5 DEF SingleOK
      <3> QED
        BY <2>5, <3>2, <3>3, <3>4
    <2> QED
      BY <2>2, <2>4, <2>5
  <1>6. o.op = "fire" => o.type # InitIncoding
    BY <1>2 DEF SingleOK
  <1> QED
    BY <1>1, <1>3, <1>4, <1>5, <1>6 DEF SingleOK

\* A runner that was not made yet was not started.
LEMMA ReadyStays ==
    ASSUME SinglesOK, ReadyOK, StartedOK, DomMoves, history'.started = history.started, NEW k \in DOMAIN todo
    PROVE  Ready(page, runs', node', runner', history'.started, todo[k])
  <1>1. PICK o, e, n : o = todo[k] /\ e = o.site[1] /\ n = o.site[2]
    OBVIOUS
  <1> SUFFICES ASSUME IsInit(o), node'[e] = n, n > 0, runner'[e] # 0, <<e, runner'[e]>> \in history.started
               PROVE  Twice(page, runs', e, InitIncoding) /\ ~ AttachesLate(page)
    BY <1>1 DEF Ready
  <1>2. e \in Element
    BY <1>1 DEF SinglesOK, SingleOK, SiteOK, IsInit
  <1>3. runner'[e] \in DOMAIN runs[e]
    BY DEF StartedOK
  <1>4. runner'[e] = runner[e] /\ node'[e] = node[e]
    BY <1>2, <1>3 DEF DomMoves
  <1>5. Ready(page, runs, node, runner, history.started, o)
    BY <1>1 DEF ReadyOK
  <1>6. Twice(page, runs, e, InitIncoding) /\ ~ AttachesLate(page)
    BY <1>1, <1>4, <1>5 DEF Ready
  <1> QED
    BY <1>2, <1>6, SitesStay

\* What is said of two operations stays true.
LEMMA ApartStays ==
    ASSUME SinglesOK, PairsOK, DomMoves, NEW k \in DOMAIN todo, NEW l \in DOMAIN todo, k # l
    PROVE  Apart(page, runs', todo[k], todo[l])
  <1>1. Apart(page, runs, todo[k], todo[l])
    BY DEF PairsOK
  <1>2. IsInvoke(todo[k]) => todo[k].site[1] \in Element
    BY DEF SinglesOK, SingleOK, SiteOK
  <1>3. \A type : IsInvoke(todo[k]) /\ Twice(page, runs, todo[k].site[1], type) => Twice(page, runs', todo[k].site[1], type)
    BY <1>2, SitesStay
  <1> QED
    BY <1>1, <1>3 DEF Apart, IsInit

\* What is said of an operation and what was handled stays true.
LEMMA UnseenStays ==
    ASSUME PastOK, DomMoves, NEW k \in DOMAIN todo, NEW w \in history.handled
    PROVE  Unseen(page, runs', todo[k], w)
  <1>1. Unseen(page, runs, todo[k], w)
    BY DEF PastOK
  <1>2. w[1] \in Element /\ w[2] \in DOMAIN runs[w[1]]
    BY DEF PastOK, Held
  <1>3. runs'[w[1]][w[2]].incarnation = runs[w[1]][w[2]].incarnation
    BY <1>2 DEF DomMoves, Grown
  <1>4. \A type : Twice(page, runs, w[1], type) => Twice(page, runs', w[1], type)
    BY <1>2, SitesStay
  <1> QED
    BY <1>1, <1>3, <1>4 DEF Unseen

\* What handled an event stays there.
LEMMA HeldStays ==
    ASSUME DomMoves, NEW w, Held(w)
    PROVE  w[1] \in Element /\ w[2] \in DOMAIN runs'[w[1]] /\ w[3] \in Nat /\ w[3] <= clock'
  <1>1. clock \in Nat /\ clock' \in Nat /\ clock <= clock' /\ w[3] \in Nat /\ w[3] <= clock
    BY DEF DomMoves, Held
  <1>2. w[3] <= clock'
    BY <1>1
  <1> QED
    BY <1>1, <1>2 DEF DomMoves, Held, Grown

\* An operation that starts nothing meets nothing.
LEMMA MildOnce ==
    ASSUME NEW pg, NEW rs, NEW o, ~ Named(o)
    PROVE  /\ \A p : Apart(pg, rs, o, p) /\ Apart(pg, rs, p, o)
           /\ \A w : Unseen(pg, rs, o, w)
           /\ \A nd, rn, st : Ready(pg, rs, nd, rn, st, o)
           /\ \A nd, at, c : (o.op = "fire" => o.type # InitIncoding) => SingleOK(pg, rs, nd, at, c, o)
  <1>1. ~ IsInvoke(o) /\ ~ IsDispatch(o) /\ ~ IsInit(o)
    BY DEF Named, IsInvoke, IsDispatch, IsInit
  <1> QED
    BY <1>1 DEF Apart, Unseen, Ready, SingleOK

\* What an executable that waited leaves behind it: nothing.
LEMMA AloneStays ==
    ASSUME TypeInv, RunsAlone, Grown(runs, runs'), NEW k \in DOMAIN todo, k > 1, todo[k].op = "run"
    PROVE  MetaAt(page, runs', todo[k].x).delay = "none"
  <1>1. DOMAIN todo = 1..Len(todo) /\ Len(todo) \in Nat
    BY IsSeqDom, Zenon DEF TypeInv, OpsOK
  <1>2. PICK n \in Nat : n = Len(todo)
    BY <1>1, Zenon
  <1>3. n # 1
    BY <1>1, <1>2
  <1>4. MetaAt(page, runs, todo[k].x).delay = "none"
    BY <1>2, <1>3 DEF RunsAlone
  <1>5. Executable(runs, todo[k].x)
    BY DEF TypeInv, OpsOK, OpOK
  <1> QED
    BY <1>4, <1>5, MetaStays

\* What is recalled goes with what is further back.
StaysRecalled ==
    /\ \A k \in DOMAIN todo : k > 1 => Ready(page, runs', node', runner', history'.started, todo[k])
    /\ \A w \in history'.handled :
          /\ w[1] \in Element /\ w[2] \in DOMAIN runs'[w[1]] /\ w[3] \in Nat /\ w[3] <= clock'
          /\ \A k \in DOMAIN todo : k > 1 => Unseen(page, runs', todo[k], w)
    /\ \A w \in history'.started : w[1] \in Element /\ w[2] \in DOMAIN runs'[w[1]]

\* It does when nothing is handled.
LEMMA RecalledKept ==
    ASSUME TodoOnce, DomMoves, history'.started = history.started, history'.handled = history.handled
    PROVE  StaysRecalled
  <1>0. SinglesOK /\ ReadyOK /\ StartedOK
    BY DEF TodoOnce
  <1>1. ASSUME NEW k \in DOMAIN todo PROVE Ready(page, runs', node', runner', history'.started, todo[k])
    BY <1>0, ReadyStays
  <1>2. \A w \in history.handled : w[1] \in Element /\ w[2] \in DOMAIN runs'[w[1]] /\ w[3] \in Nat /\ w[3] <= clock'
    BY HeldStays DEF TodoOnce, PastOK
  <1>3. \A w \in history.handled : \A k \in DOMAIN todo : Unseen(page, runs', todo[k], w)
    BY UnseenStays DEF TodoOnce
  <1>4. \A w \in history.started : w[1] \in Element /\ w[2] \in DOMAIN runs'[w[1]]
    BY DEF TodoOnce, StartedOK, DomMoves, Grown
  <1>5. \A k \in DOMAIN todo : k > 1 => Ready(page, runs', node', runner', history'.started, todo[k])
    BY <1>1
  <1>6. \A w \in history'.handled :
          /\ w[1] \in Element /\ w[2] \in DOMAIN runs'[w[1]] /\ w[3] \in Nat /\ w[3] <= clock'
          /\ \A k \in DOMAIN todo : k > 1 => Unseen(page, runs', todo[k], w)
    BY <1>2, <1>3
  <1>7. \A w \in history'.started : w[1] \in Element /\ w[2] \in DOMAIN runs'[w[1]]
    BY <1>4
  <1> QED
    BY <1>5, <1>6, <1>7 DEF StaysRecalled

\* New operations at the positions F, what was left further back, and operations that start
\* nothing: all are as they should be when the new ones are.
LEMMA OnceJoined ==
    ASSUME TypeInv, TodoOnce, DomMoves, Next, NotByHand(page), StaysRecalled,
           NEW d \in Int, NEW F \in SUBSET DOMAIN todo',
           \A i \in DOMAIN todo' : \/ Mild(page, runs', todo'[i])
                                   \/ Old(d, i)
                                   \/ Len(todo') = 1 /\ ~ Named(todo'[i]) /\ todo'[i].op = "run"
                                   \/ i \in F,
           \A i \in F : /\ todo'[i].op # "run"
                        /\ SingleOK(page, runs', node', attr', clock', todo'[i])
                        /\ Ready(page, runs', node', runner', history'.started, todo'[i])
                        /\ \A w \in history'.handled : Unseen(page, runs', todo'[i], w)
                        /\ \A j \in F : i # j => Apart(page, runs', todo'[i], todo'[j])
                        /\ \A k \in DOMAIN todo : k > 1 => /\ Apart(page, runs', todo'[i], todo[k])
                                                           /\ Apart(page, runs', todo[k], todo'[i])
    PROVE  TodoOnce'
  <1>1. page' = page /\ Grown(runs, runs')
    BY DEF DomMoves
  <1>2. DOMAIN todo' \subseteq Int /\ DOMAIN todo \subseteq Int
    <2>1. IsSeq(todo) /\ IsSeq(todo')
      BY OpsStep DEF TypeInv, OpsInv, OpsOK
    <2> QED
      BY <2>1, IsSeqDom
  <1>3. ASSUME NEW i \in DOMAIN todo'
        PROVE  \/ ~ Named(todo'[i]) /\ (todo'[i].op = "fire" => todo'[i].type # InitIncoding)
               \/ i + d \in DOMAIN todo /\ i + d > 1 /\ todo'[i] = todo[i + d]
               \/ i \in F
    BY DEF Mild, Old
  <1>4. RunsAlone'
    <2> SUFFICES ASSUME NEW i \in DOMAIN todo', todo'[i].op = "run", MetaAt(page, runs', todo'[i].x).delay # "none"
                 PROVE  Len(todo') = 1
      BY <1>1 DEF RunsAlone
    <2>1. ~ Mild(page, runs', todo'[i]) /\ i \notin F
      BY DEF Mild
    <2>2. ~ Old(d, i)
      <3>1. ASSUME Old(d, i) PROVE FALSE
        <4>1. PICK k : k \in DOMAIN todo /\ k > 1 /\ todo'[i] = todo[k]
          BY <3>1 DEF Old
        <4> QED
          BY <1>1, <4>1, AloneStays DEF TodoOnce
      <3> QED
        BY <3>1
    <2> QED
      BY <2>1, <2>2
  <1>5. ASSUME NEW i \in DOMAIN todo'
        PROVE  /\ SingleOK(page, runs', node', attr', clock', todo'[i])
               /\ Ready(page, runs', node', runner', history'.started, todo'[i])
    <2>1. CASE ~ Named(todo'[i]) /\ (todo'[i].op = "fire" => todo'[i].type # InitIncoding)
      BY <2>1, MildOnce
    <2>2. CASE i + d \in DOMAIN todo /\ i + d > 1 /\ todo'[i] = todo[i + d]
      <3>1. PICK k : k \in DOMAIN todo /\ k > 1 /\ todo'[i] = todo[k]
        BY <2>2
      <3> QED
        BY <3>1, SingleStays DEF TodoOnce, StaysRecalled
    <2>3. CASE i \in F
      BY <2>3
    <2> QED
      BY <1>3, <2>1, <2>2, <2>3
  <1>6. ASSUME NEW i \in DOMAIN todo', NEW j \in DOMAIN todo', i # j
        PROVE  Apart(page, runs', todo'[i], todo'[j])
    <2>1. CASE ~ Named(todo'[i]) \/ ~ Named(todo'[j])
      BY <2>1, MildOnce
    <2>2. CASE Named(todo'[i]) /\ Named(todo'[j])
      <3>1. CASE i \in F /\ j \in F
        BY <1>6, <3>1
      <3>2. CASE i \in F /\ j \notin F
        <4>1. PICK k : k \in DOMAIN todo /\ k > 1 /\ todo'[j] = todo[k]
          BY <1>3, <2>2, <3>2
        <4>2. \A i1 \in F : \A k1 \in DOMAIN todo : k1 > 1 => Apart(page, runs', todo'[i1], todo[k1])
          OBVIOUS
        <4>3. Apart(page, runs', todo'[i], todo[k])
          BY <3>2, <4>1, <4>2
        <4> QED
          BY <4>1, <4>3
      <3>3. CASE i \notin F /\ j \in F
        <4>1. PICK k : k \in DOMAIN todo /\ k > 1 /\ todo'[i] = todo[k]
          BY <1>3, <2>2, <3>3
        <4>2. \A i1 \in F : \A k1 \in DOMAIN todo : k1 > 1 => Apart(page, runs', todo[k1], todo'[i1])
          OBVIOUS
        <4>3. Apart(page, runs', todo[k], todo'[j])
          BY <3>3, <4>1, <4>2
        <4> QED
          BY <4>1, <4>3
      <3>4. CASE i \notin F /\ j \notin F
        <4>1. /\ i + d \in DOMAIN todo /\ todo'[i] = todo[i + d]
              /\ j + d \in DOMAIN todo /\ todo'[j] = todo[j + d]
          BY <1>3, <2>2, <3>4
        <4>2. i \in Int /\ j \in Int /\ d \in Int
          BY <1>2, <1>6
        <4>3. i + d # j + d
          BY <1>6, <4>2, ShiftApart
        <4> QED
          BY <4>1, <4>3, ApartStays DEF TodoOnce
      <3> QED
        BY <3>1, <3>2, <3>3, <3>4
    <2> QED
      BY <2>1, <2>2
  <1>7. ASSUME NEW w \in history'.handled, NEW i \in DOMAIN todo'
        PROVE  Unseen(page, runs', todo'[i], w)
    <2>1. CASE ~ Named(todo'[i])
      BY <2>1, MildOnce
    <2>2. CASE i \in F
      BY <2>2
    <2>3. CASE Named(todo'[i]) /\ i \notin F
      <3>1. PICK k : k \in DOMAIN todo /\ k > 1 /\ todo'[i] = todo[k]
        BY <1>3, <2>3
      <3> QED
        BY <3>1 DEF StaysRecalled
    <2> QED
      BY <2>1, <2>2, <2>3
  <1>8. PastOK'
    BY <1>1, <1>7 DEF PastOK, Held, StaysRecalled
  <1>9. StartedOK'
    BY DEF StartedOK, StaysRecalled
  <1>10. SinglesOK' /\ ReadyOK' /\ PairsOK'
    BY <1>1, <1>5, <1>6 DEF SinglesOK, ReadyOK, PairsOK
  <1> QED
    BY <1>4, <1>8, <1>9, <1>10 DEF TodoOnce

-------------------------------------------------------------------------------
(* How often an event is handled: the steps that call nothing *)

\* What a step changes of what is recalled.
OnceFrame ==
    /\ DOMAIN history' = DOMAIN history
    /\ \/ Invoke
       \/ history'.handled = history.handled /\ history'.twice = history.twice /\ history'.started = history.started
    /\ history.dropped \subseteq history'.dropped

\* What an executable that runs leaves as it is.
LEMMA SeenOnce ==
    ASSUME OnceHistoryOK, NEW x, NEW ev
    PROVE  /\ DOMAIN Seen(x, ev) = DOMAIN history
           /\ Seen(x, ev).handled = history.handled
           /\ Seen(x, ev).twice = history.twice
           /\ Seen(x, ev).started = history.started
           /\ Seen(x, ev).dropped = history.dropped
  <1> DEFINE v == MixedBy(x, ev)
  <1>1. Seen(x, ev) = [history EXCEPT !.mixed = v]
    BY DEF Seen, MixedBy
  <1> HIDE DEF v
  <1>2. Remembered \subseteq DOMAIN history
    BY DEF OnceHistoryOK
  <1> QED
    BY <1>1, <1>2 DEF Remembered

\* Every step is one of these.
LEMMA OnceFrames ==
    ASSUME OnceHistoryOK, Next
    PROVE  OnceFrame
  <1>0. "handled" \in DOMAIN history /\ "twice" \in DOMAIN history /\ "started" \in DOMAIN history /\ "dropped" \in DOMAIN history
    BY DEF OnceHistoryOK, Remembered
  <1>1. CASE UNCHANGED history
    BY <1>1 DEF OnceFrame
  <1>2. CASE history' = Seen(todo[1].x, todo[1].ev)
    BY <1>2, SeenOnce DEF OnceFrame
  <1>3. CASE Fire
    <2>1. PICK v : history' = [history EXCEPT !.unheard = v]
      BY <1>3, Zenon DEF Fire
    <2> QED
      BY <1>0, <2>1, ZenonT(30) DEF OnceFrame
  <1>4. CASE Dispatch
    <2>1. history' = history \/ history' = [history EXCEPT !.busy = @ + 1] \/ history' = [history EXCEPT !.busy = @ - 1]
      BY <1>4 DEF Dispatch
    <2> QED
      BY <1>0, <2>1 DEF OnceFrame
  <1>5. CASE Invoke
    <2> DEFINE site == todo[1].site
               ev == todo[1].ev
               e == site[1]
               r == runner[e]
               handled == history.handled \cup {<<e, r, ev.n>>}
               twice == IF \/ \E q \in DOMAIN runs[e] : <<e, q, ev.n>> \in history.handled
                           \/ (ev.type = InitIncoding /\ <<e, r>> \in history.started)
                           THEN history.twice \cup {<<e, ev.type>>} ELSE history.twice
               started == IF ev.type = InitIncoding THEN history.started \cup {<<e, r>>} ELSE history.started
    <2>1. history' = history \/ history' = [history EXCEPT !.handled = handled, !.twice = twice, !.started = started]
      BY <1>5, Zenon DEF Invoke
    <2> HIDE DEF handled, twice, started
    <2> QED
      BY <1>0, <1>5, <2>1 DEF OnceFrame
  <1>6. CASE Actions
    <2>1. PICK v : history' = [history EXCEPT !.acted = v]
      BY <1>6 DEF Actions
    <2> QED
      BY <1>0, <2>1 DEF OnceFrame
  <1>7. CASE Execute
    <2>1. history' = history \/ \E v : history' = [history EXCEPT !.restarted = v]
      BY <1>7 DEF Execute
    <2> QED
      BY <1>0, <2>1 DEF OnceFrame
  <1>8. CASE Direct \/ Event \/ Submit \/ Insert \/ Trigger \/ Eval \/ HashStore \/ Attach \/ Detach
    <2>1. history' = Seen(todo[1].x, todo[1].ev)
      BY <1>8 DEF Direct, Event, Submit, Insert, Trigger, Eval, HashStore, Attach, Detach
    <2> QED
      BY <2>1, <1>2, Zenon
  <1>9. CASE Ajax
    <2> DEFINE seen == Seen(todo[1].x, todo[1].ev)
    <2>1. PICK noted : /\ noted = seen \/ \E a, b : noted = [seen EXCEPT !.asks = a, !.newest = b]
                       /\ history' = noted \/ \E c : history' = [noted EXCEPT !.answered = c]
      BY <1>9 DEF Ajax
    <2>2. /\ DOMAIN seen = DOMAIN history
          /\ seen.handled = history.handled /\ seen.twice = history.twice
          /\ seen.started = history.started /\ seen.dropped = history.dropped
      BY SeenOnce
    <2> HIDE DEF seen
    <2>3. /\ DOMAIN noted = DOMAIN seen
          /\ noted.handled = seen.handled /\ noted.twice = seen.twice
          /\ noted.started = seen.started /\ noted.dropped = seen.dropped
      BY <1>0, <2>1, <2>2
    <2>4. /\ DOMAIN history' = DOMAIN noted
          /\ history'.handled = noted.handled /\ history'.twice = noted.twice
          /\ history'.started = noted.started /\ history'.dropped = noted.dropped
      BY <1>0, <2>1, <2>2, <2>3
    <2> QED
      BY <2>2, <2>3, <2>4, ZenonT(30) DEF OnceFrame
  <1>10. CASE Break
    <2> DEFINE seen == Seen(todo[1].x, todo[1].ev)
    <2>1. PICK v : history' = [seen EXCEPT !.broken = v]
      BY <1>10 DEF Break
    <2>2. /\ DOMAIN seen = DOMAIN history
          /\ seen.handled = history.handled /\ seen.twice = history.twice
          /\ seen.started = history.started /\ seen.dropped = history.dropped
      BY SeenOnce
    <2> HIDE DEF seen
    <2> QED
      BY <1>0, <2>1, <2>2 DEF OnceFrame
  <1>11. CASE Uncaught \/ BreakBefore \/ BreakCallback \/ RethrowCallback
    <2>1. PICK v : history' = [history EXCEPT !.dropped = history.dropped \cup v]
      BY <1>11, Zenon DEF Uncaught, BreakBefore, BreakCallback, RethrowCallback
    <2> QED
      BY <1>0, <2>1 DEF OnceFrame
  <1>12. CASE Respond
    <2>1. history' = history \/ \E v : history' = [history EXCEPT !.answered = v]
      BY <1>12, ZenonT(30) DEF Respond, Answer, Fail
    <2> QED
      BY <1>0, <2>1 DEF OnceFrame
  <1>13. CASE User \/ Navigate \/ Announce \/ TimeOut \/ Tick
    <2>1. UNCHANGED history
      BY <1>13 DEF User, Navigate, Announce, TimeOut, Tick
    <2> QED
      BY <1>1, <2>1
  <1>14. CASE CatchNothing \/ Action \/ Send \/ Store \/ Completed \/ Callback \/ CaughtNothing
                 \/ BreakCallbacks \/ ParseContext
    <2>1. UNCHANGED history
      BY <1>14 DEF CatchNothing, Action, Send, Store, Completed, Callback, CaughtNothing, BreakCallbacks, ParseContext
    <2> QED
      BY <1>1, <2>1
  <1> QED
    BY <1>3, <1>4, <1>5, <1>6, <1>7, <1>8, <1>9, <1>10, <1>11, <1>12, <1>13, <1>14 DEF Next, Step

\* A step that leaves the events that go around alone.
LEMMA QuietOnce ==
    ASSUME TypeInv, TodoOnce, DomMoves, Next, NotByHand(page), StaysRecalled, QuietTodo
    PROVE  TodoOnce'
  <1>1. PICK d \in Int :
           \A i \in DOMAIN todo' : \/ Mild(page, runs', todo'[i])
                                   \/ Old(d, i)
                                   \/ Len(todo') = 1 /\ ~ Named(todo'[i]) /\ todo'[i].op = "run"
    BY DEF QuietTodo
  <1>2. PICK F : F = {}
    OBVIOUS
  <1>3. F \in SUBSET DOMAIN todo'
    BY <1>2
  <1>4. \A i \in DOMAIN todo' : \/ Mild(page, runs', todo'[i])
                                \/ Old(d, i)
                                \/ Len(todo') = 1 /\ ~ Named(todo'[i]) /\ todo'[i].op = "run"
                                \/ i \in F
    BY <1>1
  <1>5. \A i \in F : /\ todo'[i].op # "run"
                     /\ SingleOK(page, runs', node', attr', clock', todo'[i])
                     /\ Ready(page, runs', node', runner', history'.started, todo'[i])
                     /\ \A w \in history'.handled : Unseen(page, runs', todo'[i], w)
                     /\ \A j \in F : i # j => Apart(page, runs', todo'[i], todo'[j])
                     /\ \A k \in DOMAIN todo : k > 1 => /\ Apart(page, runs', todo'[i], todo[k])
                                                        /\ Apart(page, runs', todo[k], todo'[i])
    BY <1>2
  <1> QED
    BY <1>3, <1>4, <1>5, OnceJoined

\* Where the operations are when those of a replace the first one.
LEMMA PushedPlaces ==
    ASSUME TypeInv, todo # <<>>, NEW a, IsSeq(a), Do(a)
    PROVE  /\ \E d \in Int : /\ d = 1 - Len(a)
                             /\ \A i \in DOMAIN todo' : i \in DOMAIN a \/ Old(d, i)
                             /\ \A j \in DOMAIN todo : j # 1 => Kept(d, j)
           /\ \A i \in DOMAIN a : i \in DOMAIN todo' /\ todo'[i] = a[i]
           /\ \A j \in DOMAIN todo : j # 1 => \E i \in DOMAIN todo' : todo'[i] = todo[j]
  <1>1. IsSeq(todo)
    BY DEF TypeInv, OpsOK
  <1>2. PICK after, all : after = Tail(todo) /\ all = a \o after
    OBVIOUS
  <1>b. PICK la : la = Len(a)
    OBVIOUS
  <1>3. PICK k \in Nat : k = 1 /\ IsAfter(todo, k, after) /\ IsJoin(a, after, all)
    BY <1>1, <1>2, TailIsAfter DEF IsJoin
  <1>a. /\ la \in Nat /\ DOMAIN all \subseteq Nat /\ DOMAIN todo \subseteq Nat \ {0}
        /\ \A i \in DOMAIN all : (i \in DOMAIN a /\ all[i] = a[i]) \/ Left(todo, k, la, all, i)
        /\ \A m \in DOMAIN todo : m > k => m - k + la \in DOMAIN all /\ all[m - k + la] = todo[m]
        /\ \A i \in DOMAIN a : i \in DOMAIN all /\ all[i] = a[i]
    BY <1>1, <1>3, <1>b, JoinedPositions
  <1>4. /\ la \in Nat /\ DOMAIN all \subseteq Nat /\ DOMAIN todo \subseteq Nat \ {0}
        /\ \A i \in DOMAIN all : (i \in DOMAIN a /\ all[i] = a[i]) \/ Left(todo, 1, la, all, i)
        /\ \A m \in DOMAIN todo : m > 1 => m - 1 + la \in DOMAIN all /\ all[m - 1 + la] = todo[m]
        /\ \A i \in DOMAIN a : i \in DOMAIN all /\ all[i] = a[i]
    BY <1>3, <1>a
  <1>5. todo' = all
    BY <1>2 DEF Do
  <1>6. PICK d \in Int : d = 1 - la
    BY <1>4
  <1>7. ASSUME NEW i \in DOMAIN todo', i \notin DOMAIN a PROVE Old(d, i)
    <2>1. Left(todo, 1, la, all, i)
      BY <1>4, <1>5, <1>7
    <2>2. i \in Nat /\ i > la /\ i - la + 1 \in DOMAIN todo /\ all[i] = todo[i - la + 1]
      BY <1>4, <1>5, <2>1 DEF Left
    <2>3. i + d = i - la + 1 /\ i + d > 1
      BY <1>4, <1>6, <2>2
    <2> QED
      BY <1>5, <2>2, <2>3 DEF Old
  <1>8. \A j \in DOMAIN todo : j # 1 => j > 1
    BY <1>4
  <1>9. ASSUME NEW j \in DOMAIN todo, j # 1 PROVE Kept(d, j)
    <2>1. j - 1 + la \in DOMAIN all /\ all[j - 1 + la] = todo[j] /\ j \in Nat
      BY <1>4, <1>8, <1>9
    <2>2. j - 1 + la = j - d
      BY <1>4, <1>6, <2>1
    <2> QED
      BY <1>5, <2>1, <2>2 DEF Kept
  <1> QED
    BY <1>b, <1>4, <1>5, <1>6, <1>7, <1>8, <1>9

\* The operation at the head is replaced.
LEMMA OncePushed ==
    ASSUME TypeInv, TodoOnce, DomMoves, Next, NotByHand(page), StaysRecalled, todo # <<>>,
           NEW a, IsSeq(a), Do(a),
           \A i \in DOMAIN a : /\ a[i].op # "run"
                               /\ SingleOK(page, runs', node', attr', clock', a[i])
                               /\ Ready(page, runs', node', runner', history'.started, a[i])
                               /\ \A w \in history'.handled : Unseen(page, runs', a[i], w)
                               /\ \A j \in DOMAIN a : i # j => Apart(page, runs', a[i], a[j])
                               /\ \A k \in DOMAIN todo : k > 1 => /\ Apart(page, runs', a[i], todo[k])
                                                                  /\ Apart(page, runs', todo[k], a[i])
    PROVE  TodoOnce'
  <1>1. PICK d \in Int : \A i \in DOMAIN todo' : i \in DOMAIN a \/ Old(d, i)
    BY PushedPlaces
  <1>2. \A i \in DOMAIN a : i \in DOMAIN todo' /\ todo'[i] = a[i]
    BY PushedPlaces
  <1>3. PICK F : F = DOMAIN a
    OBVIOUS
  <1>4. F \in SUBSET DOMAIN todo'
    BY <1>2, <1>3
  <1>5. \A i \in DOMAIN todo' : \/ Mild(page, runs', todo'[i])
                                \/ Old(d, i)
                                \/ Len(todo') = 1 /\ ~ Named(todo'[i]) /\ todo'[i].op = "run"
                                \/ i \in F
    BY <1>1, <1>3
  <1>6. \A i \in F : /\ todo'[i].op # "run"
                     /\ SingleOK(page, runs', node', attr', clock', todo'[i])
                     /\ Ready(page, runs', node', runner', history'.started, todo'[i])
                     /\ \A w \in history'.handled : Unseen(page, runs', todo'[i], w)
                     /\ \A j \in F : i # j => Apart(page, runs', todo'[i], todo'[j])
                     /\ \A k \in DOMAIN todo : k > 1 => /\ Apart(page, runs', todo'[i], todo[k])
                                                        /\ Apart(page, runs', todo[k], todo'[i])
    BY <1>2, <1>3
  <1> QED
    BY <1>4, <1>5, <1>6, OnceJoined

\* The parts of a site.
LEMMA PairParts ==
    ASSUME NEW u, NEW v
    PROVE  <<u, v>>[1] = u /\ <<u, v>>[2] = v
  OBVIOUS

\* An element with an incarnation that is not ahead of it is a site.
LEMMA SiteOfPair ==
    ASSUME NEW nd, NEW c, NEW e \in Element, NEW n \in Nat, n <= c, nd[e] = 0 \/ n <= nd[e], NEW s, s = <<e, n>>
    PROVE  SiteOK(nd, c, s) /\ s[1] = e /\ s[2] = n
  BY PairParts DEF SiteOK

\* The elements q and, behind them, document.
LEMMA PathOfPlaces ==
    ASSUME NodesOK, NEW q, NEW n \in Nat, NEW p, "document" \notin Element,
           IsSeq(p), Len(p) = n + 1, DOMAIN p = 1..(n + 1), p[n + 1] = Doc,
           \A i \in 1..n : p[i] = <<q[i], node[q[i]]>> /\ q[i] \in Element /\ i \in DOMAIN q,
           \A i, j \in DOMAIN q : q[i] = q[j] => i = j
    PROVE  PathOK(node, clock, p)
  <1>11. \A k \in DOMAIN p : k = n + 1 \/ k \in 1..n
    OBVIOUS
  <1>12. ASSUME NEW k \in DOMAIN p
         PROVE  (p[k] = Doc /\ k = Len(p)) \/ (k < Len(p) /\ SiteOK(node, clock, p[k]))
    <2>1. CASE k = n + 1
      BY <2>1
    <2>2. CASE k \in 1..n
      <3>1. PICK u, v : p[k] = <<u, v>> /\ u \in Element /\ v = node[u]
        BY <2>2
      <3>2. v \in Nat /\ v <= clock
        BY <3>1 DEF NodesOK
      <3>a. v <= node[u]
        BY <3>1, <3>2
      <3>b. p[k][1] = u /\ p[k][2] = v
        BY <3>1, PairParts
      <3>3. SiteOK(node, clock, p[k])
        BY <3>1, <3>2, <3>a, <3>b DEF SiteOK
      <3>4. k < n + 1
        BY <2>2
      <3> QED
        BY <3>3, <3>4
    <2> QED
      BY <1>11, <2>1, <2>2
  <1>13. Doc[1] = "document"
    BY DEF Doc
  <1>14. ASSUME NEW j \in DOMAIN p, NEW k \in DOMAIN p, p[j][1] = p[k][1] PROVE j = k
    <2>a. \A i \in 1..n : p[i][1] = q[i] /\ q[i] \in Element /\ i \in DOMAIN q
      BY PairParts
    <2>b. p[n + 1][1] = "document"
      BY <1>13
    <2>1. CASE j \in 1..n /\ k \in 1..n
      BY <1>14, <2>1, <2>a
    <2>2. CASE j = n + 1 /\ k = n + 1
      BY <2>2
    <2>3. CASE (j = n + 1 /\ k \in 1..n) \/ (j \in 1..n /\ k = n + 1)
      BY <1>14, <2>3, <2>a, <2>b
    <2> QED
      BY <1>11, <2>1, <2>2, <2>3
  <1> QED
    BY <1>12, <1>14 DEF PathOK

\* The path of an element of the page.
LEMMA PathOfElement ==
    ASSUME NodesOK, clock \in Nat, NEW e \in Element,
           NEW p, p = [i \in DOMAIN Path[e] |-> <<Path[e][i], node[Path[e][i]]>>] \o <<Doc>>
    PROVE  PathOK(node, clock, p)
  <1>1. PICK q : q = Path[e]
    OBVIOUS
  <1>2. PICK s : s = [i \in DOMAIN q |-> <<q[i], node[q[i]]>>]
    OBVIOUS
  <1>3. /\ q \in Seq(Element) /\ "document" \notin Element
        /\ \A i, j \in DOMAIN q : q[i] = q[j] => i = j
    BY <1>1, PathAssumption
  <1>4. IsSeq(q)
    BY <1>3, IsSeqDef
  <1>5. IsSeq(s) /\ Len(s) = Len(q) /\ Len(q) \in Nat /\ DOMAIN q = 1..Len(q) /\ DOMAIN s = DOMAIN q
        /\ \A i \in DOMAIN q : s[i] = <<q[i], node[q[i]]>>
    <2>1. s = [i \in DOMAIN q |-> s[i]] /\ DOMAIN s = DOMAIN q /\ \A i \in DOMAIN q : s[i] = <<q[i], node[q[i]]>>
      BY <1>2
    <2>2. IsSeq(s) /\ Len(s) = Len(q)
      BY <1>4, <2>1, Mapped
    <2> QED
      BY <1>4, <2>1, <2>2, IsSeqDom
  <1>6. PICK t : t = <<Doc>>
    OBVIOUS
  <1>7. IsSeq(t) /\ Len(t) = 1 /\ t[1] = Doc
    BY <1>6, IsSeqTuples
  <1>8. p = s \o t
    BY <1>1, <1>2, <1>6, Zenon
  <1>9. PICK n \in Nat : n = Len(s) /\ n = Len(q)
    BY <1>5, ZenonT(30)
  <1>10. /\ IsSeq(p) /\ Len(p) = n + 1 /\ DOMAIN p = 1..(n + 1)
         /\ \A i \in 1..n : p[i] = <<q[i], node[q[i]]>> /\ q[i] \in Element /\ i \in DOMAIN q
         /\ p[n + 1] = Doc
    <2>1. /\ IsSeq(s \o t) /\ Len(s \o t) = Len(s) + Len(t)
          /\ DOMAIN (s \o t) = 1..(Len(s) + Len(t))
          /\ \A i \in 1..Len(s) : (s \o t)[i] = s[i]
          /\ \A i \in 1..Len(t) : (s \o t)[Len(s) + i] = t[i]
      <3>1. IsSeq(s) /\ IsSeq(t)
        BY <1>5, <1>7
      <3> HIDE DEF Doc
      <3> QED
        BY <3>1, IsSeqConcat
    <2>2. 1 \in 1..Len(t)
      BY <1>7
    <2>3. p[n + 1] = Doc
      BY <1>7, <1>8, <1>9, <2>1, <2>2
    <2>4. \A i \in DOMAIN q : q[i] \in Element
      BY <1>3
    <2>5. \A i \in 1..n : p[i] = <<q[i], node[q[i]]>> /\ q[i] \in Element /\ i \in DOMAIN q
      BY <1>5, <1>8, <1>9, <2>1, <2>4
    <2> QED
      BY <1>7, <1>8, <1>9, <2>1, <2>3, <2>5
  <1> QED
    BY <1>3, <1>10, PathOfPlaces

\* The paths without an element.
LEMMA PathOfNone ==
    ASSUME NEW nd, NEW c
    PROVE  PathOK(nd, c, <<>>) /\ PathOK(nd, c, <<Doc>>)
  <1>1. IsSeq(<<Doc>>) /\ Len(<<Doc>>) = 1 /\ DOMAIN <<Doc>> = {1} /\ <<Doc>>[1] = Doc
    BY IsSeqTuples
  <1>2. PathOK(nd, c, <<Doc>>)
    BY <1>1 DEF PathOK
  <1> QED
    BY <1>2, IsSeqEmpty DEF PathOK

\* An event begins to go around with a number of its own.
LEMMA FireOnce ==
    ASSUME TypeInv, EventsOK, TodoBr, OnceHistoryOK, NodesOK, TodoOnce, DomMoves, Next, NotByHand(page), Fire
    PROVE  TodoOnce'
  <1>1. todo # <<>> /\ todo[1].op = "fire" /\ 1 \in DOMAIN todo
    <2>1. todo # <<>> /\ todo[1].op = "fire"
      BY ZenonT(30) DEF Fire, At
    <2> QED
      BY <2>1, AtHead, Zenon DEF TypeInv
  <1>2. clock \in Nat /\ clock' = clock + 1
    BY ZenonT(30) DEF Fire, TypeInv, CountersOK
  <1>3. \E p, ev : /\ \/ \E e \in Element : p = [i \in DOMAIN Path[e] |-> <<Path[e][i], node[Path[e][i]]>>] \o <<Doc>>
                      \/ p = <<Doc>> \/ p = <<>>
                   /\ ev.n = clock + 1 /\ ev.type = todo[1].type
                   /\ Do(<<[op |-> "dispatch", path |-> p, ev |-> ev]>>)
    <2> DEFINE f == todo[1]
               p == IF Present(f.site)
                       THEN [i \in DOMAIN Path[f.site[1]] |->
                               <<Path[f.site[1]][i], node[Path[f.site[1]][i]]>>] \o <<Doc>>
                       ELSE IF f.site = Doc THEN <<Doc>> ELSE <<>>
               ev == [type |-> f.type, n |-> clock + 1, data |-> f.data]
    <2>1. Do(<<[op |-> "dispatch", path |-> p, ev |-> ev]>>)
      BY ZenonT(30) DEF Fire
    <2>2. \/ \E e \in Element : p = [i \in DOMAIN Path[e] |-> <<Path[e][i], node[Path[e][i]]>>] \o <<Doc>>
          \/ p = <<Doc>> \/ p = <<>>
      BY Zenon DEF Present
    <2>3. ev.n = clock + 1 /\ ev.type = todo[1].type
      BY Zenon
    <2> QED
      BY <2>1, <2>2, <2>3, ZenonT(30)
  <1>4. PICK p, ev : /\ \/ \E e \in Element : p = [i \in DOMAIN Path[e] |-> <<Path[e][i], node[Path[e][i]]>>] \o <<Doc>>
                        \/ p = <<Doc>> \/ p = <<>>
                     /\ ev.n = clock + 1 /\ ev.type = todo[1].type
                     /\ Do(<<[op |-> "dispatch", path |-> p, ev |-> ev]>>)
    BY <1>3
  <1>5. PathOK(node, clock, p)
    BY <1>2, <1>4, PathOfElement, PathOfNone
  <1>6. PathOK(node', clock', p)
    BY <1>5, PathStays
  <1>7. ev.type # InitIncoding
    BY <1>1, <1>4 DEF TodoOnce, SinglesOK, SingleOK
  <1>8. PICK o, a : o = [op |-> "dispatch", path |-> p, ev |-> ev] /\ a = <<o>>
    OBVIOUS
  <1>9. o.op = "dispatch" /\ o.path = p /\ o.ev = ev
    BY <1>8
  <1>10. IsSeq(a) /\ DOMAIN a = {1} /\ a[1] = o /\ Do(a)
    BY <1>4, <1>8, IsSeqTuples
  <1>11. IsDispatch(o) /\ ~ IsInvoke(o) /\ ~ IsInit(o)
    BY <1>9 DEF IsDispatch, IsInvoke, IsInit
  <1>12. SingleOK(page, runs', node', attr', clock', o)
    BY <1>6, <1>7, <1>9, <1>11 DEF SingleOK
  <1>13. \A m \in Nat : m <= clock => m # clock + 1
    BY <1>2
  <1>14. \A k \in DOMAIN todo : Named(todo[k]) => todo[k].ev.n # o.ev.n
    BY <1>4, <1>9, <1>13, NamedEvents
  <1>15. \A k \in DOMAIN todo : Apart(page, runs', o, todo[k]) /\ Apart(page, runs', todo[k], o)
    BY <1>11, <1>14 DEF Apart
  <1>16. history'.handled = history.handled /\ history'.started = history.started
    <2>1. ~ Invoke
      BY <1>1 DEF Invoke, At
    <2> QED
      BY <2>1, OnceFrames DEF OnceFrame
  <1>17. StaysRecalled
    BY <1>16, RecalledKept
  <1>18. \A w \in history'.handled : Unseen(page, runs', o, w)
    <2>1. \A w \in history.handled : w[3] # o.ev.n
      BY <1>4, <1>9, <1>13 DEF TodoOnce, PastOK, Held
    <2> QED
      BY <1>16, <2>1 DEF Unseen
  <1>19. Ready(page, runs', node', runner', history'.started, o)
    BY <1>11 DEF Ready
  <1> QED
    BY <1>1, <1>9, <1>10, <1>12, <1>15, <1>17, <1>18, <1>19, OncePushed

-------------------------------------------------------------------------------
(* How often an event is handled: handlers *)

\* What is kept of a handler of an element.
IsHandler(b) == b = [events |-> b.events, status |-> b.status]

\* A handler that keeps a type from document does what an executable says.
CancelsFrom(metas, t) == \E k \in DOMAIN metas : metas[k].onEventStatus = CancelAll /\ t \in metas[k].onBind
Canceled(pg, b, t) == b.status = CancelAll /\ \E name \in DOMAIN pg.metas : CancelsFrom(pg.metas[name], t)

\* Each type has one handler, unless it is bound twice, of a runner that was made, and what
\* belongs on document is handled by the element only when nothing else is.
BindsOnce ==
    \A e \in Element :
        /\ \A i, j \in DOMAIN binds[e] : i # j =>
              \A t \in binds[e][i].events \cap binds[e][j].events : Twice(page, runs, e, t)
        /\ binds[e] # <<>> => Made(runs, <<e, node[e]>>)
        /\ \A i \in DOMAIN binds[e] : \A t \in binds[e][i].events \cap DocumentBinds : Canceled(page, binds[e][i], t)
        /\ \A i \in DOMAIN binds[e] : IsHandler(binds[e][i])

\* The same on document, for each incarnation of an element.
DocOnce ==
    /\ \A i \in DOMAIN docBinds : /\ docBinds[i].type \in DocumentBinds
                                  /\ SiteOK(node, clock, docBinds[i].site)
                                  /\ Made(runs, docBinds[i].site)
    /\ \A i, j \in DOMAIN docBinds :
          i # j /\ docBinds[i].type = docBinds[j].type /\ Same(docBinds[i].site, docBinds[j].site)
             => Twice(page, runs, docBinds[i].site[1], docBinds[i].type)

\* t has elements of s, from positions in S, each position once.
PartOf(s, S, t) ==
    /\ IsSeq(t)
    /\ \E at : /\ \A k \in DOMAIN t : at[k] \in S /\ t[k] = s[at[k]]
               /\ \A j, k \in DOMAIN t : j # k => at[j] # at[k]
               /\ \A p \in S : \E k \in DOMAIN t : at[k] = p

\* What InOrder lists it lists once.
LEMMA InOrderOnce ==
    ASSUME NEW s, IsSeq(s), NEW S, S \subseteq DOMAIN s
    PROVE  \A j, k \in DOMAIN InOrder(S) : j # k => InOrder(S)[j] # InOrder(S)[k]
  <1>1. S \in SUBSET (1..Len(s)) /\ Len(s) \in Nat
    BY IsSeqDom
  <1>2. PICK at, c : at = InOrder(S) /\ c = Cardinality(S)
    OBVIOUS
  <1>3. c \in Nat /\ at \in [1..c -> S] /\ \A i, j \in 1..c : i < j => at[i] < at[j]
    BY <1>1, <1>2, InOrderType
  <1>4. ASSUME NEW j \in DOMAIN at, NEW k \in DOMAIN at, j # k PROVE at[j] # at[k]
    <2>1. j \in 1..c /\ k \in 1..c
      BY <1>3
    <2>2. at[j] \in Nat /\ at[k] \in Nat
      BY <1>1, <1>3, <2>1
    <2>3. j < k \/ k < j
      BY <1>4, <2>1
    <2>4. at[j] < at[k] \/ at[k] < at[j]
      BY <1>3, <2>1, <2>3
    <2> QED
      BY <2>2, <2>4
  <1> QED
    BY <1>2, <1>4

\* What Those selects.
LEMMA ThosePart ==
    ASSUME NEW s, IsSeq(s), NEW S, S \subseteq DOMAIN s,
           NEW t, t = [k \in DOMAIN InOrder(S) |-> s[InOrder(S)[k]]]
    PROVE  PartOf(s, S, t)
  <1>1. PICK at : at = InOrder(S)
    OBVIOUS
  <1>2. /\ \A k \in DOMAIN at : at[k] \in S
        /\ \A p \in S : \E k \in DOMAIN at : at[k] = p
        /\ \A j, k \in DOMAIN at : j # k => at[j] # at[k]
    BY <1>1, InOrderSeq, InOrderOnce
  <1>3. DOMAIN t = DOMAIN at /\ \A k \in DOMAIN at : t[k] = s[at[k]]
    BY <1>1
  <1>4. IsSeq(t)
    BY ThoseSeq
  <1> QED
    BY <1>2, <1>3, <1>4 DEF PartOf

\* The handlers of a site.
LEMMA HandlersPart ==
    ASSUME BindsOK, NEW site, NEW type, NEW hs, hs = Handlers(site, type)
    PROVE  /\ IsSeq(hs)
           /\ site = Doc => PartOf(docBinds, {i \in DOMAIN docBinds : docBinds[i].type = type}, hs)
           /\ site # Doc => DOMAIN hs = {} \/
                 (/\ Present(site)
                  /\ PartOf(binds[site[1]], {i \in DOMAIN binds[site[1]] : type \in binds[site[1]][i].events}, hs))
  <1>0. IsSeq(hs)
    BY HandlersSeq
  <1>1. CASE site = Doc
    <2>1. PICK S : S = {i \in DOMAIN docBinds : docBinds[i].type = type}
      OBVIOUS
    <2>2. hs = [k \in DOMAIN InOrder(S) |-> docBinds[InOrder(S)[k]]]
      BY <1>1, <2>1 DEF Handlers, Those
    <2>3. IsSeq(docBinds) /\ S \subseteq DOMAIN docBinds
      BY <2>1 DEF BindsOK
    <2>4. PartOf(docBinds, S, hs)
      BY <2>2, <2>3, ThosePart
    <2> QED
      BY <1>0, <1>1, <2>1, <2>4
  <1>2. CASE site # Doc /\ Present(site)
    <2>1. PICK bs, S : bs = binds[site[1]] /\ S = {i \in DOMAIN bs : type \in bs[i].events}
      OBVIOUS
    <2>2. hs = [k \in DOMAIN InOrder(S) |-> bs[InOrder(S)[k]]]
      BY <1>2, <2>1 DEF Handlers, Those
    <2>3. IsSeq(bs) /\ S \subseteq DOMAIN bs
      BY <1>2, <2>1 DEF BindsOK, Present
    <2>4. PartOf(bs, S, hs)
      BY <2>2, <2>3, ThosePart
    <2> QED
      BY <1>0, <1>2, <2>1, <2>4
  <1>3. CASE site # Doc /\ ~ Present(site)
    <2>1. hs = <<>>
      BY <1>3 DEF Handlers
    <2> QED
      BY <1>0, <1>3, <2>1, IsSeqEmpty
  <1> QED
    BY <1>1, <1>2, <1>3

\* The rest of a path that begins at site.
LEMMA PathTail ==
    ASSUME NEW nd, NEW c, NEW p, PathOK(nd, c, p), p # <<>>, NEW q, q = Tail(p)
    PROVE  /\ PathOK(nd, c, q)
           /\ 1 \in DOMAIN p
           /\ p[1] = Doc => DOMAIN q = {}
           /\ p[1] # Doc => SiteOK(nd, c, p[1])
           /\ \A k \in DOMAIN q : q[k][1] # p[1][1]
           /\ \A k \in DOMAIN q : \E j \in DOMAIN p : q[k] = p[j]
  <1>1. PICK n, m : n = Len(p) /\ m = Len(q)
    OBVIOUS
  <1>2. IsSeq(p)
    BY DEF PathOK
  <1>3. /\ n \in Nat /\ DOMAIN p = 1..n /\ n > 0
        /\ IsSeq(q) /\ m = n - 1 /\ DOMAIN q = 1..m
        /\ \A i \in 1..m : q[i] = p[i + 1]
    <2>1. IsSeq(q) /\ n > 0 /\ m = n - 1 /\ \A i \in 1..(n - 1) : q[i] = p[i + 1]
      BY <1>1, <1>2, IsSeqTail
    <2>2. n \in Nat /\ DOMAIN p = 1..n /\ DOMAIN q = 1..m
      BY <1>1, <1>2, <2>1, IsSeqDom
    <2> QED
      BY <2>1, <2>2
  <1>4. \A k \in DOMAIN q : k + 1 \in DOMAIN p /\ k + 1 # 1 /\ q[k] = p[k + 1] /\ (k < m <=> k + 1 < n) /\ (k = m <=> k + 1 = n)
    BY <1>3
  <1>5. 1 \in DOMAIN p
    BY <1>3
  <1>6. \A k \in DOMAIN p : (p[k] = Doc /\ k = n) \/ (k < n /\ SiteOK(nd, c, p[k]))
    BY <1>1 DEF PathOK
  <1>7. \A j, k \in DOMAIN p : p[j][1] = p[k][1] => j = k
    BY DEF PathOK
  <1>8. ASSUME NEW k \in DOMAIN q PROVE (q[k] = Doc /\ k = m) \/ (k < m /\ SiteOK(nd, c, q[k]))
    <2>1. k + 1 \in DOMAIN p /\ q[k] = p[k + 1] /\ (k < m <=> k + 1 < n) /\ (k = m <=> k + 1 = n)
      BY <1>4
    <2>2. (p[k + 1] = Doc /\ k + 1 = n) \/ (k + 1 < n /\ SiteOK(nd, c, p[k + 1]))
      BY <1>6, <2>1
    <2> QED
      BY <2>1, <2>2
  <1>9. ASSUME NEW j \in DOMAIN q, NEW k \in DOMAIN q, q[j][1] = q[k][1] PROVE j = k
    <2>1. j + 1 \in DOMAIN p /\ q[j] = p[j + 1] /\ k + 1 \in DOMAIN p /\ q[k] = p[k + 1] /\ j \in Int /\ k \in Int
      BY <1>3, <1>4
    <2>2. j + 1 = k + 1
      BY <1>7, <1>9, <2>1
    <2> QED
      BY <2>1, <2>2
  <1>10. PathOK(nd, c, q)
    BY <1>1, <1>3, <1>8, <1>9 DEF PathOK
  <1>11. ASSUME p[1] = Doc PROVE DOMAIN q = {}
    <2>1. ~ SiteOK(nd, c, Doc)
      <3>1. Doc[1] = "document"
        BY DEF Doc
      <3> QED
        BY <3>1, PathAssumption DEF SiteOK
    <2>2. n = 1
      BY <1>5, <1>6, <1>11, <2>1
    <2> QED
      BY <1>3, <2>2
  <1>12. ASSUME p[1] # Doc PROVE SiteOK(nd, c, p[1])
    BY <1>5, <1>6, <1>12
  <1>13. ASSUME NEW k \in DOMAIN q PROVE q[k][1] # p[1][1]
    BY <1>4, <1>5, <1>7
  <1>14. \A k \in DOMAIN q : \E j \in DOMAIN p : q[k] = p[j]
    BY <1>4
  <1> QED
    BY <1>5, <1>10, <1>11, <1>12, <1>13, <1>14

\* The operations of a dispatch that calls handlers.
DispatchPushes(d, site, hs, calls, rest2) ==
    /\ site = d.path[1] /\ hs = Handlers(site, d.ev.type)
    /\ calls = [i \in DOMAIN hs |-> InvokeOp(IF site = Doc THEN hs[i].site ELSE site, d.ev)]
    /\ \/ rest2 = <<>> /\ site # Doc /\ \E i \in DOMAIN hs : Stops(hs[i])
       \/ /\ rest2 = <<[op |-> "dispatch", path |-> Tail(d.path), ev |-> d.ev]>>
          /\ ~ (site # Doc /\ \E i \in DOMAIN hs : Stops(hs[i]))
    /\ Do(calls \o rest2)

\* Dispatch calls nothing, or what DispatchPushes says.
LEMMA DispatchDoes ==
    ASSUME TypeInv, Dispatch, NEW d, d = todo[1]
    PROVE  /\ todo # <<>> /\ d.op = "dispatch" /\ 1 \in DOMAIN todo
           /\ (d.path = <<>> /\ Do(<<>>)) \/ (d.path # <<>> /\ \E site, hs, calls, rest2 : DispatchPushes(d, site, hs, calls, rest2))
  <1>1. todo # <<>> /\ d.op = "dispatch"
    BY DEF Dispatch, At
  <1>2. OpOK(runs, d) /\ 1 \in DOMAIN todo
    BY <1>1, AtHead
  <1>3. d = [op |-> "dispatch", path |-> d.path, ev |-> d.ev]
    BY <1>1, <1>2 DEF OpOK
  <1>4. CASE d.path = <<>>
    BY <1>1, <1>2, <1>4 DEF Dispatch
  <1>5. CASE d.path # <<>>
    <2> DEFINE site == d.path[1]
               hs == Handlers(site, d.ev.type)
               calls == [i \in DOMAIN hs |-> InvokeOp(IF site = Doc THEN hs[i].site ELSE site, d.ev)]
               d2 == [op |-> "dispatch", path |-> Tail(d.path), ev |-> d.ev]
               stopped == site # Doc /\ \E i \in DOMAIN hs : Stops(hs[i])
    <2>1. [d EXCEPT !.path = Tail(d.path)] = d2
      <3>1. WithPath(d, Tail(d.path)) = d2
        <4> HIDE DEF stopped, calls, hs
        <4>1. \A p : WithPath(d, p) = [op |-> "dispatch", path |-> p, ev |-> d.ev]
          BY <1>3, WithPathDoes
        <4> QED
          BY <4>1
      <3> QED
        BY <3>1 DEF WithPath
    <2>2. Do(calls \o IF stopped THEN <<>> ELSE <<[d EXCEPT !.path = Tail(d.path)]>>)
      BY <1>5 DEF Dispatch
    <2>3. \E rest2 : DispatchPushes(d, site, hs, calls, rest2)
      <3>1. CASE stopped
        <4>1. PICK none : none = <<>>
          OBVIOUS
        <4>2. Do(calls \o none)
          BY <2>2, <3>1, <4>1
        <4>3. DispatchPushes(d, site, hs, calls, none)
          BY <3>1, <4>1, <4>2 DEF DispatchPushes
        <4> QED
          BY <4>3
      <3>2. CASE ~ stopped
        <4>1. Do(calls \o <<d2>>)
          BY <2>1, <2>2, <3>2
        <4> QED
          BY <3>2, <4>1, Zenon DEF DispatchPushes
      <3> QED
        BY <3>1, <3>2, Zenon
    <2> QED
      BY <1>1, <1>2, <1>5, <2>3
  <1> QED
    BY <1>4, <1>5

-------------------------------------------------------------------------------
(* How often an event is handled: the steps that call *)

\* The handlers that a dispatch calls: none that the event met before, a site twice only when it
\* is bound twice, and none that the rest of the path leads to.
LEMMA CallsDo ==
    ASSUME TypeInv, BindsOnce, DocOnce, NEW d, PathOK(node, clock, d.path), d.path # <<>>,
           NEW site, NEW hs, NEW calls, NEW rest2, DispatchPushes(d, site, hs, calls, rest2)
    PROVE  /\ IsSeq(calls)
           /\ \A i \in DOMAIN calls : /\ calls[i].op = "invoke" /\ calls[i].ev = d.ev
                                      /\ SiteOK(node, clock, calls[i].site)
                                      /\ \A e : Elsewhere(d.path, d.ev.type, e) => calls[i].site[1] # e
                                      /\ rest2 # <<>> => Elsewhere(Tail(d.path), d.ev.type, calls[i].site[1])
           /\ \A i, j \in DOMAIN calls : i # j /\ Same(calls[i].site, calls[j].site)
                 => Twice(page, runs, calls[i].site[1], d.ev.type)
  <1>1. PICK path, type, q : path = d.path /\ type = d.ev.type /\ q = Tail(d.path)
    OBVIOUS
  <1>2. /\ site = path[1] /\ hs = Handlers(site, type)
        /\ calls = [i \in DOMAIN hs |-> InvokeOp(IF site = Doc THEN hs[i].site ELSE site, d.ev)]
        /\ rest2 # <<>> => ~ (site # Doc /\ \E i \in DOMAIN hs : Stops(hs[i]))
    BY <1>1 DEF DispatchPushes
  <1>3. /\ 1 \in DOMAIN path
        /\ path[1] = Doc => DOMAIN q = {}
        /\ path[1] # Doc => SiteOK(node, clock, path[1])
        /\ \A k \in DOMAIN q : q[k][1] # path[1][1]
    BY <1>1, PathTail
  <1>4. BindsOK
    BY DEF TypeInv
  <1>5. /\ IsSeq(hs)
        /\ site = Doc => PartOf(docBinds, {i \in DOMAIN docBinds : docBinds[i].type = type}, hs)
        /\ site # Doc => DOMAIN hs = {} \/
              (/\ Present(site)
               /\ PartOf(binds[site[1]], {i \in DOMAIN binds[site[1]] : type \in binds[site[1]][i].events}, hs))
    BY <1>2, <1>4, HandlersPart
  <1>6. DOMAIN calls = DOMAIN hs /\ IsSeq(calls)
    <2>1. calls = [i \in DOMAIN hs |-> calls[i]] /\ DOMAIN calls = DOMAIN hs
      BY <1>2
    <2> QED
      BY <1>5, <2>1, Mapped
  <1>7. \A i \in DOMAIN hs : /\ calls[i].op = "invoke" /\ calls[i].ev = d.ev
                             /\ calls[i].site = IF site = Doc THEN hs[i].site ELSE site
    BY <1>2 DEF InvokeOp
  <1>8. \A e : Elsewhere(path, type, e) => path[1][1] # e /\ type \notin DocumentBinds
    BY <1>3 DEF Elsewhere
  <1>9. CASE site = Doc
    <2>1. PICK at : /\ \A k \in DOMAIN hs : at[k] \in DOMAIN docBinds /\ docBinds[at[k]].type = type /\ hs[k] = docBinds[at[k]]
                    /\ \A j, k \in DOMAIN hs : j # k => at[j] # at[k]
      BY <1>5, <1>9 DEF PartOf
    <2>2. \A i \in DOMAIN hs : calls[i].site = docBinds[at[i]].site
      BY <1>7, <1>9, <2>1
    <2>3. \A i \in DOMAIN hs : SiteOK(node, clock, calls[i].site) /\ type \in DocumentBinds
      BY <2>1, <2>2 DEF DocOnce
    <2>4. \A i, j \in DOMAIN hs : i # j /\ Same(calls[i].site, calls[j].site) => Twice(page, runs, calls[i].site[1], type)
      BY <2>1, <2>2 DEF DocOnce
    <2>5. \A e : Elsewhere(q, type, e)
      BY <1>2, <1>3, <1>9 DEF Elsewhere
    <2>6. \A i \in DOMAIN hs : \A e : Elsewhere(path, type, e) => calls[i].site[1] # e
      BY <1>8, <2>3
    <2> QED
      BY <1>1, <1>6, <1>7, <2>3, <2>4, <2>5, <2>6
  <1>10. CASE site # Doc /\ DOMAIN hs = {}
    BY <1>6, <1>10
  <1>11. CASE site # Doc /\ DOMAIN hs # {}
    <2>1. PICK e : e = site[1]
      OBVIOUS
    <2>2. Present(site) /\ PartOf(binds[e], {i \in DOMAIN binds[e] : type \in binds[e][i].events}, hs)
      BY <1>5, <1>11, <2>1
    <2>3. PICK at : /\ \A k \in DOMAIN hs : at[k] \in DOMAIN binds[e] /\ type \in binds[e][at[k]].events /\ hs[k] = binds[e][at[k]]
                    /\ \A j, k \in DOMAIN hs : j # k => at[j] # at[k]
      BY <2>2 DEF PartOf
    <2>4. e \in Element
      BY <2>1, <2>2 DEF Present
    <2>5. \A i \in DOMAIN hs : calls[i].site = site
      BY <1>7, <1>11
    <2>6. SiteOK(node, clock, site)
      BY <1>2, <1>3, <1>11
    <2>a. /\ \A i, j \in DOMAIN binds[e] : i # j => \A t \in binds[e][i].events \cap binds[e][j].events : Twice(page, runs, e, t)
          /\ \A i \in DOMAIN binds[e] : \A t \in binds[e][i].events \cap DocumentBinds : Canceled(page, binds[e][i], t)
      BY <2>4 DEF BindsOnce
    <2>7. ASSUME NEW i \in DOMAIN hs, NEW j \in DOMAIN hs, i # j PROVE Twice(page, runs, e, type)
      <3>1. /\ at[i] \in DOMAIN binds[e] /\ at[j] \in DOMAIN binds[e] /\ at[i] # at[j]
            /\ type \in binds[e][at[i]].events \cap binds[e][at[j]].events
        BY <2>3, <2>7
      <3> QED
        BY <2>a, <3>1
    <2>8. ASSUME rest2 # <<>> PROVE Elsewhere(q, type, e)
      <3>1. \A i \in DOMAIN hs : ~ Stops(hs[i])
        BY <1>2, <1>11, <2>8
      <3>2. PICK i \in DOMAIN hs : TRUE
        BY <1>11
      <3>3. binds[e][at[i]].status # CancelAll
        BY <2>3, <3>1 DEF Stops
      <3>4. type \notin DocumentBinds
        BY <2>3, <2>a, <3>3 DEF Canceled
      <3>5. \A k \in DOMAIN q : q[k][1] # e
        BY <1>2, <1>3, <2>1
      <3> QED
        BY <3>4, <3>5 DEF Elsewhere
    <2> QED
      <3>1. \A e1 : Elsewhere(path, type, e1) => e # e1
        BY <1>2, <1>8, <2>1
      <3>2. \A i \in DOMAIN calls : calls[i].site[1] = e /\ calls[i].site = site
        BY <1>6, <2>1, <2>5
      <3>3. \A i \in DOMAIN calls :
               /\ calls[i].op = "invoke" /\ calls[i].ev = d.ev
               /\ SiteOK(node, clock, calls[i].site)
               /\ \A e1 : Elsewhere(path, type, e1) => calls[i].site[1] # e1
               /\ rest2 # <<>> => Elsewhere(q, type, calls[i].site[1])
        BY <1>6, <1>7, <2>6, <2>8, <3>1, <3>2
      <3>4. \A i, j \in DOMAIN calls : i # j => Twice(page, runs, calls[i].site[1], type)
        BY <1>6, <2>7, <3>2
      <3> QED
        BY <1>1, <1>6, <3>3, <3>4
  <1> QED
    BY <1>9, <1>10, <1>11

\* A call of a handler.
LEMMA CallOnce ==
    ASSUME TodoOnce, NEW d, 1 \in DOMAIN todo, d = todo[1], d.op = "dispatch", \A k \in DOMAIN todo : k \in Nat,
           NEW c, c.op = "invoke", c.ev = d.ev, SiteOK(node, clock, c.site),
           \A e : Elsewhere(d.path, d.ev.type, e) => c.site[1] # e
    PROVE  /\ SingleOK(page, runs, node, attr, clock, c)
           /\ Ready(page, runs, node, runner, history.started, c)
           /\ \A w \in history.handled : Unseen(page, runs, c, w)
           /\ \A k \in DOMAIN todo : k > 1 => Apart(page, runs, c, todo[k]) /\ Apart(page, runs, todo[k], c)
  <1>1. IsDispatch(d) /\ Named(d)
    BY DEF IsDispatch, Named
  <1>2. d.ev.type # InitIncoding
    BY <1>1 DEF TodoOnce, SinglesOK, SingleOK
  <1>3. IsInvoke(c) /\ ~ IsDispatch(c) /\ Named(c) /\ ~ IsInit(c)
    BY <1>2 DEF IsInvoke, IsDispatch, Named, IsInit
  <1>4. SingleOK(page, runs, node, attr, clock, c) /\ Ready(page, runs, node, runner, history.started, c)
    BY <1>3 DEF SingleOK, Ready
  <1>5. \A w \in history.handled : Unseen(page, runs, d, w)
    BY DEF TodoOnce, PastOK
  <1>6. \A w \in history.handled : Unseen(page, runs, c, w)
    BY <1>1, <1>3, <1>5 DEF Unseen
  <1>7. ASSUME NEW k \in DOMAIN todo, k > 1 PROVE Apart(page, runs, c, todo[k]) /\ Apart(page, runs, todo[k], c)
    <2>1. k # 1
      BY <1>7
    <2>2. PICK p : p = todo[k]
      OBVIOUS
    <2>3. Apart(page, runs, d, p) /\ Apart(page, runs, p, d)
      BY <2>1, <2>2 DEF TodoOnce, PairsOK
    <2>4. ASSUME Named(p), p.ev.n = d.ev.n
          PROVE  ~ IsDispatch(p) /\ (IsInvoke(p) => c.site[1] # p.site[1]) /\ (AttachesLate(page) => ~ IsInit(p))
      BY <1>1, <2>3, <2>4 DEF Apart
    <2>5. Apart(page, runs, c, p)
      BY <1>3, <2>4 DEF Apart, Same
    <2>6. Apart(page, runs, p, c)
      BY <1>3, <2>4 DEF Apart, Same
    <2> QED
      BY <2>2, <2>5, <2>6
  <1> QED
    BY <1>4, <1>6, <1>7

\* What a path does not lead to, the rest of it does not.
LEMMA RestOfPath ==
    ASSUME NEW nd, NEW c, NEW p, PathOK(nd, c, p), p # <<>>, NEW q, q = Tail(p)
    PROVE  PathOK(nd, c, q) /\ \A type, e : Elsewhere(p, type, e) => Elsewhere(q, type, e)
  <1>1. PathOK(nd, c, q)
    BY PathTail
  <1>2. \A k \in DOMAIN q : \E j \in DOMAIN p : q[k] = p[j]
    BY PathTail
  <1> QED
    BY <1>1, <1>2 DEF Elsewhere

\* The event goes on along its path.
LEMMA GoesOnOnce ==
    ASSUME TodoOnce, NEW d, 1 \in DOMAIN todo, d = todo[1], d.op = "dispatch", d.path # <<>>, \A k \in DOMAIN todo : k \in Nat,
           NEW c, c.op = "dispatch", c.ev = d.ev, c.path = Tail(d.path)
    PROVE  /\ SingleOK(page, runs, node, attr, clock, c)
           /\ Ready(page, runs, node, runner, history.started, c)
           /\ \A w \in history.handled : Unseen(page, runs, c, w)
           /\ \A k \in DOMAIN todo : k > 1 => Apart(page, runs, c, todo[k]) /\ Apart(page, runs, todo[k], c)
  <1>1. IsDispatch(d) /\ Named(d)
    BY DEF IsDispatch, Named
  <1>2. d.ev.type # InitIncoding /\ PathOK(node, clock, d.path)
    BY <1>1 DEF TodoOnce, SinglesOK, SingleOK
  <1>3. ~ IsInvoke(c) /\ IsDispatch(c) /\ Named(c) /\ ~ IsInit(c) /\ c.op # "fire"
    BY DEF IsInvoke, IsDispatch, Named, IsInit
  <1>a. PICK q, path : q = c.path /\ path = d.path
    OBVIOUS
  <1>b. PathOK(node, clock, q) /\ \A type, e : Elsewhere(path, type, e) => Elsewhere(q, type, e)
    <2>1. PathOK(node, clock, path) /\ path # <<>> /\ q = Tail(path)
      BY <1>2, <1>a
    <2> QED
      BY <2>1, RestOfPath
  <1>4. SingleOK(page, runs, node, attr, clock, c) /\ Ready(page, runs, node, runner, history.started, c)
    BY <1>2, <1>3, <1>a, <1>b DEF SingleOK, Ready
  <1>c. \A type, e : Elsewhere(path, type, e) => Elsewhere(q, type, e)
    BY <1>b
  <1>5. \A w \in history.handled : Unseen(page, runs, d, w)
    BY DEF TodoOnce, PastOK
  <1>6. \A w \in history.handled : Unseen(page, runs, c, w)
    BY <1>1, <1>3, <1>5, <1>a, <1>c DEF Unseen
  <1>7. ASSUME NEW k \in DOMAIN todo, k > 1 PROVE Apart(page, runs, c, todo[k]) /\ Apart(page, runs, todo[k], c)
    <2>1. k # 1
      BY <1>7
    <2>2. PICK p : p = todo[k]
      OBVIOUS
    <2>3. Apart(page, runs, d, p) /\ Apart(page, runs, p, d)
      BY <2>1, <2>2 DEF TodoOnce, PairsOK
    <2>4. ASSUME Named(p), p.ev.n = d.ev.n
          PROVE  /\ ~ IsDispatch(p) /\ (IsInvoke(p) => Elsewhere(q, d.ev.type, p.site[1]))
                 /\ (AttachesLate(page) => ~ IsInit(p))
      BY <1>1, <1>a, <1>c, <2>3, <2>4 DEF Apart
    <2>5. Apart(page, runs, c, p)
      BY <1>3, <1>a, <2>4 DEF Apart
    <2>6. Apart(page, runs, p, c)
      BY <1>3, <2>4 DEF Apart
    <2> QED
      BY <2>2, <2>5, <2>6
  <1> QED
    BY <1>4, <1>6, <1>7

\* An event is at one more place.
LEMMA DispatchOnce ==
    ASSUME TypeInv, OnceHistoryOK, BindsOnce, DocOnce, TodoOnce, DomMoves, Next, NotByHand(page), Dispatch
    PROVE  TodoOnce'
  <1>1. PICK d : d = todo[1]
    OBVIOUS
  <1>2. /\ todo # <<>> /\ d.op = "dispatch" /\ 1 \in DOMAIN todo
        /\ Do(<<>>) \/ (d.path # <<>> /\ \E site, hs, calls, rest2 : DispatchPushes(d, site, hs, calls, rest2))
    BY <1>1, DispatchDoes
  <1>3. history'.handled = history.handled /\ history'.started = history.started
    <2>1. ~ Invoke
      BY <1>1, <1>2 DEF Invoke, At
    <2> QED
      BY <2>1, OnceFrames DEF OnceFrame
  <1>4. StaysRecalled
    BY <1>3, RecalledKept
  <1>5. CASE Do(<<>>)
    <2>1. PICK a : a = <<>>
      OBVIOUS
    <2>2. IsSeq(a) /\ DOMAIN a = {} /\ Do(a)
      BY <1>5, <2>1, IsSeqEmpty
    <2> QED
      BY <1>2, <1>4, <2>2, OncePushed
  <1>6. ASSUME d.path # <<>>, NEW site, NEW hs, NEW calls, NEW rest2, DispatchPushes(d, site, hs, calls, rest2)
        PROVE  TodoOnce'
    <2>1. IsDispatch(d)
      BY <1>2 DEF IsDispatch
    <2>2. PathOK(node, clock, d.path)
      BY <1>1, <1>2, <2>1 DEF TodoOnce, SinglesOK, SingleOK
    <2>3. /\ IsSeq(calls)
          /\ \A i \in DOMAIN calls : /\ calls[i].op = "invoke" /\ calls[i].ev = d.ev
                                     /\ SiteOK(node, clock, calls[i].site)
                                     /\ \A e : Elsewhere(d.path, d.ev.type, e) => calls[i].site[1] # e
                                     /\ rest2 # <<>> => Elsewhere(Tail(d.path), d.ev.type, calls[i].site[1])
          /\ \A i, j \in DOMAIN calls : i # j /\ Same(calls[i].site, calls[j].site)
                => Twice(page, runs, calls[i].site[1], d.ev.type)
      BY <1>6, <2>2, CallsDo
    <2>4. \A k \in DOMAIN todo : k \in Nat
      <3>1. IsSeq(todo)
        BY DEF TypeInv, OpsOK
      <3> QED
        BY <3>1, IsSeqDom
    <2>5. d.ev.type # InitIncoding
      BY <1>1, <1>2, <2>1 DEF TodoOnce, SinglesOK, SingleOK
    <2>6. PICK c2 : c2 = [op |-> "dispatch", path |-> Tail(d.path), ev |-> d.ev]
      OBVIOUS
    <2>7. c2.op = "dispatch" /\ c2.path = Tail(d.path) /\ c2.ev = d.ev
      BY <2>6
    <2>8. rest2 = <<>> \/ rest2 = <<c2>>
      BY <1>6, <2>6 DEF DispatchPushes
    <2>9. IsSeq(rest2) /\ (DOMAIN rest2 # {} => DOMAIN rest2 = {1} /\ rest2[1] = c2 /\ rest2 # <<>>)
      BY <2>8, IsSeqEmpty, IsSeqTuples
    <2>10. PICK a, lc : a = calls \o rest2 /\ lc = Len(calls)
      OBVIOUS
    <2>11. /\ IsSeq(a) /\ lc \in Nat /\ DOMAIN calls = 1..lc
           /\ \A i \in DOMAIN a : \/ i \in DOMAIN calls /\ a[i] = calls[i]
                                  \/ i = lc + 1 /\ a[i] = c2 /\ rest2 # <<>>
      <3>1. PICK lr : lr = Len(rest2)
        OBVIOUS
      <3>2. lc \in Nat /\ lr \in Nat /\ DOMAIN calls = 1..lc /\ DOMAIN rest2 = 1..lr
        BY <2>3, <2>9, <2>10, <3>1, IsSeqDom
      <3>3. /\ IsSeq(a) /\ DOMAIN a = 1..(lc + lr)
            /\ \A i \in 1..lc : a[i] = calls[i]
            /\ \A i \in 1..lr : a[lc + i] = rest2[i]
        BY <2>3, <2>9, <2>10, <3>1, IsSeqConcat
      <3>4. ASSUME NEW i \in DOMAIN a, i \notin DOMAIN calls PROVE i = lc + 1 /\ a[i] = c2 /\ rest2 # <<>>
        <4>1. PICK j : j = i - lc
          OBVIOUS
        <4>2. j \in 1..lr /\ i = lc + j
          BY <3>2, <3>3, <3>4, <4>1
        <4>3. j = 1 /\ rest2[1] = c2 /\ rest2 # <<>>
          BY <2>9, <3>2, <4>2, Zenon
        <4> QED
          BY <3>3, <4>2, <4>3
      <3> QED
        BY <3>2, <3>3, <3>4
    <2>12. Do(a)
      BY <1>6, <2>10, Zenon DEF DispatchPushes
    <2>13. /\ runs' = runs /\ node' = node /\ attr' = attr /\ runner' = runner /\ clock' = clock
      BY DEF Dispatch, dom
    <2>14. ASSUME NEW i \in DOMAIN a
           PROVE  /\ a[i].op # "run"
                  /\ SingleOK(page, runs, node, attr, clock, a[i])
                  /\ Ready(page, runs, node, runner, history.started, a[i])
                  /\ \A w \in history.handled : Unseen(page, runs, a[i], w)
                  /\ \A k \in DOMAIN todo : k > 1 => Apart(page, runs, a[i], todo[k]) /\ Apart(page, runs, todo[k], a[i])
      <3>1. CASE i \in DOMAIN calls /\ a[i] = calls[i]
        <4>1. PICK c : c = a[i]
          OBVIOUS
        <4>2. /\ c.op = "invoke" /\ c.ev = d.ev /\ SiteOK(node, clock, c.site)
              /\ \A e : Elsewhere(d.path, d.ev.type, e) => c.site[1] # e
          BY <2>3, <3>1, <4>1
        <4> QED
          BY <1>1, <1>2, <2>4, <4>1, <4>2, CallOnce
      <3>2. CASE a[i] = c2
        BY <1>1, <1>2, <1>6, <2>4, <2>7, <3>2, GoesOnOnce
      <3> QED
        BY <2>11, <3>1, <3>2
    <2>15. ASSUME NEW i \in DOMAIN a, NEW j \in DOMAIN a, i # j
           PROVE  Apart(page, runs, a[i], a[j])
      <3>1. \A k \in DOMAIN calls : IsInvoke(calls[k]) /\ ~ IsDispatch(calls[k]) /\ ~ IsInit(calls[k])
        BY <2>3, <2>5 DEF IsInvoke, IsDispatch, IsInit
      <3>2. ~ IsInvoke(c2) /\ IsDispatch(c2) /\ ~ IsInit(c2)
        BY <2>7 DEF IsInvoke, IsDispatch, IsInit
      <3>3. CASE i \in DOMAIN calls /\ a[i] = calls[i] /\ j \in DOMAIN calls /\ a[j] = calls[j]
        <4>1. Same(calls[i].site, calls[j].site) => Twice(page, runs, calls[i].site[1], calls[i].ev.type)
          BY <2>3, <2>15, <3>3
        <4> QED
          BY <3>1, <3>3, <4>1 DEF Apart
      <3>4. CASE i \in DOMAIN calls /\ a[i] = calls[i] /\ a[j] = c2
        BY <3>1, <3>2, <3>4 DEF Apart
      <3>5. CASE a[i] = c2 /\ rest2 # <<>> /\ j \in DOMAIN calls /\ a[j] = calls[j]
        <4>1. Elsewhere(c2.path, c2.ev.type, calls[j].site[1])
          BY <2>3, <2>7, <3>5
        <4> QED
          BY <3>1, <3>2, <3>5, <4>1 DEF Apart
      <3>6. CASE i = lc + 1 /\ j = lc + 1
        BY <2>15, <3>6
      <3> QED
        BY <2>11, <3>3, <3>4, <3>5, <3>6
    <2>16. \A i \in DOMAIN a : /\ a[i].op # "run"
                               /\ SingleOK(page, runs', node', attr', clock', a[i])
                               /\ Ready(page, runs', node', runner', history'.started, a[i])
                               /\ \A w \in history'.handled : Unseen(page, runs', a[i], w)
                               /\ \A j \in DOMAIN a : i # j => Apart(page, runs', a[i], a[j])
                               /\ \A k \in DOMAIN todo : k > 1 => /\ Apart(page, runs', a[i], todo[k])
                                                                  /\ Apart(page, runs', todo[k], a[i])
      BY <1>3, <2>13, <2>14, <2>15
    <2> QED
      BY <1>2, <1>4, <2>11, <2>12, <2>16, OncePushed
  <1> QED
    BY <1>2, <1>5, <1>6

\* What is recalled of a call that finds the element and its runner.
CallOf(site, ev, e, r) ==
    /\ Present(site) /\ r # 0
    /\ history'.handled = history.handled \cup {<<e, r, ev.n>>}
    /\ history'.started = IF ev.type = InitIncoding THEN history.started \cup {<<e, r>>} ELSE history.started
    /\ history'.twice = IF \/ \E q \in DOMAIN runs[e] : <<e, q, ev.n>> \in history.handled
                           \/ (ev.type = InitIncoding /\ <<e, r>> \in history.started)
                           THEN history.twice \cup {<<e, ev.type>>} ELSE history.twice

\* What a call leaves: nothing when the element is gone, else executables of a runner of it.
LEMMA InvokeCalls ==
    ASSUME TypeInv, OnceHistoryOK, Invoke, NEW site, site = todo[1].site, NEW ev, ev = todo[1].ev,
           NEW e, e = site[1], NEW r, r = runner[e]
    PROVE  /\ todo # <<>> /\ todo[1].op = "invoke" /\ 1 \in DOMAIN todo
           /\ \/ /\ ~ Present(site) \/ r = 0
                 /\ Do(<<>>) /\ history' = history
              \/ /\ CallOf(site, ev, e, r)
                 /\ \E a : IsSeq(a) /\ Do(a) /\ \A i \in DOMAIN a : a[i].op \in {"execute", "catch", "actions"}
  <1>1. todo # <<>> /\ todo[1].op = "invoke" /\ 1 \in DOMAIN todo
    <2>1. todo # <<>> /\ todo[1].op = "invoke"
      BY DEF Invoke, At
    <2> QED
      BY <2>1, AtHead
  <1>2. CASE ~ Present(site) \/ r = 0
    BY <1>1, <1>2 DEF Invoke
  <1>3. CASE Present(site) /\ r # 0
    <2> DEFINE xs == BeforeOf(e, r, ev.type)
               runs1 == [i \in DOMAIN xs |-> ExecuteOp(xs[i], ev)]
               last == <<[op |-> "catch", e |-> e, r |-> r, ev |-> ev], [op |-> "actions", e |-> e, r |-> r, ev |-> ev]>>
               handled == history.handled \cup {<<e, r, ev.n>>}
               twice == IF \/ \E q \in DOMAIN runs[e] : <<e, q, ev.n>> \in history.handled
                           \/ (ev.type = InitIncoding /\ <<e, r>> \in history.started)
                           THEN history.twice \cup {<<e, ev.type>>} ELSE history.twice
               started == IF ev.type = InitIncoding THEN history.started \cup {<<e, r>>} ELSE history.started
    <2>1. Do(runs1 \o last)
      BY <1>3 DEF Invoke, Each
    <2>2. history' = [history EXCEPT !.handled = handled, !.twice = twice, !.started = started]
      BY <1>3, Zenon DEF Invoke
    <2>3. Lists(e, r, BeforePositions(e, r, ev.type), xs)
      BY <1>3, InvokeDoes, Zenon
    <2>4. IsSeq(xs)
      BY <2>3 DEF Lists
    <2>5. runs1 = [i \in DOMAIN xs |-> runs1[i]] /\ DOMAIN runs1 = DOMAIN xs /\ \A i \in DOMAIN xs : runs1[i].op = "execute"
      BY DEF ExecuteOp
    <2>6. IsSeq(last) /\ Len(last) = 2 /\ \A i \in 1..2 : last[i].op \in {"catch", "actions"}
      <3>1. last[1].op = "catch" /\ last[2].op = "actions"
        OBVIOUS
      <3>2. \A i \in 1..2 : i = 1 \/ i = 2
        OBVIOUS
      <3>3. IsSeq(last) /\ Len(last) = 2
        BY IsSeqTuples
      <3> HIDE DEF last
      <3> QED
        BY <3>1, <3>2, <3>3
    <2> HIDE DEF runs1, last, xs, handled, twice, started
    <2>7. IsSeq(runs1)
      BY <2>4, <2>5, Mapped
    <2>8. PICK a, m : a = runs1 \o last /\ m = Len(runs1)
      OBVIOUS
    <2>9. /\ m \in Nat /\ DOMAIN runs1 = 1..m
          /\ IsSeq(a) /\ DOMAIN a = 1..(m + 2)
          /\ \A i \in 1..m : a[i] = runs1[i]
          /\ \A i \in 1..2 : a[m + i] = last[i]
      <3>1. m \in Nat /\ DOMAIN runs1 = 1..m
        BY <2>7, <2>8, IsSeqDom
      <3>2. /\ IsSeq(a) /\ DOMAIN a = 1..(Len(runs1) + Len(last))
            /\ \A i \in 1..Len(runs1) : a[i] = runs1[i]
            /\ \A i \in 1..Len(last) : a[Len(runs1) + i] = last[i]
        <4>1. IsSeq(last)
          BY <2>6
        <4> QED
          BY <2>7, <2>8, <4>1, IsSeqConcat
      <3> QED
        BY <2>6, <2>8, <3>1, <3>2
    <2>10. ASSUME NEW i \in DOMAIN a PROVE a[i].op \in {"execute", "catch", "actions"}
      <3>1. CASE i \in 1..m
        BY <2>5, <2>9, <3>1
      <3>2. CASE i \notin 1..m
        <4>1. PICK j : j = i - m
          OBVIOUS
        <4>2. j \in 1..2 /\ i = m + j
          BY <2>9, <3>2, <4>1
        <4> QED
          BY <2>6, <2>9, <4>2
      <3> QED
        BY <3>1, <3>2
    <2>11. Do(a)
      BY <2>1, <2>8
    <2>12. history'.handled = handled /\ history'.started = started /\ history'.twice = twice
      BY <2>2 DEF OnceHistoryOK, Remembered
    <2> QED
      BY <1>1, <1>3, <2>9, <2>10, <2>11, <2>12 DEF handled, started, twice, CallOf
  <1> QED
    BY <1>2, <1>3

\* What is recalled of a call goes with what is further back.
LEMMA CallRecalled ==
    ASSUME TypeInv, EventsOK, TodoBr, NodesOK, TodoOnce, DomMoves, 1 \in DOMAIN todo, todo[1].op = "invoke",
           NEW site, site = todo[1].site, NEW ev, ev = todo[1].ev, NEW e, e = site[1], NEW r, r = runner[e],
           UNCHANGED <<node, runner>>, CallOf(site, ev, e, r)
    PROVE  StaysRecalled
  <1>0. /\ Present(site) /\ r # 0
        /\ history'.handled = history.handled \cup {<<e, r, ev.n>>}
        /\ history'.started = IF ev.type = InitIncoding THEN history.started \cup {<<e, r>>} ELSE history.started
    BY DEF CallOf
  <1>1. PICK o : o = todo[1]
    OBVIOUS
  <1>2. o.site = site /\ o.ev = ev /\ IsInvoke(o) /\ Named(o) /\ ~ IsDispatch(o) /\ (IsInit(o) <=> ev.type = InitIncoding)
    BY <1>1 DEF IsInvoke, Named, IsDispatch, IsInit
  <1>3. e \in Element /\ node[e] = site[2] /\ site[2] > 0 /\ r \in DOMAIN runs[e] /\ runs[e][r].incarnation = node[e]
    BY <1>0 DEF Present, TypeInv, DomOK
  <1>4. r \in DOMAIN runs'[e] /\ runs'[e][r].incarnation = node[e]
    BY <1>3 DEF DomMoves, Grown
  <1>5. ev.n \in Nat /\ ev.n <= clock /\ ev.n <= clock'
    <2>1. ev.n \in Nat /\ ev.n <= clock
      BY <1>1, <1>2, NamedEvents
    <2>2. clock \in Nat /\ clock' \in Nat /\ clock <= clock'
      BY DEF DomMoves
    <2> QED
      BY <2>1, <2>2
  <1>6. \A k \in DOMAIN todo : k # 1 => Apart(page, runs, o, todo[k]) /\ Apart(page, runs, todo[k], o)
    BY <1>1 DEF TodoOnce, PairsOK
  <1>a. \A k \in DOMAIN todo : k > 1 => k # 1
    <2>1. IsSeq(todo)
      BY DEF TypeInv, OpsOK
    <2>2. \A k \in DOMAIN todo : k \in Nat
      BY <2>1, IsSeqDom
    <2> QED
      BY <2>2
  <1>7. ASSUME NEW k \in DOMAIN todo, k > 1
        PROVE  Ready(page, runs', node', runner', history'.started, todo[k])
    <2>1. PICK p, f, n : p = todo[k] /\ f = p.site[1] /\ n = p.site[2]
      OBVIOUS
    <2> SUFFICES ASSUME IsInit(p), node[f] = n, n > 0, runner[f] # 0, <<f, runner[f]>> \in history'.started
                 PROVE  Twice(page, runs', f, InitIncoding) /\ ~ AttachesLate(page)
      BY <2>1 DEF Ready
    <2>2. f \in Element
      BY <2>1 DEF TodoOnce, SinglesOK, SingleOK, SiteOK, IsInit
    <2>3. CASE <<f, runner[f]>> \in history.started
      <3>1. Ready(page, runs, node, runner, history.started, p)
        BY <2>1 DEF TodoOnce, ReadyOK
      <3>2. Twice(page, runs, f, InitIncoding) /\ ~ AttachesLate(page)
        BY <2>1, <2>3, <3>1 DEF Ready
      <3> QED
        BY <2>2, <3>2, SitesStay
    <2>4. CASE <<f, runner[f]>> \notin history.started
      <3>1. ev.type = InitIncoding /\ f = e
        BY <1>0, <2>4
      <3>2. Same(o.site, p.site)
        BY <1>2, <1>3, <2>1, <3>1 DEF Same
      <3>3. Twice(page, runs, e, InitIncoding) /\ ~ AttachesLate(page)
        <4>0. k # 1
          BY <1>7, <1>a
        <4>1. Apart(page, runs, o, p)
          BY <1>6, <2>1, <4>0
        <4>2. IsInit(o) /\ o.site[1] = e
          BY <1>2, <3>1
        <4> QED
          BY <3>2, <4>1, <4>2 DEF Apart
      <3> QED
        BY <1>3, <3>1, <3>3, SitesStay
    <2> QED
      BY <2>3, <2>4
  <1>8. ASSUME NEW w \in history'.handled, NEW k \in DOMAIN todo, k > 1
        PROVE  Unseen(page, runs', todo[k], w)
    <2>1. CASE w \in history.handled
      BY <2>1, UnseenStays DEF TodoOnce
    <2>2. CASE w \notin history.handled
      <3>1. PICK p : p = todo[k]
        OBVIOUS
      <3>2. w[1] = e /\ w[2] = r /\ w[3] = ev.n
        BY <1>0, <2>2
      <3>3. ASSUME Named(p), p.ev.n = ev.n
            PROVE  /\ IsDispatch(p) => Elsewhere(p.path, p.ev.type, e)
                   /\ IsInvoke(p) /\ Same(p.site, site) => Twice(page, runs, e, p.ev.type)
                   /\ AttachesLate(page) => ~ IsInit(p)
        <4>0. k # 1
          BY <1>8, <1>a
        <4>1. Apart(page, runs, o, p) /\ Apart(page, runs, p, o)
          BY <1>6, <3>1, <4>0
        <4>2. IsDispatch(p) => Elsewhere(p.path, p.ev.type, e)
          BY <1>2, <3>3, <4>1 DEF Apart
        <4>3. AttachesLate(page) => ~ IsInit(p)
          BY <1>2, <3>3, <4>1 DEF Apart
        <4>4. ASSUME IsInvoke(p), Same(p.site, site) PROVE Twice(page, runs, e, p.ev.type)
          BY <1>2, <3>3, <4>1, <4>4 DEF Apart, Same
        <4> QED
          BY <4>2, <4>3, <4>4
      <3>4. ASSUME IsInvoke(p), p.site[1] = e, ~ Same(p.site, site)
            PROVE  p.site[2] < runs'[e][r].incarnation
        <4>1. SiteOK(node, clock, p.site)
          BY <3>1, <3>4 DEF TodoOnce, SinglesOK, SingleOK
        <4>2. PICK m, v : m = p.site[2] /\ v = node[e]
          OBVIOUS
        <4>3. m \in Nat /\ (v = 0 \/ m <= v)
          BY <3>4, <4>1, <4>2 DEF SiteOK
        <4>4. v \in Nat /\ v > 0 /\ m # v
          BY <1>3, <3>4, <4>2 DEF NodesOK, Same
        <4>5. m < v
          BY <4>3, <4>4
        <4> QED
          BY <1>4, <4>2, <4>5
      <3>5. \A type : Twice(page, runs, e, type) => Twice(page, runs', e, type)
        BY <1>3, SitesStay
      <3> QED
        BY <3>1, <3>2, <3>3, <3>4, <3>5 DEF Unseen
    <2> QED
      BY <2>1, <2>2
  <1>9. ASSUME NEW w \in history'.handled
        PROVE  w[1] \in Element /\ w[2] \in DOMAIN runs'[w[1]] /\ w[3] \in Nat /\ w[3] <= clock'
    <2>1. CASE w \in history.handled
      BY <2>1, HeldStays DEF TodoOnce, PastOK
    <2>2. CASE w \notin history.handled
      <3>1. w[1] = e /\ w[2] = r /\ w[3] = ev.n
        BY <1>0, <2>2
      <3> QED
        BY <1>3, <1>4, <1>5, <3>1
    <2> QED
      BY <2>1, <2>2
  <1>10. ASSUME NEW w \in history'.started
         PROVE  w[1] \in Element /\ w[2] \in DOMAIN runs'[w[1]]
    <2>1. CASE w \in history.started
      BY <2>1 DEF TodoOnce, StartedOK, DomMoves, Grown
    <2>2. CASE w \notin history.started
      <3>1. w = <<e, r>>
        BY <1>0, <2>2
      <3>2. w[1] = e /\ w[2] = r
        BY <3>1, PairParts
      <3> QED
        BY <1>3, <1>4, <3>2
    <2> QED
      BY <2>1, <2>2
  <1>11. /\ \A k \in DOMAIN todo : k > 1 => Ready(page, runs', node', runner', history'.started, todo[k])
         /\ \A w \in history'.started : w[1] \in Element /\ w[2] \in DOMAIN runs'[w[1]]
    BY <1>7, <1>10
  <1>12. \A w \in history'.handled :
            /\ w[1] \in Element /\ w[2] \in DOMAIN runs'[w[1]] /\ w[3] \in Nat /\ w[3] <= clock'
            /\ \A k \in DOMAIN todo : k > 1 => Unseen(page, runs', todo[k], w)
    BY <1>8, <1>9
  <1> QED
    BY <1>11, <1>12 DEF StaysRecalled

\* Operations that are no events.
LEMMA OncePushedPlain ==
    ASSUME TypeInv, TodoOnce, DomMoves, Next, NotByHand(page), StaysRecalled, todo # <<>>,
           NEW a, IsSeq(a), Do(a), \A i \in DOMAIN a : a[i].op \in {"execute", "catch", "actions"}
    PROVE  TodoOnce'
  <1>1. ASSUME NEW i \in DOMAIN a PROVE ~ Named(a[i]) /\ a[i].op # "run" /\ a[i].op # "fire"
    BY <1>1 DEF Named
  <1>2. \A i \in DOMAIN a : /\ a[i].op # "run"
                            /\ SingleOK(page, runs', node', attr', clock', a[i])
                            /\ Ready(page, runs', node', runner', history'.started, a[i])
                            /\ \A w \in history'.handled : Unseen(page, runs', a[i], w)
                            /\ \A j \in DOMAIN a : i # j => Apart(page, runs', a[i], a[j])
                            /\ \A k \in DOMAIN todo : k > 1 => /\ Apart(page, runs', a[i], todo[k])
                                                               /\ Apart(page, runs', todo[k], a[i])
    BY <1>1, MildOnce
  <1> QED
    BY <1>2, OncePushed

\* A call is over.
LEMMA InvokeOnce ==
    ASSUME TypeInv, EventsOK, TodoBr, OnceHistoryOK, NodesOK, TodoOnce, DomMoves, Next, NotByHand(page), Invoke
    PROVE  TodoOnce'
  <1>1. PICK site, ev : site = todo[1].site /\ ev = todo[1].ev
    OBVIOUS
  <1>2. PICK e, r : e = site[1] /\ r = runner[e]
    OBVIOUS
  <1>3. todo # <<>> /\ todo[1].op = "invoke" /\ 1 \in DOMAIN todo
    BY <1>1, <1>2, InvokeCalls
  <1>4. CASE Do(<<>>) /\ history' = history
    <2>1. StaysRecalled
      BY <1>4, RecalledKept
    <2>2. PICK a : a = <<>>
      OBVIOUS
    <2>3. IsSeq(a) /\ DOMAIN a = {} /\ Do(a)
      BY <1>4, <2>2, IsSeqEmpty
    <2> QED
      BY <1>3, <2>1, <2>3, OncePushedPlain
  <1>5. CASE ~ (Do(<<>>) /\ history' = history)
    <2>1. /\ CallOf(site, ev, e, r)
          /\ \E a : IsSeq(a) /\ Do(a) /\ \A i \in DOMAIN a : a[i].op \in {"execute", "catch", "actions"}
      BY <1>1, <1>2, <1>5, InvokeCalls
    <2>2. UNCHANGED <<node, runner>>
      BY DEF Invoke
    <2>3. StaysRecalled
      BY <1>1, <1>2, <1>3, <2>1, <2>2, CallRecalled
    <2> QED
      BY <1>3, <2>1, <2>3, OncePushedPlain
  <1> QED
    BY <1>4, <1>5

\* What was handled twice was bound twice.
TwiceOK ==
    \A w \in history.twice : /\ w[1] \in Element /\ Twice(page, runs, w[1], w[2])
                             /\ AttachesLate(page) => w[2] # InitIncoding

\* Every step keeps TwiceOK.
LEMMA TwiceStep ==
    ASSUME TypeInv, OnceHistoryOK, NodesOK, TodoOnce, TwiceOK, DomMoves, Next
    PROVE  TwiceOK'
  <1>1. page' = page
    BY DEF DomMoves
  <1>2. ASSUME NEW w \in history.twice
        PROVE  w[1] \in Element /\ Twice(page, runs', w[1], w[2]) /\ (AttachesLate(page) => w[2] # InitIncoding)
    BY SitesStay DEF TwiceOK
  <1>3. CASE history'.twice = history.twice
    BY <1>1, <1>2, <1>3 DEF TwiceOK
  <1>4. CASE history'.twice # history.twice
    <2>1. Invoke
      BY <1>4, OnceFrames DEF OnceFrame
    <2>2. PICK site, ev : site = todo[1].site /\ ev = todo[1].ev
      OBVIOUS
    <2>3. PICK e, r : e = site[1] /\ r = runner[e]
      OBVIOUS
    <2>a. /\ todo[1].op = "invoke" /\ 1 \in DOMAIN todo
          /\ history' = history \/ CallOf(site, ev, e, r)
      BY <2>1, <2>2, <2>3, InvokeCalls
    <2>4. /\ todo[1].op = "invoke" /\ 1 \in DOMAIN todo
          /\ Present(site) /\ r # 0
          /\ history'.twice = IF \/ \E q \in DOMAIN runs[e] : <<e, q, ev.n>> \in history.handled
                                 \/ (ev.type = InitIncoding /\ <<e, r>> \in history.started)
                                 THEN history.twice \cup {<<e, ev.type>>} ELSE history.twice
      BY <1>4, <2>a DEF CallOf
    <2>5. PICK o : o = todo[1]
      OBVIOUS
    <2>6. o.site = site /\ o.ev = ev /\ IsInvoke(o) /\ Named(o) /\ (IsInit(o) <=> ev.type = InitIncoding)
      BY <2>2, <2>4, <2>5 DEF IsInvoke, Named, IsInit
    <2>7. e \in Element /\ node[e] = site[2] /\ site[2] > 0
      BY <2>3, <2>4 DEF Present
    <2>8. Twice(page, runs, e, ev.type) /\ (AttachesLate(page) => ev.type # InitIncoding)
      <3>1. ASSUME NEW q \in DOMAIN runs[e], <<e, q, ev.n>> \in history.handled
            PROVE  Twice(page, runs, e, ev.type) /\ (AttachesLate(page) => ev.type # InitIncoding)
        <4>1. PICK w : w = <<e, q, ev.n>>
          OBVIOUS
        <4>2. w[1] = e /\ w[2] = q /\ w[3] = ev.n
          BY <4>1
        <4>3. Unseen(page, runs, o, w)
          BY <2>4, <2>5, <3>1, <4>1 DEF TodoOnce, PastOK
        <4>4. /\ Twice(page, runs, e, ev.type) \/ site[2] < runs[e][q].incarnation
              /\ AttachesLate(page) => ~ IsInit(o)
          BY <2>3, <2>6, <4>2, <4>3 DEF Unseen
        <4>5. ~ (site[2] < runs[e][q].incarnation)
          <5>1. PICK m, v : m = runs[e][q].incarnation /\ v = node[e]
            OBVIOUS
          <5>2. m \in Nat /\ v \in Nat /\ v > 0 /\ (v = 0 \/ m <= v)
            BY <2>7, <3>1, <5>1 DEF NodesOK, TypeInv, AreRuns, IsRun
          <5>3. ~ (v < m)
            BY <5>2
          <5> QED
            BY <2>7, <5>1, <5>3
        <4> QED
          BY <2>6, <4>4, <4>5
      <3>2. ASSUME ev.type = InitIncoding, <<e, r>> \in history.started
            PROVE  Twice(page, runs, e, ev.type) /\ (AttachesLate(page) => ev.type # InitIncoding)
        <4>1. Ready(page, runs, node, runner, history.started, o)
          BY <2>4, <2>5 DEF TodoOnce, ReadyOK
        <4> QED
          BY <2>3, <2>4, <2>6, <2>7, <3>2, <4>1 DEF Ready
      <3> QED
        BY <1>4, <2>4, <3>1, <3>2
    <2>9. Twice(page, runs', e, ev.type)
      BY <2>7, <2>8, SitesStay
    <2>10. \A w \in history'.twice : w \in history.twice \/ w = <<e, ev.type>>
      BY <2>4
    <2>11. <<e, ev.type>>[1] = e /\ <<e, ev.type>>[2] = ev.type
      BY PairParts
    <2> QED
      BY <1>1, <1>2, <2>7, <2>8, <2>9, <2>10, <2>11 DEF TwiceOK
  <1> QED
    BY <1>3, <1>4

-------------------------------------------------------------------------------
(* What parse binds *)

\* Two strings onBind of the list name the type.
Shared(metas, type) ==
    \E i, j \in DOMAIN metas : /\ metas[i].onBind # metas[j].onBind
                               /\ type \in metas[i].onBind \cap metas[j].onBind

\* Every position of flat comes from a place of the first m sequences of ss, no two from one.
ComesFrom(ss, flat, m) ==
    \E a, b : /\ \A k \in DOMAIN flat : /\ a[k] \in 1..m /\ b[k] \in DOMAIN ss[a[k]]
                                        /\ flat[k] = ss[a[k]][b[k]]
              /\ \A k, l \in DOMAIN flat : k # l => a[k] # a[l] \/ b[k] # b[l]

\* The first sequence comes from itself.
LEMMA FirstComes ==
    ASSUME NEW ss
    PROVE  ComesFrom(ss, ss[1], 1)
  <1> DEFINE a == [k \in DOMAIN ss[1] |-> 1]
             b == [k \in DOMAIN ss[1] |-> k]
  <1>1. \A k \in DOMAIN ss[1] : a[k] = 1 /\ b[k] = k
    OBVIOUS
  <1> HIDE DEF a, b
  <1>2. \A k \in DOMAIN ss[1] : a[k] \in 1..1 /\ b[k] \in DOMAIN ss[a[k]] /\ ss[1][k] = ss[a[k]][b[k]]
    BY <1>1
  <1>3. \A k, l \in DOMAIN ss[1] : k # l => a[k] # a[l] \/ b[k] # b[l]
    BY <1>1
  <1> QED
    BY <1>2, <1>3 DEF ComesFrom

\* One more sequence at the end.
LEMMA NextComes ==
    ASSUME NEW ss, NEW m \in Nat, NEW x, IsSeq(x), ComesFrom(ss, x, m), IsSeq(ss[m + 1])
    PROVE  ComesFrom(ss, x \o ss[m + 1], m + 1)
  <1>1. PICK y, z, n : y = ss[m + 1] /\ z = x \o y /\ n = Len(x)
    OBVIOUS
  <1>2. n \in Nat /\ DOMAIN x = 1..n /\ Len(y) \in Nat /\ DOMAIN y = 1..Len(y)
    BY <1>1, IsSeqDom
  <1>3. DOMAIN z = 1..(n + Len(y)) /\ (\A i \in 1..n : z[i] = x[i]) /\ \A i \in 1..Len(y) : z[n + i] = y[i]
    <2>1. IsSeq(y)
      BY <1>1
    <2> QED
      BY <1>1, <2>1, IsSeqConcat
  <1>4. PICK a, b : /\ \A k \in DOMAIN x : a[k] \in 1..m /\ b[k] \in DOMAIN ss[a[k]] /\ x[k] = ss[a[k]][b[k]]
                    /\ \A k, l \in DOMAIN x : k # l => a[k] # a[l] \/ b[k] # b[l]
    BY DEF ComesFrom
  <1> DEFINE a2 == [k \in DOMAIN z |-> IF k \in DOMAIN x THEN a[k] ELSE m + 1]
             b2 == [k \in DOMAIN z |-> IF k \in DOMAIN x THEN b[k] ELSE k - n]
  <1>5. \A k \in DOMAIN z : /\ k \in DOMAIN x => a2[k] = a[k] /\ b2[k] = b[k]
                            /\ k \notin DOMAIN x => a2[k] = m + 1 /\ b2[k] = k - n
    OBVIOUS
  <1> HIDE DEF a2, b2
  <1>6. ASSUME NEW k \in DOMAIN z, k \notin DOMAIN x PROVE k - n \in DOMAIN y /\ z[k] = y[k - n]
    <2>1. k \in Nat /\ k - n \in 1..Len(y)
      BY <1>2, <1>3, <1>6
    <2>2. z[n + (k - n)] = y[k - n]
      BY <1>3, <2>1
    <2>3. n + (k - n) = k
      BY <2>1, <1>2
    <2> QED
      BY <1>2, <2>1, <2>2, <2>3
  <1>7. ASSUME NEW k \in DOMAIN z
        PROVE  a2[k] \in 1..(m + 1) /\ b2[k] \in DOMAIN ss[a2[k]] /\ z[k] = ss[a2[k]][b2[k]]
    <2>1. CASE k \in DOMAIN x
      <3>1. a2[k] = a[k] /\ b2[k] = b[k] /\ z[k] = x[k]
        BY <1>2, <1>3, <1>5, <2>1
      <3>2. a[k] \in 1..(m + 1)
        BY <1>4, <2>1
      <3> QED
        BY <1>4, <2>1, <3>1, <3>2
    <2>2. CASE k \notin DOMAIN x
      <3>1. a2[k] = m + 1 /\ b2[k] = k - n /\ m + 1 \in 1..(m + 1)
        BY <1>5, <2>2
      <3> QED
        BY <1>1, <1>6, <2>2, <3>1
    <2> QED
      BY <2>1, <2>2
  <1>8. ASSUME NEW k \in DOMAIN z, NEW l \in DOMAIN z, k # l PROVE a2[k] # a2[l] \/ b2[k] # b2[l]
    <2>1. CASE k \in DOMAIN x /\ l \in DOMAIN x
      BY <1>4, <1>5, <1>8, <2>1
    <2>2. CASE k \notin DOMAIN x /\ l \notin DOMAIN x
      <3>1. k \in Int /\ l \in Int /\ b2[k] = k - n /\ b2[l] = l - n
        BY <1>3, <1>5, <2>2
      <3> QED
        BY <1>2, <1>8, <3>1
    <2>3. CASE k \in DOMAIN x /\ l \notin DOMAIN x
      BY <1>4, <1>5, <2>3
    <2>4. CASE k \notin DOMAIN x /\ l \in DOMAIN x
      BY <1>4, <1>5, <2>4
    <2> QED
      BY <2>1, <2>2, <2>3, <2>4
  <1>9. ComesFrom(ss, z, m + 1)
    BY <1>7, <1>8 DEF ComesFrom
  <1> QED
    BY <1>1, <1>9

\* Every running concatenation comes from what it joins.
LEMMA FlatComes ==
    ASSUME NEW ss, IsSeq(ss), \A i \in DOMAIN ss : IsSeq(ss[i]), NEW f, Flat(ss, Len(ss), f)
    PROVE  \A i \in 1..Len(ss) : IsSeq(f[i]) /\ ComesFrom(ss, f[i], i)
  <1>1. PICK n : n = Len(ss)
    OBVIOUS
  <1>2. n \in Nat /\ DOMAIN ss = 1..n
    BY <1>1, IsSeqDom
  <1> DEFINE Bad == {m \in 1..n : ~ (IsSeq(f[m]) /\ ComesFrom(ss, f[m], m))}
  <1>3. ASSUME Bad # {} PROVE FALSE
    <2>1. Bad \in SUBSET Nat
      BY <1>2
    <2>2. PICK m \in Bad : \A u \in Bad : m <= u
      BY <2>1, <1>3, SomeIsLeast
    <2>3. f[m] = IF m = 1 THEN ss[m] ELSE f[m - 1] \o ss[m]
      BY <1>1, <2>2 DEF Flat
    <2>4. m \in 1..n /\ IsSeq(ss[m]) /\ ~ (IsSeq(f[m]) /\ ComesFrom(ss, f[m], m))
      BY <1>2, <2>2
    <2>5. CASE m = 1
      BY <2>3, <2>4, <2>5, FirstComes
    <2>6. CASE m # 1
      <3>1. m - 1 \in 1..n /\ m - 1 \in Nat /\ ~ (m <= m - 1) /\ (m - 1) + 1 = m
        BY <2>4, <2>6, <1>2
      <3>2. PICK x, p : x = f[m - 1] /\ p = m - 1
        OBVIOUS
      <3>3. IsSeq(x) /\ ComesFrom(ss, x, p)
        BY <2>2, <3>1, <3>2
      <3>4. p \in Nat /\ p + 1 = m /\ IsSeq(ss[p + 1])
        BY <2>4, <3>1, <3>2
      <3>5. ComesFrom(ss, x \o ss[p + 1], p + 1)
        BY <3>3, <3>4, NextComes
      <3>6. IsSeq(x \o ss[p + 1])
        BY <3>3, <3>4, IsSeqConcat
      <3>7. f[m] = x \o ss[p + 1]
        BY <2>3, <2>6, <3>2, <3>4
      <3> QED
        BY <2>4, <3>4, <3>5, <3>6, <3>7
    <2> QED
      BY <2>5, <2>6
  <1> QED
    BY <1>1, <1>3

\* What FlattenSeq joins comes from what it is given.
LEMMA FlattenComes ==
    ASSUME NEW ss, IsSeq(ss), \A i \in DOMAIN ss : IsSeq(ss[i])
    PROVE  ComesFrom(ss, FlattenSeq(ss), Len(ss))
  <1> DEFINE n == Len(ss)
             flatten == CHOOSE f : Flat(ss, n, f)
  <1>0. n \in Nat /\ DOMAIN ss = 1..n
    BY IsSeqDom
  <1>1. CASE n = 0
    <2>1. FlattenSeq(ss) = ss
      BY <1>1 DEF FlattenSeq
    <2>2. DOMAIN ss = {}
      BY <1>0, <1>1
    <2> QED
      BY <2>1, <2>2 DEF ComesFrom
  <1>2. CASE n # 0
    <2>1. n \in Nat /\ n > 0
      BY <1>0, <1>2
    <2>2. Flat(ss, n, flatten)
      BY <2>1, FlatExists
    <2>3. FlattenSeq(ss) = flatten[n]
      BY <1>2 DEF FlattenSeq, Flat
    <2> HIDE DEF flatten
    <2>4. \A i \in 1..n : ComesFrom(ss, flatten[i], i)
      BY <2>2, FlatComes
    <2>5. n \in 1..n
      BY <2>1
    <2> QED
      BY <2>3, <2>4, <2>5
  <1> QED
    BY <1>1, <1>2

\* SetToSeq lists each element once.
LEMMA SetToSeqOnce ==
    ASSUME NEW S, IsFiniteSet(S)
    PROVE  \A i, j \in DOMAIN SetToSeq(S) : SetToSeq(S)[i] = SetToSeq(S)[j] => i = j
  <1> DEFINE n == Cardinality(S)
  <1>1. n \in Nat /\ \E f : ExistsBijection(1..n, S)
    BY FS_CardinalityType
  <1>2. PICK f \in [1..n -> S] : IsInjective(f)
    BY <1>1 DEF ExistsBijection, Bijection, Injection, IsInjective
  <1>3. IsInjective(SetToSeq(S))
    BY <1>2 DEF SetToSeq
  <1> QED
    BY <1>3 DEF IsInjective

\* The strings onBind that are bound differ.
LEMMA FirstBindsOnce ==
    ASSUME NEW metas, IsSeq(metas), NEW first, first = FirstBinds(metas)
    PROVE  \A k, l \in DOMAIN first :
              /\ first[k] \in DOMAIN metas
              /\ k # l => metas[first[k]].onBind # metas[first[l]].onBind
  <1>1. PICK S : S = {i \in DOMAIN metas : \A j \in 1..(i - 1) : metas[j].onBind # metas[i].onBind}
    OBVIOUS
  <1>2. first = InOrder(S) /\ S \subseteq DOMAIN metas
    BY <1>1 DEF FirstBinds
  <1>3. \A k, l \in DOMAIN first : k # l => first[k] # first[l]
    BY <1>2, InOrderOnce
  <1>4. \A k \in DOMAIN first : first[k] \in S
    BY <1>2, InOrderSeq
  <1>5. DOMAIN metas = 1..Len(metas) /\ Len(metas) \in Nat
    BY IsSeqDom
  <1>6. ASSUME NEW p \in S, NEW q \in S, p # q PROVE metas[p].onBind # metas[q].onBind
    <2>1. p \in Nat /\ q \in Nat /\ p > 0 /\ q > 0
      BY <1>2, <1>5
    <2>2. p \in 1..(q - 1) \/ q \in 1..(p - 1)
      BY <1>6, <2>1
    <2> QED
      BY <1>1, <2>2
  <1>7. ASSUME NEW k \in DOMAIN first, NEW l \in DOMAIN first, k # l
        PROVE  metas[first[k]].onBind # metas[first[l]].onBind
    BY <1>3, <1>4, <1>6, <1>7
  <1> QED
    BY <1>2, <1>4, <1>7

\* What bind attaches to an element: a type twice only when two strings onBind name it, an event
\* of document only when all is canceled.
LEMMA ElementBindsOnce ==
    ASSUME NEW metas, IsSeq(metas), NEW bs, bs = ElementBinds(metas)
    PROVE  /\ IsSeq(bs)
           /\ \A i, j \in DOMAIN bs : i # j => \A t \in bs[i].events \cap bs[j].events : Shared(metas, t)
           /\ \A i \in DOMAIN bs : \A t \in bs[i].events \cap DocumentBinds :
                 bs[i].status = CancelAll /\ CancelsFrom(metas, t)
           /\ \A i \in DOMAIN bs : IsHandler(bs[i])
  <1> DEFINE Handler(i) == [events |-> metas[i].onBind \
                                          ({InitIncoding} \cup IF metas[i].onEventStatus = CancelAll
                                                                  THEN {} ELSE DocumentBinds),
                            status |-> metas[i].onEventStatus]
             first == FirstBinds(metas)
             hs == [k \in DOMAIN first |-> Handler(first[k])]
             S == {k \in DOMAIN hs : hs[k].events # {}}
             those == [k \in DOMAIN InOrder(S) |-> hs[InOrder(S)[k]]]
             init == IF HasInit(metas) THEN <<[events |-> {InitIncoding}, status |-> CancelAll]>> ELSE <<>>
  <1>1. bs = those \o init
    BY Zenon DEF ElementBinds, Those, Each
  <1>2. hs = [k \in DOMAIN first |-> hs[k]] /\ S \subseteq DOMAIN hs
        /\ those = [k \in DOMAIN InOrder(S) |-> hs[InOrder(S)[k]]]
    OBVIOUS
  <1>3. IsSeq(first)
    BY FirstBindsSeq
  <1>4. IsSeq(init) /\ \A i \in DOMAIN init : /\ i = 1 /\ IsHandler(init[i])
                                               /\ init[i].events = {InitIncoding} /\ init[i].status = CancelAll
    <2> DEFINE b == [events |-> {InitIncoding}, status |-> CancelAll]
    <2>1. b.events = {InitIncoding} /\ b.status = CancelAll /\ IsHandler(b)
      BY DEF IsHandler
    <2>2. init = IF HasInit(metas) THEN <<b>> ELSE <<>>
      OBVIOUS
    <2> HIDE DEF b, init
    <2>3. IsSeq(<<b>>) /\ \A i \in DOMAIN <<b>> : i = 1 /\ <<b>>[i] = b
      BY IsSeqTuples
    <2>4. CASE HasInit(metas)
      BY <2>1, <2>2, <2>3, <2>4
    <2>5. CASE ~ HasInit(metas)
      BY <2>2, <2>5, IsSeqEmpty
    <2> QED
      BY <2>4, <2>5
  <1>5a. \A k \in DOMAIN hs : IsHandler(hs[k])
    BY DEF IsHandler
  <1>5. \A k \in DOMAIN hs : /\ k \in DOMAIN first
                             /\ hs[k].status = metas[first[k]].onEventStatus
                             /\ \A t \in hs[k].events :
                                   /\ t \in metas[first[k]].onBind /\ t # InitIncoding
                                   /\ t \in DocumentBinds => /\ hs[k].status = CancelAll
                                                             /\ metas[first[k]].onEventStatus = CancelAll
    OBVIOUS
  <1>6. \A k, l \in DOMAIN first : /\ first[k] \in DOMAIN metas
                                   /\ k # l => metas[first[k]].onBind # metas[first[l]].onBind
    BY FirstBindsOnce
  <1> HIDE DEF hs, S, those, init, first
  <1>7. IsSeq(hs)
    BY <1>2, <1>3, Mapped
  <1>8. PartOf(hs, S, those)
    BY <1>2, <1>7, ThosePart
  <1>9. PICK at : /\ \A k \in DOMAIN those : at[k] \in S /\ those[k] = hs[at[k]]
                  /\ \A j, k \in DOMAIN those : j # k => at[j] # at[k]
    BY <1>8 DEF PartOf
  <1>10. IsSeq(those)
    BY <1>8 DEF PartOf
  <1>11. ASSUME NEW i \in DOMAIN those, NEW j \in DOMAIN those, i # j, NEW t, t \in those[i].events, t \in those[j].events
         PROVE  Shared(metas, t)
    <2>1. at[i] \in DOMAIN hs /\ at[j] \in DOMAIN hs /\ at[i] # at[j]
      BY <1>2, <1>9, <1>11
    <2>2. PICK p, q : p = first[at[i]] /\ q = first[at[j]]
      OBVIOUS
    <2>3. p \in DOMAIN metas /\ q \in DOMAIN metas /\ metas[p].onBind # metas[q].onBind
      BY <1>5, <1>6, <2>1, <2>2
    <2>4. t \in metas[p].onBind /\ t \in metas[q].onBind
      BY <1>5, <1>9, <1>11, <2>1, <2>2
    <2> QED
      BY <2>3, <2>4 DEF Shared
  <1>12. ASSUME NEW i \in DOMAIN those, NEW t \in those[i].events
         PROVE  t # InitIncoding /\ (t \in DocumentBinds => those[i].status = CancelAll /\ CancelsFrom(metas, t))
    <2>1. at[i] \in DOMAIN hs /\ those[i] = hs[at[i]]
      BY <1>2, <1>9
    <2>2. PICK k, m : k = at[i] /\ m = first[k]
      OBVIOUS
    <2>3. m \in DOMAIN metas
      BY <1>5, <1>6, <2>1, <2>2
    <2>4. /\ t \in metas[m].onBind /\ t # InitIncoding
          /\ t \in DocumentBinds => those[i].status = CancelAll /\ metas[m].onEventStatus = CancelAll
      BY <1>5, <1>12, <2>1, <2>2
    <2> QED
      BY <2>3, <2>4 DEF CancelsFrom
  <1>12a. \A i \in DOMAIN those : IsHandler(those[i])
    BY <1>2, <1>5a, <1>9
  <1>13. PICK n : n = Len(those)
    OBVIOUS
  <1>14. /\ IsSeq(bs)
         /\ \A i \in DOMAIN bs : IsHandler(bs[i])
         /\ \A i \in DOMAIN bs : \/ i \in DOMAIN those /\ bs[i] = those[i]
                                 \/ i = n + 1 /\ bs[i].events = {InitIncoding} /\ bs[i].status = CancelAll
    <2>1. /\ IsSeq(bs) /\ DOMAIN bs = 1..(n + Len(init))
          /\ \A i \in 1..n : bs[i] = those[i]
          /\ \A i \in 1..Len(init) : bs[n + i] = init[i]
      BY <1>1, <1>4, <1>10, <1>13, IsSeqConcat
    <2>2. n \in Nat /\ DOMAIN those = 1..n /\ Len(init) \in Nat /\ DOMAIN init = 1..Len(init)
      BY <1>4, <1>10, <1>13, IsSeqDom
    <2>3. ASSUME NEW i \in DOMAIN bs, i \notin DOMAIN those
          PROVE  i = n + 1 /\ bs[i].events = {InitIncoding} /\ bs[i].status = CancelAll /\ IsHandler(bs[i])
      <3>1. i \in Nat /\ i - n \in 1..Len(init) /\ n + (i - n) = i
        BY <2>1, <2>2, <2>3
      <3>2. bs[i] = init[i - n] /\ i - n \in DOMAIN init
        BY <2>1, <2>2, <3>1
      <3>3. i - n = 1
        BY <1>4, <3>2
      <3> QED
        BY <1>4, <2>2, <3>1, <3>2, <3>3
    <2> QED
      BY <1>12a, <2>1, <2>2, <2>3
  <1>15. ASSUME NEW i \in DOMAIN bs, NEW j \in DOMAIN bs, i # j, NEW t, t \in bs[i].events, t \in bs[j].events
         PROVE  Shared(metas, t)
    <2>1. CASE i \in DOMAIN those /\ bs[i] = those[i] /\ j \in DOMAIN those /\ bs[j] = those[j]
      BY <1>11, <1>15, <2>1
    <2>2. CASE i \in DOMAIN those /\ bs[i] = those[i] /\ bs[j].events = {InitIncoding}
      BY <1>12, <1>15, <2>2
    <2>3. CASE j \in DOMAIN those /\ bs[j] = those[j] /\ bs[i].events = {InitIncoding}
      BY <1>12, <1>15, <2>3
    <2>4. CASE i = n + 1 /\ j = n + 1
      BY <1>15, <2>4
    <2> QED
      BY <1>14, <2>1, <2>2, <2>3, <2>4
  <1>16. ASSUME NEW i \in DOMAIN bs, NEW t \in bs[i].events, t \in DocumentBinds
         PROVE  bs[i].status = CancelAll /\ CancelsFrom(metas, t)
    <2>1. InitIncoding \notin DocumentBinds
      BY DEF InitIncoding, DocumentBinds, ChangeUrl
    <2>2. i \in DOMAIN those /\ bs[i] = those[i]
      BY <1>14, <1>16, <2>1
    <2> QED
      BY <1>12, <1>16, <2>2
  <1> QED
    BY <1>14, <1>15, <1>16, Zenon

\* What bind attaches to document for one element: a type twice only when two strings onBind
\* name it.
LEMMA DocumentBindsOnce ==
    ASSUME NEW metas, IsSeq(metas), NEW site, NEW ds, ds = DocumentBindsOf(metas, site)
    PROVE  /\ \A k \in DOMAIN ds : ds[k].type \in DocumentBinds /\ ds[k].site = site
           /\ \A k, l \in DOMAIN ds : k # l /\ ds[k].type = ds[l].type => Shared(metas, ds[k].type)
  <1> DEFINE Of(i) == IF metas[i].onEventStatus = CancelAll THEN {} ELSE metas[i].onBind \cap DocumentBinds
             Types(i) == SetToSeq(Of(i))
             Handlers1(i) == [k \in DOMAIN Types(i) |-> [type |-> Types(i)[k], site |-> site]]
             first == FirstBinds(metas)
             ss == [k \in DOMAIN first |-> Handlers1(first[k])]
  <1>1. ds = FlattenSeq(ss)
    BY DEF DocumentBindsOf, Each
  <1>2. ASSUME NEW i
        PROVE  /\ IsSeq(Handlers1(i))
               /\ \A k \in DOMAIN Handlers1(i) : /\ Handlers1(i)[k].type \in metas[i].onBind \cap DocumentBinds
                                                 /\ Handlers1(i)[k].site = site
               /\ \A k, l \in DOMAIN Handlers1(i) : Handlers1(i)[k].type = Handlers1(i)[l].type => k = l
    <2>1. Of(i) \subseteq DocumentBinds /\ Of(i) \subseteq metas[i].onBind
      OBVIOUS
    <2>2. IsFiniteSet(Of(i))
      BY <2>1, DocumentBindsFinite, FS_Subset
    <2>3. Handlers1(i) = [k \in DOMAIN Types(i) |-> Handlers1(i)[k]]
      OBVIOUS
    <2>4. IsSeq(Types(i)) /\ \A k \in DOMAIN Types(i) : Types(i)[k] \in Of(i)
      BY <2>2, SetToSeqSeq
    <2>5. \A k, l \in DOMAIN Types(i) : Types(i)[k] = Types(i)[l] => k = l
      BY <2>2, SetToSeqOnce
    <2>6. \A k \in DOMAIN Handlers1(i) : k \in DOMAIN Types(i) /\ Handlers1(i)[k].type = Types(i)[k] /\ Handlers1(i)[k].site = site
      OBVIOUS
    <2> HIDE DEF Handlers1, Types, Of
    <2>7. IsSeq(Handlers1(i))
      BY <2>3, <2>4, Mapped
    <2> QED
      BY <2>1, <2>4, <2>5, <2>6, <2>7
  <1>3. ss = [k \in DOMAIN first |-> ss[k]] /\ \A k \in DOMAIN ss : k \in DOMAIN first /\ ss[k] = Handlers1(first[k])
    OBVIOUS
  <1>4. IsSeq(first)
    BY FirstBindsSeq
  <1>5. \A k, l \in DOMAIN first : /\ first[k] \in DOMAIN metas
                                   /\ k # l => metas[first[k]].onBind # metas[first[l]].onBind
    BY FirstBindsOnce
  <1> HIDE DEF ss, first, Handlers1
  <1>6. IsSeq(ss)
    BY <1>3, <1>4, Mapped
  <1>7. \A k \in DOMAIN ss : IsSeq(ss[k])
    BY <1>2, <1>3
  <1>8. ComesFrom(ss, ds, Len(ss))
    BY <1>1, <1>6, <1>7, FlattenComes
  <1>9. DOMAIN ss = 1..Len(ss)
    BY <1>6, IsSeqDom
  <1>10. PICK a, b : /\ \A k \in DOMAIN ds : a[k] \in DOMAIN ss /\ b[k] \in DOMAIN ss[a[k]] /\ ds[k] = ss[a[k]][b[k]]
                     /\ \A k, l \in DOMAIN ds : k # l => a[k] # a[l] \/ b[k] # b[l]
    BY <1>8, <1>9 DEF ComesFrom
  <1>11. ASSUME NEW k \in DOMAIN ds
         PROVE  /\ a[k] \in DOMAIN first
                /\ b[k] \in DOMAIN Handlers1(first[a[k]]) /\ ds[k] = Handlers1(first[a[k]])[b[k]]
                /\ ds[k].type \in metas[first[a[k]]].onBind /\ ds[k].type \in DocumentBinds /\ ds[k].site = site
    BY <1>2, <1>3, <1>10
  <1>12. ASSUME NEW k \in DOMAIN ds, NEW l \in DOMAIN ds, k # l, ds[k].type = ds[l].type
         PROVE  Shared(metas, ds[k].type)
    <2>1. CASE a[k] = a[l]
      <3>1. b[k] # b[l]
        BY <1>10, <1>12, <2>1
      <3> QED
        BY <1>2, <1>11, <1>12, <2>1, <3>1
    <2>2. CASE a[k] # a[l]
      <3>1. PICK p, q : p = first[a[k]] /\ q = first[a[l]]
        OBVIOUS
      <3>2. p \in DOMAIN metas /\ q \in DOMAIN metas /\ metas[p].onBind # metas[q].onBind
        BY <1>5, <1>11, <2>2, <3>1
      <3>3. ds[k].type \in metas[p].onBind /\ ds[k].type \in metas[q].onBind
        BY <1>11, <1>12, <3>1
      <3> QED
        BY <3>2, <3>3 DEF Shared
    <2> QED
      BY <2>1, <2>2
  <1> QED
    BY <1>11, <1>12

\* An element that is parsed is parsed once.
LEMMA UnparsedOnce ==
    ASSUME page \in Page, NEW context, NEW es, es = Unparsed(context)
    PROVE  \A k, l \in DOMAIN es : k # l => es[k] # es[l]
  <1> DEFINE S == {i \in DOMAIN page.order :
                      /\ node[page.order[i]] > 0 /\ attr[page.order[i]] # ""
                      /\ \/ context = "document" \/ page.order[i] = context \/ page.order[i] \in Inside(context)}
  <1>1. es = [k \in DOMAIN InOrder(S) |-> page.order[InOrder(S)[k]]] /\ S \subseteq DOMAIN page.order
    BY DEF Unparsed, Those
  <1> HIDE DEF S
  <1>2. IsSeq(page.order) /\ \A i, j \in DOMAIN page.order : page.order[i] = page.order[j] => i = j
    BY PageAssumption, IsSeqDef DEF IsPage
  <1>3. PICK s : s = page.order
    OBVIOUS
  <1>4. PartOf(s, S, es)
    <2>1. IsSeq(s) /\ S \subseteq DOMAIN s /\ es = [k \in DOMAIN InOrder(S) |-> s[InOrder(S)[k]]]
      BY <1>1, <1>2, <1>3
    <2> QED
      BY <2>1, ThosePart
  <1> QED
    BY <1>1, <1>2, <1>3, <1>4 DEF PartOf

\* What is unparsed is what the context covers, all of it.
LEMMA UnparsedAll ==
    ASSUME page \in Page, NEW context, NEW e \in Element, node[e] > 0, attr[e] # "",
           context = "document" \/ e = context \/ e \in Inside(context)
    PROVE  e \in ToSet(Unparsed(context))
  <1> DEFINE S == {i \in DOMAIN page.order :
                      /\ node[page.order[i]] > 0 /\ attr[page.order[i]] # ""
                      /\ \/ context = "document" \/ page.order[i] = context \/ page.order[i] \in Inside(context)}
  <1>1. PICK i \in DOMAIN page.order : page.order[i] = e
    BY PageAssumption DEF IsPage
  <1>2. i \in S
    BY <1>1
  <1>3. PICK s, es : s = page.order /\ es = Unparsed(context)
    OBVIOUS
  <1>4. es = [k \in DOMAIN InOrder(S) |-> s[InOrder(S)[k]]] /\ S \subseteq DOMAIN s
    BY <1>3 DEF Unparsed, Those
  <1> HIDE DEF S
  <1>5. IsSeq(s)
    BY <1>3, PageAssumption, IsSeqDef DEF IsPage
  <1>6. \E k \in DOMAIN es : es[k] = s[i]
    <2>1. PartOf(s, S, es)
      BY <1>4, <1>5, ThosePart
    <2>2. PICK at : /\ \A k \in DOMAIN es : at[k] \in S /\ es[k] = s[at[k]]
                    /\ \A p \in S : \E k \in DOMAIN es : at[k] = p
      BY <2>1 DEF PartOf
    <2>3. PICK k \in DOMAIN es : at[k] = i
      BY <1>2, <2>2
    <2>4. es[k] = s[i]
      BY <2>2, <2>3
    <2> QED
      BY <2>4
  <1> QED
    BY <1>1, <1>3, <1>6 DEF ToSet

-------------------------------------------------------------------------------
(* Each type has one handler, unless it is bound twice *)

\* BindsOnce, of one element and its handlers.
OneOnce(pg, rs, e, k, bs) ==
    /\ \A i, j \in DOMAIN bs : i # j => \A t \in bs[i].events \cap bs[j].events : Twice(pg, rs, e, t)
    /\ DOMAIN bs # {} => Made(rs, <<e, k>>)
    /\ \A i \in DOMAIN bs : \A t \in bs[i].events \cap DocumentBinds : Canceled(pg, bs[i], t)
    /\ \A i \in DOMAIN bs : IsHandler(bs[i])

\* A sequence without positions is the empty one.
LEMMA NoElements ==
    ASSUME NEW s, IsSeq(s), DOMAIN s = {}
    PROVE  s = <<>>
  <1>1. Len(s) \in Nat /\ 1..Len(s) = {} /\ s = [i \in 1..Len(s) |-> s[i]]
    BY IsSeqDom
  <1>2. Len(s) = 0
    BY <1>1
  <1>3. \E S : s \in Seq(S)
    BY DEF IsSeq
  <1> QED
    BY <1>2, <1>3

\* BindsOnce is that of every element.
LEMMA OneByOne ==
    ASSUME BindsOK
    PROVE  BindsOnce <=> \A e \in Element : OneOnce(page, runs, e, node[e], binds[e])
  <1>1. ASSUME NEW e \in Element PROVE binds[e] # <<>> <=> DOMAIN binds[e] # {}
    <2>1. PICK s : s = binds[e] /\ IsSeq(s)
      BY DEF BindsOK
    <2>2. DOMAIN s = {} => s = <<>>
      BY <2>1, NoElements
    <2>3. s = <<>> => DOMAIN s = {}
      BY IsSeqEmpty
    <2> QED
      BY <2>1, <2>2, <2>3
  <1> QED
    BY <1>1 DEF BindsOnce, OneOnce

\* The handlers of an element that keeps its incarnation.
LEMMA OneStays ==
    ASSUME DomMoves, NEW e \in Element, NEW k, NEW bs, OneOnce(page, runs, e, k, bs)
    PROVE  OneOnce(page, runs', e, k, bs)
  <1>1. PICK s : s = <<e, k>>
    OBVIOUS
  <1>2. DOMAIN bs # {} => Made(runs', s)
    BY <1>1, SitesStay DEF OneOnce
  <1>3. \A t : Twice(page, runs, e, t) => Twice(page, runs', e, t)
    BY SitesStay
  <1>4. \A i, j \in DOMAIN bs : i # j => \A t \in bs[i].events \cap bs[j].events : Twice(page, runs', e, t)
    BY <1>3 DEF OneOnce
  <1>5. \A i \in DOMAIN bs : /\ \A t \in bs[i].events \cap DocumentBinds : Canceled(page, bs[i], t)
                             /\ IsHandler(bs[i])
    BY DEF OneOnce
  <1> QED
    BY <1>1, <1>2, <1>4, <1>5 DEF OneOnce

\* Handlers that are left, of fewer events.
LEMMA OneLeft ==
    ASSUME NEW rs, NEW e, NEW k, NEW bs, OneOnce(page, rs, e, k, bs),
           NEW ls, DOMAIN ls = DOMAIN bs,
           \A i \in DOMAIN bs : ls[i].events \subseteq bs[i].events /\ ls[i].status = bs[i].status /\ IsHandler(ls[i]),
           NEW S, S \subseteq DOMAIN ls, NEW those, PartOf(ls, S, those)
    PROVE  OneOnce(page, rs, e, k, those)
  <1>1. PICK at : /\ \A i \in DOMAIN those : at[i] \in S /\ those[i] = ls[at[i]]
                  /\ \A i, j \in DOMAIN those : i # j => at[i] # at[j]
    BY DEF PartOf
  <1>2. \A i \in DOMAIN those : /\ at[i] \in DOMAIN bs
                                /\ those[i].events \subseteq bs[at[i]].events
                                /\ those[i].status = bs[at[i]].status
                                /\ IsHandler(those[i])
    BY <1>1
  <1>3. ASSUME NEW i \in DOMAIN those, NEW j \in DOMAIN those, i # j, NEW t, t \in those[i].events, t \in those[j].events
        PROVE  Twice(page, rs, e, t)
    <2>1. at[i] \in DOMAIN bs /\ at[j] \in DOMAIN bs /\ at[i] # at[j]
      BY <1>1, <1>2, <1>3
    <2>2. t \in bs[at[i]].events \cap bs[at[j]].events
      BY <1>2, <1>3
    <2> QED
      BY <2>1, <2>2 DEF OneOnce
  <1>4. DOMAIN those # {} => Made(rs, <<e, k>>)
    <2>1. DOMAIN those # {} => DOMAIN bs # {}
      BY <1>2
    <2> QED
      BY <2>1 DEF OneOnce
  <1>5. ASSUME NEW i \in DOMAIN those, NEW t \in those[i].events, t \in DocumentBinds
        PROVE  Canceled(page, those[i], t)
    <2>1. at[i] \in DOMAIN bs /\ t \in bs[at[i]].events \cap DocumentBinds
      BY <1>2, <1>5
    <2>2. Canceled(page, bs[at[i]], t)
      BY <2>1 DEF OneOnce
    <2> QED
      BY <1>2, <2>2 DEF Canceled
  <1> QED
    BY <1>2, <1>3, <1>4, <1>5 DEF OneOnce

\* Detach leaves the other handlers.
LEMMA DetachOnce ==
    ASSUME TypeInv, BindsOnce, DomMoves, Next, Detach
    PROVE  \A e \in Element : OneOnce(page, runs', e, node[e], binds'[e])
  <1> DEFINE m == Meta(todo[1].x)
             t == m.target
             Left2(b) == [b EXCEPT !.events = IF m.arg = "" THEN {} ELSE @ \ {m.arg}]
             ls == [k \in DOMAIN binds[t] |-> Left2(binds[t][k])]
             S == {k \in DOMAIN ls : ls[k].events # {}}
             those == [k \in DOMAIN InOrder(S) |-> ls[InOrder(S)[k]]]
  <1>1. binds' = [binds EXCEPT ![t] = those]
    BY ZenonT(30) DEF Detach, Those, Each
  <1>2. ls = [k \in DOMAIN binds[t] |-> ls[k]] /\ S \subseteq DOMAIN ls
        /\ those = [k \in DOMAIN InOrder(S) |-> ls[InOrder(S)[k]]]
    BY ZenonT(30)
  <1>3. \A k \in DOMAIN binds[t] : ls[k] = Left2(binds[t][k])
    BY Zenon
  <1> HIDE DEF those, S, ls
  <1>4. binds = [e \in Element |-> binds[e]] /\ \A e \in Element : IsSeq(binds[e])
    BY DEF TypeInv, BindsOK
  <1>5. \A e \in Element : OneOnce(page, runs', e, node[e], binds[e])
    <2>1. \A e \in Element : OneOnce(page, runs, e, node[e], binds[e])
      BY OneByOne DEF TypeInv
    <2> QED
      BY <2>1, OneStays
  <1>6. ASSUME t \in Element PROVE OneOnce(page, runs', t, node[t], those)
    <2>1. PICK bs : bs = binds[t]
      OBVIOUS
    <2>2. PICK k : k = node[t]
      OBVIOUS
    <2>3. OneOnce(page, runs', t, k, bs)
      BY <1>5, <1>6, <2>1, <2>2, Zenon
    <2>4. IsSeq(bs) /\ \A i \in DOMAIN bs : ls[i] = Left2(bs[i])
      BY <1>3, <1>4, <1>6, <2>1, ZenonT(30)
    <2>5. IsSeq(ls) /\ DOMAIN ls = DOMAIN bs
      BY <1>2, <2>1, <2>4, Mapped, ZenonT(30)
    <2>6. PartOf(ls, S, those)
      BY <1>2, <2>5, ThosePart
    <2>7. \A i \in DOMAIN bs : IsHandler(bs[i])
      BY <2>3 DEF OneOnce
    <2>8. ASSUME NEW i \in DOMAIN bs
          PROVE  ls[i].events \subseteq bs[i].events /\ ls[i].status = bs[i].status /\ IsHandler(ls[i])
      <3>1. PICK b : b = bs[i]
        OBVIOUS
      <3>2. b = [events |-> b.events, status |-> b.status] /\ ls[i] = Left2(b)
        BY <2>4, <2>7, <3>1 DEF IsHandler
      <3>3. Left2(b).events \subseteq b.events /\ Left2(b).status = b.status /\ IsHandler(Left2(b))
        BY <3>2, ZenonT(30) DEF IsHandler
      <3> QED
        BY <3>1, <3>2, <3>3
    <2>9. OneOnce(page, runs', t, k, those)
      BY <1>2, <2>3, <2>5, <2>6, <2>8, OneLeft, Zenon
    <2> QED
      BY <2>2, <2>9
  <1>7. ASSUME NEW e \in Element PROVE binds'[e] = IF e = t THEN those ELSE binds[e]
    BY <1>1, <1>4, Zenon
  <1> QED
    BY <1>5, <1>6, <1>7, Zenon


\* What a run that parse made names twice is bound twice.
LEMMA SharedTwice ==
    ASSUME NEW rs, NEW e, NEW r \in DOMAIN rs[e], NEW metas, metas = page.metas[rs[e][r].name], NEW t, Shared(metas, t)
    PROVE  Twice(page, rs, e, t)
  BY Zenon DEF Shared, Twice

\* Each position of all is one of old, or one of new, n positions later.
Halves(old, new, n, all) ==
    \A i \in DOMAIN all : \/ i \in DOMAIN old /\ all[i] = old[i]
                          \/ i - n \in DOMAIN new /\ i \in Int /\ all[i] = new[i - n]

\* The two parts of a concatenation.
LEMMA HalvesOf ==
    ASSUME NEW old, NEW new, IsSeq(old), IsSeq(new)
    PROVE  Len(old) \in Nat /\ Halves(old, new, Len(old), old \o new)
  <1>1. PICK n, all : n = Len(old) /\ all = old \o new
    OBVIOUS
  <1>2. /\ DOMAIN all = 1..(n + Len(new))
        /\ \A i \in 1..n : all[i] = old[i]
        /\ \A i \in 1..Len(new) : all[n + i] = new[i]
    BY <1>1, IsSeqConcat
  <1>3. n \in Nat /\ DOMAIN old = 1..n /\ Len(new) \in Nat /\ DOMAIN new = 1..Len(new)
    BY <1>1, IsSeqDom
  <1>4. ASSUME NEW i \in DOMAIN all, i \notin DOMAIN old
        PROVE  i - n \in DOMAIN new /\ i \in Int /\ all[i] = new[i - n]
    <2>1. i \in Nat /\ i - n \in 1..Len(new) /\ n + (i - n) = i
      BY <1>2, <1>3, <1>4
    <2> QED
      BY <1>2, <1>3, <2>1
  <1>5. Halves(old, new, n, all)
    BY <1>2, <1>3, <1>4 DEF Halves
  <1> QED
    BY <1>1, <1>3, <1>5

\* Handlers that are added for a run that names a type twice only when it is bound twice.
LEMMA OneMore ==
    ASSUME NEW rs, NEW e, NEW k, NEW old, OneOnce(page, rs, e, k, old), Made(rs, <<e, k>>), NEW n \in Nat,
           NEW new, NEW all, Halves(old, new, n, all),
           \A i, j \in DOMAIN new : i # j => \A t \in new[i].events \cap new[j].events : Twice(page, rs, e, t),
           \A i \in DOMAIN new : \A t \in new[i].events \cap DocumentBinds : Canceled(page, new[i], t),
           \A i \in DOMAIN new : IsHandler(new[i]),
           DOMAIN old # {} => \A t : Twice(page, rs, e, t)
    PROVE  OneOnce(page, rs, e, k, all)
  <1>1. ASSUME NEW i \in DOMAIN all, NEW j \in DOMAIN all, i # j, NEW t, t \in all[i].events, t \in all[j].events
        PROVE  Twice(page, rs, e, t)
    <2>1. CASE DOMAIN old # {}
      BY <2>1
    <2>2. CASE DOMAIN old = {}
      <3>1. /\ i - n \in DOMAIN new /\ i \in Int /\ all[i] = new[i - n]
            /\ j - n \in DOMAIN new /\ j \in Int /\ all[j] = new[j - n]
        BY <2>2 DEF Halves
      <3>2. i - n # j - n
        BY <1>1, <3>1
      <3>3. PICK p, q : p = i - n /\ q = j - n
        OBVIOUS
      <3>4. p \in DOMAIN new /\ q \in DOMAIN new /\ p # q /\ t \in new[p].events \cap new[q].events
        BY <1>1, <3>1, <3>2, <3>3
      <3> QED
        BY <3>4
    <2> QED
      BY <2>1, <2>2
  <1>2. ASSUME NEW i \in DOMAIN all
        PROVE  IsHandler(all[i]) /\ \A t \in all[i].events \cap DocumentBinds : Canceled(page, all[i], t)
    <2>1. CASE i \in DOMAIN old /\ all[i] = old[i]
      BY <2>1 DEF OneOnce
    <2>2. CASE i - n \in DOMAIN new /\ all[i] = new[i - n]
      BY <2>2, Zenon
    <2> QED
      BY <2>1, <2>2 DEF Halves
  <1> QED
    BY <1>1, <1>2 DEF OneOnce

\* A run beside one of the same incarnation binds everything twice.
LEMMA SecondRun ==
    ASSUME DomMoves, NEW e \in Element, NEW r, r \in DOMAIN runs'[e], r \notin DOMAIN runs[e],
           NEW s, s[1] = e, Made(runs, s), runs'[e][r].incarnation = s[2]
    PROVE  \A t : Twice(page, runs', e, t)
  <1>1. PICK q \in DOMAIN runs[e] : runs[e][q].incarnation = s[2]
    BY DEF Made
  <1>2. q \in DOMAIN runs'[e] /\ runs'[e][q].incarnation = s[2] /\ q # r
    BY <1>1 DEF DomMoves, Grown
  <1> QED
    BY <1>2 DEF Twice

\* What parse makes of an element it finds.
LEMMA ParseMakes ==
    ASSUME TypeInv, ParseContext, NEW e, e \in ToSet(Unparsed(todo[1].context)), NEW r, r = Len(runs[e]) + 1
    PROVE  /\ e \in Element /\ attr[e] # "" /\ node[e] > 0
           /\ attr[e] \in DOMAIN page.metas /\ IsSeq(page.metas[attr[e]])
           /\ r \in DOMAIN runs'[e] /\ r \notin DOMAIN runs[e]
           /\ runs'[e][r].incarnation = node[e] /\ runs'[e][r].name = attr[e]
           /\ runner'[e] = r /\ attr'[e] = ""
  <1> DEFINE S == ToSet(Unparsed(todo[1].context))
  <1>1. e \in Element /\ attr[e] # "" /\ node[e] > 0
    BY UnparsedSeq DEF TypeInv, ToSet
  <1>2. attr[e] \in DOMAIN page.metas
    BY <1>1 DEF TypeInv, DomOK
  <1>3. IsSeq(page.metas[attr[e]])
    BY <1>2, PageFacts DEF TypeInv
  <1>4. Parsed(runs, runs', S)
    BY ParseRuns, ZenonT(30) DEF TypeInv
  <1>5. /\ runner' = [d \in Element |-> IF d \in S THEN Len(runs[d]) + 1 ELSE runner[d]]
        /\ attr' = [d \in Element |-> IF d \in S THEN "" ELSE attr[d]]
    BY DEF ParseContext
  <1>6. e \in S
    OBVIOUS
  <1> HIDE DEF S
  <1>7. runner'[e] = r /\ attr'[e] = ""
    BY <1>1, <1>5, <1>6
  <1>8. Len(runs[e]) \in Nat /\ DOMAIN runs[e] = 1..Len(runs[e])
    BY <1>1, IsSeqDom DEF TypeInv, AreRuns
  <1>9. r \notin DOMAIN runs[e]
    BY <1>8
  <1>10. r \in DOMAIN runs'[e] /\ runs'[e][r].incarnation = node[e] /\ runs'[e][r].name = attr[e]
    BY <1>1, <1>4, <1>6 DEF Parsed
  <1> QED
    BY <1>1, <1>2, <1>3, <1>7, <1>9, <1>10

\* parse binds each type once, unless it is bound twice.
LEMMA ParseOnce ==
    ASSUME TypeInv, BindsOnce, DomMoves, Next, ParseContext
    PROVE  \A e \in Element : OneOnce(page, runs', e, node[e], binds'[e])
  <1> DEFINE S == ToSet(Unparsed(todo[1].context))
             MetasNamed(e) == page.metas[attr[e]]
  <1>1. binds' = [e \in Element |-> IF e \in S THEN binds[e] \o ElementBinds(MetasNamed(e)) ELSE binds[e]]
    BY DEF ParseContext
  <1>2. ASSUME NEW e \in S, NEW r, r = Len(runs[e]) + 1
        PROVE  /\ e \in Element /\ IsSeq(MetasNamed(e))
               /\ r \in DOMAIN runs'[e] /\ r \notin DOMAIN runs[e]
               /\ runs'[e][r].incarnation = node[e] /\ page.metas[runs'[e][r].name] = MetasNamed(e)
               /\ \E name \in DOMAIN page.metas : page.metas[name] = MetasNamed(e)
    <2>1. /\ e \in Element /\ IsSeq(page.metas[attr[e]]) /\ attr[e] \in DOMAIN page.metas
          /\ r \in DOMAIN runs'[e] /\ r \notin DOMAIN runs[e]
          /\ runs'[e][r].incarnation = node[e] /\ runs'[e][r].name = attr[e]
      <3>1. e \in ToSet(Unparsed(todo[1].context)) /\ r = Len(runs[e]) + 1
        BY <1>2
      <3> HIDE DEF S
      <3> QED
        BY <3>1, ParseMakes
    <2> QED
      BY <2>1
  <1> HIDE DEF S, MetasNamed
  <1>3. \A e \in Element : OneOnce(page, runs, e, node[e], binds[e])
    BY OneByOne DEF TypeInv
  <1>4. \A e \in Element : OneOnce(page, runs', e, node[e], binds[e])
    BY <1>3, OneStays
  <1>5. ASSUME NEW e \in S PROVE OneOnce(page, runs', e, node[e], binds'[e])
    <2>1. PICK r, metas, s, old, new, k :
             /\ r = Len(runs[e]) + 1 /\ metas = MetasNamed(e) /\ k = node[e] /\ s = <<e, k>>
             /\ old = binds[e] /\ new = ElementBinds(metas)
      OBVIOUS
    <2>2. /\ e \in Element /\ IsSeq(metas)
          /\ r \in DOMAIN runs'[e] /\ r \notin DOMAIN runs[e]
          /\ runs'[e][r].incarnation = k /\ page.metas[runs'[e][r].name] = metas
      BY <1>2, <2>1
    <2>3. s[1] = e /\ s[2] = k
      BY <2>1
    <2>4. IsSeq(old)
      BY <2>1, <2>2 DEF TypeInv, BindsOK
    <2>5. /\ IsSeq(new)
          /\ \A i, j \in DOMAIN new : i # j => \A t \in new[i].events \cap new[j].events : Shared(metas, t)
          /\ \A i \in DOMAIN new : \A t \in new[i].events \cap DocumentBinds :
                new[i].status = CancelAll /\ CancelsFrom(metas, t)
          /\ \A i \in DOMAIN new : IsHandler(new[i])
      BY <2>1, <2>2, ElementBindsOnce
    <2>15. \A i \in DOMAIN new : \A t \in new[i].events \cap DocumentBinds : Canceled(page, new[i], t)
      <3>1. \E name \in DOMAIN page.metas : page.metas[name] = metas
        BY <1>2, <2>1
      <3> QED
        BY <2>5, <3>1 DEF Canceled
    <2>6. \A t : Shared(metas, t) => Twice(page, runs', e, t)
      BY <2>2, SharedTwice
    <2>7. OneOnce(page, runs, e, k, old) /\ OneOnce(page, runs', e, k, old)
      BY <1>3, <1>4, <2>1, <2>2
    <2>8. DOMAIN old # {} => \A t : Twice(page, runs', e, t)
      <3>1. ASSUME DOMAIN old # {} PROVE \A t : Twice(page, runs', e, t)
        <4>1. Made(runs, s)
          BY <2>1, <2>7, <3>1 DEF OneOnce
        <4> QED
          BY <2>2, <2>3, <4>1, SecondRun
      <3> QED
        BY <3>1
    <2>9. Made(runs', <<e, k>>)
      <3>1. Made(runs', s)
        BY <2>2, <2>3 DEF Made
      <3> QED
        BY <2>1, <3>1
    <2>10. PICK n, all : n \in Nat /\ Halves(old, new, n, all) /\ all = old \o new
      BY <2>4, <2>5, HalvesOf
    <2>11. binds'[e] = all
      BY <1>1, <2>1, <2>2, <2>10
    <2>12. \A i, j \in DOMAIN new : i # j => \A t \in new[i].events \cap new[j].events : Twice(page, runs', e, t)
      BY <2>5, <2>6
    <2>13. n \in Nat /\ Halves(old, new, n, all)
      BY <2>10
    <2>14. OneOnce(page, runs', e, k, all)
      BY <2>5, <2>15, <2>7, <2>8, <2>9, <2>12, <2>13, OneMore
    <2> QED
      BY <2>1, <2>11, <2>14
  <1>6. ASSUME NEW e \in Element, e \notin S PROVE OneOnce(page, runs', e, node[e], binds'[e])
    BY <1>1, <1>4, <1>6
  <1> QED
    BY <1>5, <1>6, Zenon

\* Every step keeps BindsOnce.
LEMMA BindsOnceStep ==
    ASSUME TypeInv, BindsOnce, DomMoves, Next
    PROVE  BindsOnce'
  <1>1. BindsOK'
    BY BindsStep
  <1>2. \A e \in Element : OneOnce(page, runs', e, node[e], binds[e])
    <2>1. \A e \in Element : OneOnce(page, runs, e, node[e], binds[e])
      BY OneByOne DEF TypeInv
    <2> QED
      BY <2>1, OneStays
  <1>3. page' = page
    BY DEF DomMoves
  <1>4. \A e \in Element : OneOnce(page, runs', e, node'[e], binds'[e])
    <2>1. CASE ParseContext
      <3>1. node' = node
        BY <2>1 DEF ParseContext
      <3> QED
        BY <2>1, <3>1, ParseOnce, Zenon
    <2>2. CASE Insert
      <3>1. \A e \in Element : (node'[e] = node[e] /\ binds'[e] = binds[e]) \/ binds'[e] = <<>>
        BY <2>2, InsertMoves
      <3>2. \A e, k : OneOnce(page, runs', e, k, <<>>)
        BY IsSeqEmpty DEF OneOnce
      <3> QED
        BY <1>2, <3>1, <3>2
    <2>3. CASE Attach
      <3>1. node' = node /\ binds' = binds
        BY <2>3 DEF Attach
      <3> QED
        BY <1>2, <3>1
    <2>4. CASE Detach
      <3>1. node' = node
        BY <2>4 DEF Detach
      <3> QED
        BY <2>4, <3>1, DetachOnce
    <2>5. CASE UNCHANGED <<node, attr, runner, binds, docBinds>>
      BY <1>2, <2>5
    <2> QED
      BY <2>1, <2>2, <2>3, <2>4, <2>5, Frames DEF Frame
  <1>5. BindsOnce' <=> (\A e \in Element : OneOnce(page, runs, e, node[e], binds[e]))'
    BY <1>1, OneByOne, PTL
  <1>6. (\A e \in Element : OneOnce(page, runs, e, node[e], binds[e]))'
    BY <1>3, <1>4
  <1> QED
    BY <1>5, <1>6

\* What parse adds to document.
DocumentHandlers(es) ==
    FlattenSeq([k \in DOMAIN es |-> DocumentBindsOf(page.metas[attr[es[k]]], <<es[k], node[es[k]]>>)])

\* It is handlers of the elements it finds, a type twice for one of them
\* only when two strings onBind name it.
LEMMA ParseDocuments ==
    ASSUME TypeInv, NEW es, es = Unparsed(todo[1].context), NEW new,
           new = DocumentHandlers(es)
    PROVE  /\ IsSeq(new)
           /\ \A k \in DOMAIN new : /\ new[k].site[1] \in ToSet(es)
                                    /\ new[k].site[2] = node[new[k].site[1]]
                                    /\ new[k].type \in DocumentBinds
           /\ \A k, l \in DOMAIN new :
                 k # l /\ new[k].type = new[l].type /\ new[k].site[1] = new[l].site[1]
                    => Shared(page.metas[attr[new[k].site[1]]], new[k].type)
  <1> DEFINE MetasNamed(e) == page.metas[attr[e]]
             Site(e) == <<e, node[e]>>
             added == [k \in DOMAIN es |-> DocumentBindsOf(MetasNamed(es[k]), Site(es[k]))]
  <1>1. IsSeq(es) /\ \A k \in DOMAIN es : es[k] \in Element /\ attr[es[k]] # ""
    BY UnparsedSeq DEF TypeInv
  <1>2. \A k, l \in DOMAIN es : k # l => es[k] # es[l]
    BY UnparsedOnce DEF TypeInv
  <1>3. \A e \in Element : attr[e] # "" => IsSeq(MetasNamed(e))
    BY PageFacts DEF TypeInv, DomOK
  <1>4. added = [k \in DOMAIN es |-> added[k]]
        /\ \A k \in DOMAIN added : k \in DOMAIN es /\ added[k] = DocumentBindsOf(MetasNamed(es[k]), Site(es[k]))
    OBVIOUS
  <1>5. new = FlattenSeq(added)
    BY DEF DocumentHandlers
  <1>6. \A e : Site(e)[1] = e /\ Site(e)[2] = node[e]
    OBVIOUS
  <1>7. \A k \in DOMAIN es : es[k] \in ToSet(es)
    BY DEF ToSet
  <1> HIDE DEF MetasNamed, added, Site
  <1>8. IsSeq(added)
    BY <1>1, <1>4, Mapped
  <1>9. ASSUME NEW k \in DOMAIN added
        PROVE  /\ IsSeq(added[k])
               /\ \A i \in DOMAIN added[k] : added[k][i].type \in DocumentBinds /\ added[k][i].site = Site(es[k])
               /\ \A i, j \in DOMAIN added[k] : i # j /\ added[k][i].type = added[k][j].type
                     => Shared(MetasNamed(es[k]), added[k][i].type)
    <2>1. PICK metas, site, ds : metas = MetasNamed(es[k]) /\ site = Site(es[k]) /\ ds = added[k]
      OBVIOUS
    <2>2. IsSeq(metas) /\ ds = DocumentBindsOf(metas, site)
      BY <1>1, <1>3, <1>4, <2>1
    <2>3. IsSeq(ds)
      BY <2>2, DocumentBindsOfSeq
    <2>4. /\ \A i \in DOMAIN ds : ds[i].type \in DocumentBinds /\ ds[i].site = site
          /\ \A i, j \in DOMAIN ds : i # j /\ ds[i].type = ds[j].type => Shared(metas, ds[i].type)
      BY <2>2, DocumentBindsOnce
    <2> QED
      BY <2>1, <2>3, <2>4
  <1>10. IsSeq(new)
    BY <1>5, <1>8, <1>9, IsSeqFlatten
  <1>a. PICK n : n = Len(added)
    OBVIOUS
  <1>11. ComesFrom(added, new, n) /\ DOMAIN added = 1..n
    BY <1>5, <1>8, <1>9, <1>a, FlattenComes, IsSeqDom
  <1>b. PICK a, b : /\ \A k \in DOMAIN new : a[k] \in 1..n /\ b[k] \in DOMAIN added[a[k]] /\ new[k] = added[a[k]][b[k]]
                    /\ \A k, l \in DOMAIN new : k # l => a[k] # a[l] \/ b[k] # b[l]
    BY <1>11, Zenon DEF ComesFrom
  <1>12. /\ \A k \in DOMAIN new : a[k] \in DOMAIN added /\ b[k] \in DOMAIN added[a[k]] /\ new[k] = added[a[k]][b[k]]
         /\ \A k, l \in DOMAIN new : k # l => a[k] # a[l] \/ b[k] # b[l]
    BY <1>11, <1>b
  <1>13. ASSUME NEW k \in DOMAIN new
         PROVE  /\ a[k] \in DOMAIN es /\ new[k].site[1] = es[a[k]]
                /\ new[k].site[2] = node[es[a[k]]] /\ new[k].type \in DocumentBinds
    <2>1. a[k] \in DOMAIN added /\ b[k] \in DOMAIN added[a[k]] /\ new[k] = added[a[k]][b[k]]
      BY <1>12
    <2>2. new[k].type \in DocumentBinds /\ new[k].site = Site(es[a[k]])
      BY <1>9, <2>1
    <2> QED
      BY <1>4, <1>6, <2>1, <2>2
  <1>14. ASSUME NEW k \in DOMAIN new, NEW l \in DOMAIN new, k # l, new[k].type = new[l].type, new[k].site[1] = new[l].site[1]
         PROVE  Shared(MetasNamed(new[k].site[1]), new[k].type)
    <2>1. a[k] = a[l]
      BY <1>2, <1>13, <1>14
    <2>2. b[k] # b[l]
      BY <1>12, <1>14, <2>1
    <2>3. /\ a[k] \in DOMAIN added /\ b[k] \in DOMAIN added[a[k]] /\ b[l] \in DOMAIN added[a[k]]
          /\ new[k] = added[a[k]][b[k]] /\ new[l] = added[a[k]][b[l]]
      BY <1>12, <2>1
    <2>4. Shared(MetasNamed(es[a[k]]), added[a[k]][b[k]].type)
      BY <1>9, <1>14, <2>2, <2>3
    <2> QED
      BY <1>13, <2>3, <2>4
  <1>15. \A k \in DOMAIN new : /\ new[k].site[1] \in ToSet(es)
                               /\ new[k].site[2] = node[new[k].site[1]]
                               /\ new[k].type \in DocumentBinds
    BY <1>7, <1>13
  <1> QED
    BY <1>10, <1>14, <1>15 DEF MetasNamed

\* What is bound on document stays as it is said of it.
LEMMA DocStays ==
    ASSUME DocOnce, DomMoves
    PROVE  /\ \A i \in DOMAIN docBinds : /\ docBinds[i].type \in DocumentBinds
                                         /\ SiteOK(node', clock', docBinds[i].site)
                                         /\ Made(runs, docBinds[i].site) /\ Made(runs', docBinds[i].site)
                                         /\ docBinds[i].site[1] \in Element
           /\ \A i, j \in DOMAIN docBinds :
                 i # j /\ docBinds[i].type = docBinds[j].type /\ Same(docBinds[i].site, docBinds[j].site)
                    => Twice(page, runs', docBinds[i].site[1], docBinds[i].type)
  <1>1. ASSUME NEW i \in DOMAIN docBinds
        PROVE  /\ docBinds[i].type \in DocumentBinds
               /\ SiteOK(node', clock', docBinds[i].site)
               /\ Made(runs, docBinds[i].site) /\ Made(runs', docBinds[i].site)
               /\ docBinds[i].site[1] \in Element
    <2>1. PICK s : s = docBinds[i].site
      OBVIOUS
    <2>2. SiteOK(node, clock, s) /\ Made(runs, s)
      BY <2>1 DEF DocOnce
    <2>3. s[1] \in Element
      BY <2>2 DEF SiteOK
    <2>4. SiteOK(node', clock', s) /\ Made(runs', s)
      BY <2>2, <2>3, SitesStay
    <2> QED
      BY <2>1, <2>2, <2>3, <2>4 DEF DocOnce
  <1>2. ASSUME NEW i \in DOMAIN docBinds, NEW j \in DOMAIN docBinds,
               i # j, docBinds[i].type = docBinds[j].type, Same(docBinds[i].site, docBinds[j].site)
        PROVE  Twice(page, runs', docBinds[i].site[1], docBinds[i].type)
    <2>1. Twice(page, runs, docBinds[i].site[1], docBinds[i].type)
      BY <1>2 DEF DocOnce
    <2> QED
      BY <1>1, <2>1, SitesStay
  <1> QED
    BY <1>1, <1>2

\* Handlers that parse adds to document.
LEMMA ParseDocOnce ==
    ASSUME TypeInv, NodesOK, DocOnce, DomMoves, Next, ParseContext
    PROVE  DocOnce'
  <1> DEFINE es == Unparsed(todo[1].context)
             new == DocumentHandlers(es)
  <1>1. docBinds' = docBinds \o new /\ node' = node
    BY Zenon DEF ParseContext, Each, DocumentHandlers
  <1>2. /\ IsSeq(new)
        /\ \A k \in DOMAIN new : /\ new[k].site[1] \in ToSet(es)
                                 /\ new[k].site[2] = node[new[k].site[1]]
                                 /\ new[k].type \in DocumentBinds
        /\ \A k, l \in DOMAIN new :
              k # l /\ new[k].type = new[l].type /\ new[k].site[1] = new[l].site[1]
                 => Shared(page.metas[attr[new[k].site[1]]], new[k].type)
    BY ParseDocuments
  <1>3. ASSUME NEW e \in ToSet(es)
        PROVE  /\ e \in Element
               /\ \E r : /\ r \in DOMAIN runs'[e] /\ r \notin DOMAIN runs[e]
                         /\ runs'[e][r].incarnation = node[e] /\ runs'[e][r].name = attr[e]
    BY ParseMakes, ZenonT(30)
  <1> HIDE DEF new, es
  <1>4. PICK n, all : n \in Nat /\ all = docBinds' /\ Halves(docBinds, new, n, all)
    <2>1. IsSeq(docBinds)
      BY DEF TypeInv, BindsOK
    <2> QED
      BY <1>1, <1>2, <2>1, HalvesOf
  <1>5. page' = page
    BY DEF DomMoves
  <1>6. ASSUME NEW k \in DOMAIN new
        PROVE  /\ new[k].site[1] \in Element
               /\ SiteOK(node', clock', new[k].site) /\ Made(runs', new[k].site)
               /\ \A s : s[1] \in Element /\ Made(runs, s) /\ Same(s, new[k].site)
                     => \A t : Twice(page, runs', new[k].site[1], t)
    <2>1. PICK s2, e : s2 = new[k].site /\ e = s2[1]
      OBVIOUS
    <2>2. e \in ToSet(es) /\ s2[2] = node[e]
      BY <1>2, <2>1
    <2>3. PICK r : /\ r \in DOMAIN runs'[e] /\ r \notin DOMAIN runs[e]
                   /\ runs'[e][r].incarnation = node[e]
      BY <1>3, <2>2
    <2>4. e \in Element
      BY <1>3, <2>2
    <2>5. Made(runs', s2)
      BY <2>1, <2>2, <2>3 DEF Made
    <2>6. SiteOK(node', clock', s2)
      <3>1. node[e] \in Nat /\ node[e] <= clock /\ clock \in Nat /\ clock' \in Nat /\ clock <= clock'
        BY <2>4 DEF NodesOK, DomMoves
      <3>2. node[e] <= clock' /\ node[e] <= node[e]
        BY <3>1
      <3> QED
        BY <1>1, <2>1, <2>2, <2>4, <3>1, <3>2 DEF SiteOK
    <2>7. ASSUME NEW s, s[1] \in Element, Made(runs, s), Same(s, s2) PROVE \A t : Twice(page, runs', e, t)
      <3>1. s[1] = e /\ s[2] = node[e]
        BY <2>1, <2>2, <2>7 DEF Same
      <3> QED
        BY <2>3, <2>4, <2>7, <3>1, SecondRun
    <2> QED
      BY <2>1, <2>4, <2>5, <2>6, <2>7
  <1>7. ASSUME NEW k \in DOMAIN new, NEW l \in DOMAIN new, k # l, new[k].type = new[l].type, Same(new[k].site, new[l].site)
        PROVE  Twice(page, runs', new[k].site[1], new[k].type)
    <2>1. PICK e, metas : e = new[k].site[1] /\ metas = page.metas[attr[e]]
      OBVIOUS
    <2>2. Shared(metas, new[k].type) /\ e \in ToSet(es)
      BY <1>2, <1>7, <2>1 DEF Same
    <2>3. PICK r : r \in DOMAIN runs'[e] /\ runs'[e][r].name = attr[e]
      BY <1>3, <2>2
    <2> QED
      BY <2>1, <2>2, <2>3, SharedTwice
  <1>8. ASSUME NEW i \in DOMAIN all
        PROVE  all[i].type \in DocumentBinds /\ SiteOK(node', clock', all[i].site) /\ Made(runs', all[i].site)
    <2>1. CASE i \in DOMAIN docBinds /\ all[i] = docBinds[i]
      BY <2>1, DocStays
    <2>2. CASE i - n \in DOMAIN new /\ all[i] = new[i - n]
      BY <1>2, <1>6, <2>2
    <2> QED
      BY <1>4, <2>1, <2>2 DEF Halves
  <1>9. ASSUME NEW i \in DOMAIN all, NEW j \in DOMAIN all, i # j, all[i].type = all[j].type, Same(all[i].site, all[j].site)
        PROVE  Twice(page, runs', all[i].site[1], all[i].type)
    <2>1. CASE i \in DOMAIN docBinds /\ all[i] = docBinds[i] /\ j \in DOMAIN docBinds /\ all[j] = docBinds[j]
      BY <1>9, <2>1, DocStays
    <2>2. CASE i \in DOMAIN docBinds /\ all[i] = docBinds[i] /\ j - n \in DOMAIN new /\ all[j] = new[j - n]
      <3>1. PICK s, s2 : s = docBinds[i].site /\ s2 = new[j - n].site
        OBVIOUS
      <3>2. s[1] \in Element /\ Made(runs, s)
        BY <2>2, <3>1, DocStays
      <3>3. Same(s, s2)
        BY <1>9, <2>2, <3>1
      <3>4. \A t : Twice(page, runs', s2[1], t)
        BY <1>6, <2>2, <3>1, <3>2, <3>3
      <3> QED
        BY <2>2, <3>1, <3>3, <3>4 DEF Same
    <2>3. CASE j \in DOMAIN docBinds /\ all[j] = docBinds[j] /\ i - n \in DOMAIN new /\ all[i] = new[i - n]
      <3>1. PICK s, s2 : s = docBinds[j].site /\ s2 = new[i - n].site
        OBVIOUS
      <3>2. s[1] \in Element /\ Made(runs, s)
        BY <2>3, <3>1, DocStays
      <3>3. Same(s, s2)
        BY <1>9, <2>3, <3>1 DEF Same
      <3>4. \A t : Twice(page, runs', s2[1], t)
        BY <1>6, <2>3, <3>1, <3>2, <3>3
      <3> QED
        BY <2>3, <3>1, <3>4
    <2>4. CASE i - n \in DOMAIN new /\ i \in Int /\ all[i] = new[i - n] /\ j - n \in DOMAIN new /\ j \in Int /\ all[j] = new[j - n]
      <3>1. n \in Nat
        BY <1>4
      <3>2. i - n # j - n
        BY <1>9, <2>4, <3>1
      <3>3. PICK p, q : p = i - n /\ q = j - n
        OBVIOUS
      <3>4. p \in DOMAIN new /\ q \in DOMAIN new /\ p # q /\ all[i] = new[p] /\ all[j] = new[q]
        BY <2>4, <3>2, <3>3
      <3> QED
        BY <1>7, <1>9, <3>4
    <2> QED
      BY <1>4, <2>1, <2>2, <2>3, <2>4 DEF Halves
  <1>10. \A i \in DOMAIN docBinds' : /\ docBinds'[i].type \in DocumentBinds
                                     /\ SiteOK(node', clock', docBinds'[i].site)
                                     /\ Made(runs', docBinds'[i].site)
    BY <1>4, <1>8
  <1>11. \A i, j \in DOMAIN docBinds' :
            i # j /\ docBinds'[i].type = docBinds'[j].type /\ Same(docBinds'[i].site, docBinds'[j].site)
               => Twice(page', runs', docBinds'[i].site[1], docBinds'[i].type)
    BY <1>4, <1>5, <1>9
  <1> QED
    BY <1>10, <1>11, Zenon DEF DocOnce, Same

\* Every step keeps DocOnce.
LEMMA DocOnceStep ==
    ASSUME TypeInv, NodesOK, DocOnce, DomMoves, Next
    PROVE  DocOnce'
  <1>1. CASE ParseContext
    BY <1>1, ParseDocOnce
  <1>2. CASE docBinds' = docBinds
    <2>1. page' = page
      BY DEF DomMoves
    <2>2. \A i \in DOMAIN docBinds' : /\ docBinds'[i].type \in DocumentBinds
                                      /\ SiteOK(node', clock', docBinds'[i].site)
                                      /\ Made(runs', docBinds'[i].site)
      BY <1>2, DocStays
    <2>3. \A i, j \in DOMAIN docBinds' :
             i # j /\ docBinds'[i].type = docBinds'[j].type /\ Same(docBinds'[i].site, docBinds'[j].site)
                => Twice(page', runs', docBinds'[i].site[1], docBinds'[i].type)
      BY <1>2, <2>1, DocStays
    <2> QED
      BY <2>2, <2>3 DEF DocOnce, Same
  <1>3. CASE Insert
    BY <1>2, <1>3, InsertMoves
  <1>4. CASE Attach
    BY <1>2, <1>4 DEF Attach
  <1>5. CASE Detach
    BY <1>2, <1>5 DEF Detach
  <1> QED
    BY <1>1, <1>2, <1>3, <1>4, <1>5, Frames DEF Frame

-------------------------------------------------------------------------------
(* What parse initialises *)

\* One initialisation for each element that is parsed and names it.
Initialises(a) ==
    /\ \A i \in DOMAIN a :
          /\ a[i].op = "invoke" /\ a[i].ev.type = InitIncoding /\ a[i].ev.n = clock + i
          /\ a[i].site[1] \in ToSet(Unparsed(todo[1].context))
          /\ a[i].site[2] = node[a[i].site[1]]
          /\ HasInit(page.metas[attr[a[i].site[1]]])
    /\ \A i, j \in DOMAIN a : i # j => a[i].site[1] # a[j].site[1]
    /\ \A e \in ToSet(Unparsed(todo[1].context)) :
          HasInit(page.metas[attr[e]]) => \E i \in DOMAIN a : a[i].site[1] = e

\* parse pushes these.
LEMMA ParseCalls ==
    ASSUME TypeInv, ParseContext
    PROVE  \E a : IsSeq(a) /\ Do(a) /\ Initialises(a)
  <1> DEFINE es == Unparsed(todo[1].context)
             T == {i \in DOMAIN es : HasInit(page.metas[attr[es[i]]])}
             ds == [k \in DOMAIN InOrder(T) |-> es[InOrder(T)[k]]]
             Call(i) == InvokeOp(<<ds[i], node[ds[i]]>>, [type |-> InitIncoding, n |-> clock + i, data |-> NoData])
             a == [i \in DOMAIN ds |-> Call(i)]
  <1>1. IsSeq(es)
    BY UnparsedSeq, ZenonT(30) DEF TypeInv
  <1>2. Do(a)
    BY Zenon DEF ParseContext, Those
  <1>3. \A i : i \in T <=> i \in DOMAIN es /\ HasInit(page.metas[attr[es[i]]])
    OBVIOUS
  <1>4. ds = [k \in DOMAIN InOrder(T) |-> es[InOrder(T)[k]]] /\ T \subseteq DOMAIN es
    OBVIOUS
  <1>5. \A k \in DOMAIN es : es[k] \in ToSet(es)
    BY DEF ToSet
  <1>6. \A e \in ToSet(es) : \E k \in DOMAIN es : es[k] = e
    BY DEF ToSet
  <1>7. \A k, l \in DOMAIN es : k # l => es[k] # es[l]
    BY UnparsedOnce, Zenon DEF TypeInv
  <1>8. a = [i \in DOMAIN ds |-> a[i]] /\ \A i \in DOMAIN a : i \in DOMAIN ds /\ a[i] = Call(i)
    BY ZenonT(30)
  <1>9. \A i \in DOMAIN ds : /\ Call(i).op = "invoke" /\ Call(i).ev.type = InitIncoding /\ Call(i).ev.n = clock + i
                             /\ Call(i).site[1] = ds[i] /\ Call(i).site[2] = node[ds[i]]
    BY ZenonT(30) DEF InvokeOp
  <1>10. DOMAIN a = DOMAIN ds
    BY Zenon
  <1> HIDE DEF T, es, ds, a, Call
  <1>11. PartOf(es, T, ds)
    BY <1>1, <1>4, ThosePart
  <1>12. PICK at : /\ \A k \in DOMAIN ds : at[k] \in T /\ ds[k] = es[at[k]]
                   /\ \A j, k \in DOMAIN ds : j # k => at[j] # at[k]
                   /\ \A p \in T : \E k \in DOMAIN ds : at[k] = p
    BY <1>11 DEF PartOf
  <1>13. IsSeq(ds)
    BY <1>11 DEF PartOf
  <1>14. IsSeq(a)
    BY <1>8, <1>13, Mapped
  <1>15. ASSUME NEW i \in DOMAIN a
         PROVE  /\ a[i].op = "invoke" /\ a[i].ev.type = InitIncoding /\ a[i].ev.n = clock + i
                /\ a[i].site[1] = ds[i] /\ a[i].site[2] = node[ds[i]]
    BY <1>8, <1>9
  <1>16. ASSUME NEW i \in DOMAIN ds PROVE ds[i] \in ToSet(es) /\ HasInit(page.metas[attr[ds[i]]])
    BY <1>3, <1>5, <1>12
  <1>17. \A i, j \in DOMAIN ds : i # j => ds[i] # ds[j]
    BY <1>3, <1>7, <1>12
  <1>18. ASSUME NEW e \in ToSet(es), HasInit(page.metas[attr[e]]) PROVE \E i \in DOMAIN ds : ds[i] = e
    <2>1. PICK k \in DOMAIN es : es[k] = e
      BY <1>6
    <2>2. k \in T
      BY <1>3, <1>18, <2>1
    <2>3. PICK i \in DOMAIN ds : at[i] = k
      BY <1>12, <2>2
    <2>4. ds[i] = e
      BY <1>12, <2>1, <2>3
    <2> QED
      BY <2>4
  <1>19. \A i \in DOMAIN a : /\ a[i].op = "invoke" /\ a[i].ev.type = InitIncoding /\ a[i].ev.n = clock + i
                             /\ a[i].site[1] \in ToSet(es)
                             /\ a[i].site[2] = node[a[i].site[1]]
                             /\ HasInit(page.metas[attr[a[i].site[1]]])
    BY <1>10, <1>15, <1>16
  <1>20. \A i, j \in DOMAIN a : i # j => a[i].site[1] # a[j].site[1]
    BY <1>10, <1>15, <1>17
  <1>21. \A e \in ToSet(es) : HasInit(page.metas[attr[e]]) => \E i \in DOMAIN a : a[i].site[1] = e
    BY <1>10, <1>15, <1>18
  <1>22. Initialises(a)
    BY <1>19, <1>20, <1>21 DEF Initialises, es
  <1> QED
    BY <1>2, <1>14, <1>22

\* An initialisation parse pushes, by itself and with what was recalled.
LEMMA InitSingle ==
    ASSUME TypeInv, NodesOK, TodoOnce, DomMoves, ParseContext,
           history'.started = history.started, history'.handled = history.handled,
           NEW a, IsSeq(a), Initialises(a), NEW i \in DOMAIN a
    PROVE  /\ SingleOK(page, runs', node', attr', clock', a[i])
           /\ Ready(page, runs', node', runner', history'.started, a[i])
           /\ \A w \in history'.handled : Unseen(page, runs', a[i], w)
  <1>1. PICK o, e, k : o = a[i] /\ e = o.site[1] /\ k = node[e]
    OBVIOUS
  <1>2. /\ o.op = "invoke" /\ o.ev.type = InitIncoding /\ o.ev.n = clock + i
        /\ e \in ToSet(Unparsed(todo[1].context)) /\ o.site[2] = k
    BY <1>1 DEF Initialises
  <1>3. PICK r : r = Len(runs[e]) + 1
    OBVIOUS
  <1>4. /\ e \in Element /\ r \in DOMAIN runs'[e] /\ r \notin DOMAIN runs[e]
        /\ runs'[e][r].incarnation = k /\ runner'[e] = r /\ attr'[e] = ""
    <2>1. /\ e \in Element /\ r \in DOMAIN runs'[e] /\ r \notin DOMAIN runs[e]
          /\ runs'[e][r].incarnation = node[e] /\ runner'[e] = r /\ attr'[e] = ""
      BY <1>2, <1>3, ParseMakes, ZenonT(30)
    <2> QED
      BY <1>1, <2>1
  <1>5. node' = node
    BY DEF ParseContext
  <1>6. IsInvoke(o) /\ IsInit(o) /\ ~ IsDispatch(o) /\ Named(o)
    BY <1>2 DEF IsInvoke, IsInit, IsDispatch, Named
  <1>7. SiteOK(node', clock', o.site)
    <2>1. k \in Nat /\ k <= clock /\ clock \in Nat /\ clock' \in Nat /\ clock <= clock'
      BY <1>1, <1>4 DEF NodesOK, DomMoves
    <2>2. k <= clock' /\ k <= k
      BY <2>1
    <2> QED
      BY <1>1, <1>2, <1>4, <1>5, <2>1, <2>2 DEF SiteOK
  <1>8. Made(runs', o.site)
    BY <1>1, <1>2, <1>4 DEF Made
  <1>9. SingleOK(page, runs', node', attr', clock', o)
    BY <1>1, <1>2, <1>4, <1>6, <1>7, <1>8 DEF SingleOK
  <1>10. Ready(page, runs', node', runner', history'.started, o)
    <2>1. <<e, r>> \notin history.started
      <3>1. PICK w : w = <<e, r>>
        OBVIOUS
      <3>2. w[1] = e /\ w[2] = r
        BY <3>1, PairParts
      <3> QED
        BY <1>4, <3>1, <3>2 DEF TodoOnce, StartedOK
    <2> QED
      BY <1>1, <1>4, <2>1 DEF Ready
  <1>11. ASSUME NEW w \in history'.handled PROVE Unseen(page, runs', o, w)
    <2>1. w[3] \in Nat /\ w[3] <= clock /\ clock \in Nat
      BY DEF TodoOnce, PastOK, Held, DomMoves
    <2>2. i \in Nat /\ i > 0
      BY IsSeqDom
    <2>3. o.ev.n # w[3]
      BY <1>2, <2>1, <2>2
    <2> QED
      BY <2>3 DEF Unseen
  <1> QED
    BY <1>1, <1>9, <1>10, <1>11

\* Beside another one it pushes, and beside what is left.
LEMMA InitApart ==
    ASSUME TypeInv, EventsOK, TodoBr, NodesOK, TodoOnce, DomMoves, ParseContext,
           NEW a, IsSeq(a), Initialises(a), NEW i \in DOMAIN a
    PROVE  /\ \A j \in DOMAIN a : i # j => Apart(page, runs', a[i], a[j])
           /\ \A k \in DOMAIN todo : k > 1 => /\ Apart(page, runs', a[i], todo[k])
                                              /\ Apart(page, runs', todo[k], a[i])
  <1>1. PICK o, e, n : o = a[i] /\ e = o.site[1] /\ n = node[e]
    OBVIOUS
  <1>2. /\ o.op = "invoke" /\ o.ev.type = InitIncoding /\ o.ev.n = clock + i
        /\ e \in ToSet(Unparsed(todo[1].context)) /\ o.site[2] = n
        /\ HasInit(page.metas[attr[e]])
    BY <1>1 DEF Initialises
  <1>3. i \in Nat /\ i > 0 /\ clock \in Nat
    BY IsSeqDom DEF DomMoves
  <1>4. PICK r : r = Len(runs[e]) + 1
    OBVIOUS
  <1>5. /\ e \in Element /\ r \in DOMAIN runs'[e] /\ r \notin DOMAIN runs[e]
        /\ runs'[e][r].incarnation = n /\ attr[e] # "" /\ n > 0
    <2>1. /\ e \in Element /\ r \in DOMAIN runs'[e] /\ r \notin DOMAIN runs[e]
          /\ runs'[e][r].incarnation = node[e] /\ attr[e] # "" /\ node[e] > 0
      BY <1>2, <1>4, ParseMakes, Zenon
    <2> QED
      BY <1>1, <2>1
  <1>6. ASSUME NEW j \in DOMAIN a, i # j PROVE Apart(page, runs', a[i], a[j])
    <2>1. PICK p : p = a[j]
      OBVIOUS
    <2>2. p.ev.n = clock + j /\ p.site[1] # e
      BY <1>1, <1>6, <2>1 DEF Initialises
    <2>3. j \in Nat
      BY IsSeqDom
    <2>4. o.ev.n # p.ev.n
      BY <1>2, <1>3, <1>6, <2>2, <2>3
    <2>5. ~ Same(o.site, p.site)
      BY <1>1, <2>2 DEF Same
    <2>6. Apart(page, runs', o, p)
      BY <2>4, <2>5 DEF Apart
    <2> QED
      BY <1>1, <2>1, <2>6
  <1>7. ASSUME NEW k \in DOMAIN todo
        PROVE  Apart(page, runs', a[i], todo[k]) /\ Apart(page, runs', todo[k], a[i])
    <2>1. PICK p : p = todo[k]
      OBVIOUS
    <2>2. Named(p) => p.ev.n # o.ev.n
      <3>1. ASSUME Named(p) PROVE p.ev.n # o.ev.n
        <4>1. p.ev.n \in Nat /\ p.ev.n <= clock
          BY <2>1, <3>1, NamedEvents
        <4> QED
          BY <1>2, <1>3, <4>1
      <3> QED
        BY <3>1
    <2>3. ASSUME IsInit(p), p.site[1] = e, p.site[2] = n
          PROVE  Twice(page, runs', e, InitIncoding) /\ ~ AttachesLate(page)
      <3>1. SingleOK(page, runs, node, attr, clock, p)
        BY <2>1 DEF TodoOnce, SinglesOK
      <3>2. /\ Made(runs, p.site)
            /\ AttachesLate(page) /\ node[e] = n /\ n > 0 /\ attr[e] # "" => ~ HasInit(page.metas[attr[e]])
        BY <2>3, <3>1 DEF SingleOK
      <3>3. ~ AttachesLate(page)
        BY <1>1, <1>2, <1>5, <3>2
      <3>4. \A t : Twice(page, runs', e, t)
        BY <1>5, <2>3, <3>2, SecondRun
      <3> QED
        BY <3>3, <3>4
    <2>4. Apart(page, runs', o, p)
      BY <1>1, <1>2, <2>2, <2>3 DEF Apart, Same
    <2>5. Apart(page, runs', p, o)
      BY <1>1, <1>2, <2>2, <2>3 DEF Apart, Same
    <2> QED
      BY <1>1, <2>1, <2>4, <2>5
  <1> QED
    BY <1>6, <1>7

\* After parse the operations are as they should be.
LEMMA ParseTodoOnce ==
    ASSUME TypeInv, EventsOK, TodoBr, NodesOK, TodoOnce, DomMoves, Next, NotByHand(page), ParseContext
    PROVE  TodoOnce'
  <1>1. history' = history /\ todo # <<>>
    BY DEF ParseContext, At
  <1>2. StaysRecalled
    BY <1>1, RecalledKept
  <1>3. PICK a : IsSeq(a) /\ Do(a) /\ Initialises(a)
    BY ParseCalls
  <1>4. \A i \in DOMAIN a : a[i].op # "run"
    BY <1>3 DEF Initialises
  <1>5. \A i \in DOMAIN a : /\ SingleOK(page, runs', node', attr', clock', a[i])
                            /\ Ready(page, runs', node', runner', history'.started, a[i])
                            /\ \A w \in history'.handled : Unseen(page, runs', a[i], w)
    BY <1>1, <1>3, InitSingle
  <1>6. \A i \in DOMAIN a : /\ \A j \in DOMAIN a : i # j => Apart(page, runs', a[i], a[j])
                            /\ \A k \in DOMAIN todo : k > 1 => /\ Apart(page, runs', a[i], todo[k])
                                                               /\ Apart(page, runs', todo[k], a[i])
    BY <1>3, InitApart
  <1> QED
    BY <1>1, <1>2, <1>3, <1>4, <1>5, <1>6, OncePushed

-------------------------------------------------------------------------------
(* How often an event is handled: every step *)

\* What is said of the handlers, the operations and what was handled.  Operations and what was
\* handled are as they should be on pages that leave initialisation to the engine.
OnceOK ==
    /\ OnceHistoryOK /\ NodesOK /\ BindsOnce /\ DocOnce
    /\ NotByHand(page) => TodoOnce /\ TwiceOK

\* Each step keeps what is said of the operations.
LEMMA TodoOnceStep ==
    ASSUME BreakInv, OnceOK, TodoOnce, DomMoves, Next, NotByHand(page)
    PROVE  TodoOnce'
  <1>1. TypeInv /\ EventsOK /\ TodoBr
    BY DEF BreakInv, EventInv, BreaksOK
  <1>2. OnceHistoryOK /\ NodesOK /\ BindsOnce /\ DocOnce
    BY DEF OnceOK
  <1>3. CASE Fire
    BY <1>1, <1>2, <1>3, FireOnce
  <1>4. CASE Dispatch
    BY <1>1, <1>2, <1>4, DispatchOnce
  <1>5. CASE Invoke
    BY <1>1, <1>2, <1>5, InvokeOnce
  <1>6. CASE ParseContext
    BY <1>1, <1>2, <1>6, ParseTodoOnce
  <1>7. CASE ~ Fire /\ ~ Dispatch /\ ~ Invoke /\ ~ ParseContext
    <2>1. QuietTodo
      BY <1>1, <1>2, <1>7, QuietStep
    <2>2. history'.handled = history.handled /\ history'.started = history.started
      BY <1>2, <1>7, OnceFrames DEF OnceFrame
    <2>3. StaysRecalled
      BY <2>2, RecalledKept
    <2> QED
      BY <1>1, <2>1, <2>3, QuietOnce
  <1> QED
    BY <1>3, <1>4, <1>5, <1>6, <1>7

\* Each step keeps all of it.
LEMMA OnceStep ==
    ASSUME BreakInv, OnceOK, Next
    PROVE  OnceOK'
  <1>1. TypeInv
    BY DEF BreakInv, EventInv
  <1>2. OnceHistoryOK /\ NodesOK /\ BindsOnce /\ DocOnce
    BY DEF OnceOK
  <1>3. DomMoves /\ page' = page
    BY <1>1, DomMovesStep DEF DomMoves
  <1>4. OnceHistoryOK'
    BY <1>2, OnceFrames DEF OnceFrame, OnceHistoryOK
  <1>5. NodesOK'
    BY <1>1, <1>2, <1>3, NodesStep
  <1>6. BindsOnce'
    BY <1>1, <1>2, <1>3, BindsOnceStep
  <1>7. DocOnce'
    BY <1>1, <1>2, <1>3, DocOnceStep
  <1>8. ASSUME NotByHand(page) PROVE TodoOnce' /\ TwiceOK'
    <2>1. TodoOnce /\ TwiceOK
      BY <1>8 DEF OnceOK
    <2>2. TodoOnce'
      BY <1>3, <1>8, <2>1, TodoOnceStep
    <2>3. TwiceOK'
      BY <1>1, <1>2, <1>3, <2>1, TwiceStep
    <2> QED
      BY <2>2, <2>3
  <1>9. NotByHand(page)' => NotByHand(page)
    BY <1>3
  <1> QED
    BY <1>4, <1>5, <1>6, <1>7, <1>8, <1>9 DEF OnceOK

\* A page that was loaded has one thing to do: to parse the document.
LEMMA OnceInit ==
    ASSUME Init
    PROVE  OnceOK
  <1>0. TypeInv
    BY TypeInit
  <1>1. OnceHistoryOK /\ history.handled = {} /\ history.started = {} /\ history.twice = {}
    BY DEF Init, OnceHistoryOK, Remembered
  <1>2. \A e \in Element : node[e] \in {0, 1} /\ runs[e] = <<>> /\ binds[e] = <<>>
    BY DEF Init
  <1>3. clock = 1 /\ docBinds = <<>>
    BY DEF Init
  <1>4. NodesOK
    BY <1>2, <1>3, IsSeqEmpty DEF NodesOK
  <1>5. BindsOnce
    BY <1>2, IsSeqEmpty DEF BindsOnce
  <1>6. DocOnce
    BY <1>3, IsSeqEmpty DEF DocOnce
  <1>7. TwiceOK
    BY <1>1 DEF TwiceOK
  <1>8. PICK o : o = ParseOp("document")
    OBVIOUS
  <1>9. ~ Named(o) /\ o.op # "fire" /\ o.op # "run"
    BY <1>8 DEF ParseOp, Named
  <1>10. DOMAIN todo = {1} /\ todo[1] = o
    <2>1. todo = <<o>>
      BY <1>8 DEF Init
    <2>2. DOMAIN <<o>> = {1} /\ <<o>>[1] = o
      OBVIOUS
    <2> QED
      BY <2>1, <2>2
  <1>11. \A i, j \in DOMAIN todo : i = j
    BY <1>10
  <1>12. RunsAlone /\ SinglesOK /\ ReadyOK /\ PairsOK
    BY <1>9, <1>10, <1>11, MildOnce DEF RunsAlone, SinglesOK, ReadyOK, PairsOK
  <1>13. PastOK /\ StartedOK
    BY <1>1 DEF PastOK, StartedOK
  <1> QED
    BY <1>1, <1>4, <1>5, <1>6, <1>7, <1>12, <1>13 DEF OnceOK, TodoOnce

\* The two inductive invariants together.
OnceInv == BreakInv /\ OnceOK

\* Every state has them.
THEOREM OnceInvariant == Spec => []OnceInv
  <1>1. Init => OnceOK
    BY OnceInit
  <1>2. BreakInv /\ OnceOK /\ [Next]_vars => OnceOK'
    <2>1. ASSUME OnceOK, UNCHANGED vars PROVE OnceOK'
      <3>1. /\ page' = page /\ node' = node /\ attr' = attr /\ runs' = runs /\ runner' = runner
            /\ binds' = binds /\ docBinds' = docBinds /\ todo' = todo /\ clock' = clock
            /\ history' = history
        BY <2>1 DEF vars
      <3>2. (OnceHistoryOK => OnceHistoryOK') /\ (NodesOK => NodesOK')
        BY <3>1 DEF OnceHistoryOK, NodesOK
      <3>3. (BindsOnce => BindsOnce') /\ (DocOnce => DocOnce')
        BY <3>1 DEF BindsOnce, DocOnce
      <3>4. (RunsAlone => RunsAlone') /\ (SinglesOK => SinglesOK') /\ (ReadyOK => ReadyOK')
        BY <3>1 DEF RunsAlone, SinglesOK, ReadyOK
      <3>5. (PairsOK => PairsOK') /\ (StartedOK => StartedOK') /\ (TwiceOK => TwiceOK')
        BY <3>1 DEF PairsOK, StartedOK, TwiceOK
      <3>6. PastOK => PastOK'
        BY <3>1 DEF PastOK, Held
      <3> QED
        BY <2>1, <3>1, <3>2, <3>3, <3>4, <3>5, <3>6 DEF OnceOK, TodoOnce
    <2> QED
      BY <2>1, OnceStep
  <1>3. BreakInv /\ OnceOK => OnceInv
    BY DEF OnceInv
  <1> QED
    BY <1>1, <1>2, <1>3, BreakInvariant, PTL DEF Spec

\* On every page that leaves initialisation to the engine, with any elements, attributes, answers
\* and exceptions: an element runs its executables once for an event, unless two strings onBind
\* name the type or it was bound again without an unbind.
THEOREM HandledOnceAlways == Spec => [](NotByHand(page) => HandledOnceUnlessBoundTwice)
  <1>1. OnceInv => (NotByHand(page) => HandledOnceUnlessBoundTwice)
    BY Zenon DEF OnceInv, OnceOK, TwiceOK, Twice, HandledOnceUnlessBoundTwice, BoundTwice
  <1> QED
    BY <1>1, OnceInvariant, PTL

-------------------------------------------------------------------------------
(* Every element is initialised *)

\* The elements a parse of the context would find.
Covers(context, e) == context = "document" \/ e = context \/ e \in Inside(context)

\* An element that was not parsed yet is parsed next.
ParsedNext ==
    \A e \in Element : node[e] > 0 /\ runner[e] = 0 =>
        todo # <<>> /\ todo[1].op = "parse" /\ attr[e] # "" /\ Covers(todo[1].context, e)

\* An element that names InitIncoding was initialised, or is to be, unless an exception dropped
\* it.
Started(e) ==
    \/ <<e, runner[e]>> \in history.started
    \/ InitIncoding \in history.dropped
    \/ \E i \in DOMAIN todo : IsInit(todo[i]) /\ todo[i].site[1] = e /\ todo[i].site[2] = node[e]
StartedAll ==
    \A e \in Element : node[e] > 0 /\ runner[e] # 0 /\ HasInit(page.metas[runs[e][runner[e]].name]) => Started(e)

\* What is to be parsed is parsed before anything else happens.
LEMMA OnlyParse ==
    ASSUME Next, todo # <<>>, todo[1].op = "parse"
    PROVE  ParseContext
  <1>1. ~ Idle
    BY DEF Idle
  <1>2. \A op : op # "parse" => ~ At(op)
    BY ZenonT(30) DEF At
  <1>3. ~ (Fire \/ Dispatch \/ Invoke)
    BY <1>2, Zenon DEF Fire, Dispatch, Invoke
  <1>4. ~ (CatchNothing \/ Actions \/ Action \/ Execute)
    BY <1>2 DEF CatchNothing, Actions, Action, Execute
  <1>5. ~ (Direct \/ Event \/ Ajax \/ Submit \/ Send \/ Store)
    BY <1>2 DEF Direct, Event, Ajax, Submit, Send, Store, AtRun
  <1>6. ~ (Completed \/ Callback \/ CaughtNothing \/ BreakCallbacks)
    BY <1>2, ZenonT(30) DEF Completed, Callback, CaughtNothing, BreakCallbacks
  <1>7. ~ (Uncaught \/ BreakBefore \/ BreakCallback \/ RethrowCallback)
    BY <1>2 DEF Uncaught, BreakBefore, BreakCallback, RethrowCallback
  <1>8. ~ (Insert \/ Trigger \/ Break \/ Eval \/ HashStore \/ Attach \/ Detach)
    BY <1>2 DEF Insert, Trigger, Break, Eval, HashStore, Attach, Detach, AtRun
  <1>9. ~ (User \/ Navigate \/ Announce \/ TimeOut \/ Tick)
    BY <1>1 DEF User, Navigate, Announce, TimeOut, Tick
  <1>10. ~ Respond
    BY <1>1 DEF Respond, Answer, Fail
  <1> QED
    BY <1>3, <1>4, <1>5, <1>6, <1>7, <1>8, <1>9, <1>10 DEF Next, Step

\* The first of the operations that replace the one at the head.
LEMMA PushedFirst ==
    ASSUME TypeInv, todo # <<>>, NEW a, IsSeq(a), 1 \in DOMAIN a, Do(a)
    PROVE  todo' # <<>> /\ todo'[1] = a[1]
  <1>1. 1 \in DOMAIN todo' /\ todo'[1] = a[1]
    BY PushedPlaces
  <1>2. todo' # <<>>
    BY <1>1, IsSeqEmpty
  <1> QED
    BY <1>1, <1>2

\* Insert pushes the parse of what it inserts.
LEMMA InsertParses ==
    ASSUME TypeInv, Insert, \A e \in Element : node[e] > 0 => runner[e] # 0
    PROVE  ParsedNext'
  <1> DEFINE m == Meta(todo[1].x)
             old == Inside(m.target)
             new == IF ResultOf(todo[1].x) = NoData THEN {} ELSE old
  <1>1. todo # <<>>
    BY DEF Insert, AtRun, At
  <1>2. CASE UNCHANGED dom
    BY <1>2 DEF dom, ParsedNext
  <1>3. CASE ~ UNCHANGED dom
    <2>1. new \in SUBSET old
      BY Zenon
    <2>2. /\ node' = [e \in Element |-> IF e \in new THEN clock + 1 ELSE IF e \in old THEN 0 ELSE node[e]]
          /\ attr' = [e \in Element |-> IF e \in new THEN e ELSE IF e \in old THEN "" ELSE attr[e]]
          /\ runner' = [e \in Element |-> IF e \in old THEN 0 ELSE runner[e]]
          /\ Do(<<ParseOp(m.target), FireOp("incinsert", <<"window", 0>>, NoData)>>)
      BY <1>3 DEF Insert, Cleaned
    <2>3. PICK p, f, t : p = ParseOp(m.target) /\ f = FireOp("incinsert", <<"window", 0>>, NoData) /\ t = m.target
      OBVIOUS
    <2>4. p.op = "parse" /\ p.context = t
      BY <2>3 DEF ParseOp
    <2>5. todo' # <<>> /\ todo'[1] = p
      <3>1. PICK a : a = <<p, f>>
        OBVIOUS
      <3>2. IsSeq(a) /\ 1 \in DOMAIN a /\ a[1] = p
        BY <3>1, IsSeqTuples
      <3>3. Do(a)
        BY <2>2, <2>3, <3>1
      <3> QED
        BY <1>1, <3>2, <3>3, PushedFirst
    <2>6. \A e \in new : e # "" /\ Covers(t, e)
      <3>1. "" \notin Element
        BY PageAssumption DEF TypeInv, IsPage
      <3>2. Inside(t) \subseteq Element
        BY DEF Inside
      <3> QED
        BY <2>1, <2>3, <3>1, <3>2 DEF Covers
    <2> HIDE DEF old, new
    <2>7. ASSUME NEW e \in Element, node'[e] > 0, runner'[e] = 0 PROVE e \in new /\ attr'[e] = e
      <3>1. CASE e \in new
        BY <2>2, <3>1
      <3>2. CASE e \notin new /\ e \in old
        <4>1. node'[e] = 0
          BY <2>2, <3>2
        <4>2. ~ (node'[e] > 0)
          BY <4>1
        <4> QED
          BY <2>7, <4>2
      <3>3. CASE e \notin new /\ e \notin old
        BY <2>2, <2>7, <3>3
      <3> QED
        BY <3>1, <3>2, <3>3
    <2>8. \A e \in Element : node'[e] > 0 /\ runner'[e] = 0 =>
             todo' # <<>> /\ todo'[1].op = "parse" /\ attr'[e] # "" /\ Covers(todo'[1].context, e)
      BY <2>4, <2>5, <2>6, <2>7
    <2> QED
      BY <2>8 DEF ParsedNext, Covers, Inside
  <1> QED
    BY <1>2, <1>3

\* Attach pushes the parse of what it attaches.
LEMMA AttachParses ==
    ASSUME TypeInv, Attach, \A e \in Element : node[e] > 0 => runner[e] # 0
    PROVE  ParsedNext'
  <1>1. PICK m, t : m = Meta(todo[1].x) /\ t = m.target
    OBVIOUS
  <1>2. todo # <<>> /\ todo[1].op = "run" /\ m.type = "Attach" /\ node' = node
    BY <1>1 DEF Attach, AtRun, At
  <1>3. CASE UNCHANGED <<runner, attr>>
    BY <1>2, <1>3, ZenonT(30) DEF ParsedNext
  <1>4. CASE ~ UNCHANGED <<runner, attr>>
    <2>1. /\ Do(<<ParseOp(t)>>)
          /\ runner' = [runner EXCEPT ![t] = 0]
          /\ attr' = [attr EXCEPT ![t] = m.arg]
      BY <1>1, <1>4 DEF Attach
    <2>2. PICK p : p = ParseOp(t)
      OBVIOUS
    <2>3. p.op = "parse" /\ p.context = t
      BY <2>2 DEF ParseOp
    <2>4. todo' # <<>> /\ todo'[1] = p
      <3>1. PICK a : a = <<p>>
        OBVIOUS
      <3>2. IsSeq(a) /\ 1 \in DOMAIN a /\ a[1] = p
        BY <3>1, IsSeqTuples
      <3>3. Do(a)
        BY <2>1, <2>2, <3>1
      <3> QED
        BY <1>2, <3>2, <3>3, PushedFirst
    <2>5. m.arg # ""
      <3>1. Next
        BY DEF Next, Step
      <3>2. \E name \in DOMAIN page.metas : \E i \in DOMAIN page.metas[name] :
               Meta(todo[1].x) = page.metas[name][i]
        BY <1>2, <3>1, HeadMeta
      <3>a. PICK name \in DOMAIN page.metas : \E i \in DOMAIN page.metas[name] : m = page.metas[name][i]
        BY <1>1, <3>2
      <3>3. PICK i \in DOMAIN page.metas[name] : m = page.metas[name][i]
        BY <3>a
      <3>4. IsPage(page)
        BY PageAssumption DEF TypeInv
      <3>5. page.metas[name][i].type = "Attach" => page.metas[name][i].arg \in DOMAIN page.metas
        BY <3>4 DEF IsPage
      <3>6. "" \notin DOMAIN page.metas
        BY <3>4 DEF IsPage
      <3> QED
        BY <1>2, <3>3, <3>5, <3>6
    <2>6. runner \in [Element -> Nat] /\ DOMAIN attr = Element
      BY DEF TypeInv, DomOK
    <2>7. ASSUME NEW e \in Element, node'[e] > 0, runner'[e] = 0
          PROVE  attr'[e] # "" /\ Covers(t, e)
      <3>1. e = t
        BY <1>2, <2>1, <2>6, <2>7
      <3>2. attr'[e] = m.arg
        BY <2>1, <2>6, <3>1
      <3> QED
        BY <2>5, <3>1, <3>2 DEF Covers
    <2>8. \A e \in Element : node'[e] > 0 /\ runner'[e] = 0 =>
             todo' # <<>> /\ todo'[1].op = "parse" /\ attr'[e] # "" /\ Covers(todo'[1].context, e)
      BY <2>3, <2>4, <2>7
    <2> QED
      BY <2>8 DEF ParsedNext, Covers, Inside
  <1> QED
    BY <1>3, <1>4

\* Every step keeps ParsedNext.
LEMMA ParsedNextStep ==
    ASSUME TypeInv, ParsedNext, Next
    PROVE  ParsedNext'
  <1>1. CASE ParseContext
    <2>1. ASSUME NEW e \in Element, node'[e] > 0, runner'[e] = 0 PROVE FALSE
      <3> DEFINE S == ToSet(Unparsed(todo[1].context))
      <3>1. node' = node /\ runner' = [d \in Element |-> IF d \in S THEN Len(runs[d]) + 1 ELSE runner[d]]
        BY <1>1 DEF ParseContext
      <3>2. ASSUME e \in S PROVE FALSE
        <4>1. Len(runs[e]) \in Nat
          BY IsSeqDom DEF TypeInv, AreRuns
        <4>2. runner'[e] = Len(runs[e]) + 1
          BY <3>1, <3>2
        <4> QED
          BY <2>1, <4>1, <4>2
      <3>3. ASSUME e \notin S PROVE FALSE
        <4>1. node[e] > 0 /\ runner[e] = 0
          BY <2>1, <3>1, <3>3
        <4>2. attr[e] # "" /\ Covers(todo[1].context, e)
          BY <4>1 DEF ParsedNext
        <4>3. e \in ToSet(Unparsed(todo[1].context))
          BY <4>1, <4>2, UnparsedAll DEF TypeInv, Covers
        <4> QED
          BY <3>3, <4>3
      <3> QED
        BY <3>2, <3>3, Zenon
    <2> QED
      BY <2>1 DEF ParsedNext
  <1>2. CASE ~ ParseContext
    <2>1. \A e \in Element : node[e] > 0 => runner[e] # 0
      BY <1>2, OnlyParse DEF ParsedNext
    <2>2. CASE Insert
      BY <2>1, <2>2, InsertParses
    <2>3. CASE Attach
      BY <2>1, <2>3, AttachParses
    <2>4. CASE UNCHANGED <<node, runner>>
      BY <2>1, <2>4 DEF ParsedNext
    <2>5. CASE Detach
      <3>1. UNCHANGED <<node, runner>>
        BY <2>5 DEF Detach
      <3> QED
        BY <2>4, <3>1
    <2> QED
      BY <1>2, <2>2, <2>3, <2>4, <2>5, Frames DEF Frame
  <1> QED
    BY <1>1, <1>2

\* What an event that goes around pushes.
LEMMA DispatchList ==
    ASSUME TypeInv, Dispatch
    PROVE  todo # <<>> /\ todo[1].op = "dispatch" /\ \E a : IsSeq(a) /\ Do(a)
  <1>1. PICK d : d = todo[1]
    OBVIOUS
  <1>2. /\ todo # <<>> /\ d.op = "dispatch"
        /\ Do(<<>>) \/ (d.path # <<>> /\ \E site, hs, calls, rest2 : DispatchPushes(d, site, hs, calls, rest2))
    BY <1>1, DispatchDoes
  <1>3. CASE Do(<<>>)
    BY <1>1, <1>2, <1>3, IsSeqEmpty
  <1>4. ASSUME NEW site, NEW hs, NEW calls, NEW rest2, DispatchPushes(d, site, hs, calls, rest2)
        PROVE  \E a : IsSeq(a) /\ Do(a)
    <2>1. IsSeq(hs)
      BY <1>4, HandlersSeq DEF TypeInv, DispatchPushes
    <2>2. calls = [i \in DOMAIN hs |-> calls[i]]
      BY <1>4 DEF DispatchPushes
    <2>3. IsSeq(calls)
      BY <2>1, <2>2, Mapped
    <2>4. IsSeq(rest2)
      BY <1>4, IsSeqEmpty, IsSeqTuples DEF DispatchPushes
    <2>5. PICK a : a = calls \o rest2
      OBVIOUS
    <2>6. IsSeq(a)
      BY <2>3, <2>4, <2>5, IsSeqConcat
    <2>7. Do(a)
      BY <1>4, <2>5, Zenon DEF DispatchPushes
    <2> QED
      BY <2>6, <2>7
  <1> QED
    BY <1>1, <1>2, <1>3, <1>4

\* An initialisation that is to be done stays to be done, unless it is dropped or done.
LEMMA InitsStay ==
    ASSUME TypeInv, TodoBr, OnceHistoryOK, Next, NEW j \in DOMAIN todo, IsInit(todo[j])
    PROVE  \/ \E i \in DOMAIN todo' : todo'[i] = todo[j]
           \/ InitIncoding \in history'.dropped
           \/ j = 1 /\ Invoke
  <1>1. IsInvoke(todo[j]) /\ todo[j].op = "invoke" /\ todo[j].ev.type = InitIncoding
    BY DEF IsInit, IsInvoke
  <1>2. ASSUME todo # <<>>, j # 1, NEW a, IsSeq(a), Do(a)
        PROVE  \E i \in DOMAIN todo' : todo'[i] = todo[j]
    BY <1>2, PushedPlaces
  <1>3. CASE Fire
    <2>1. todo # <<>> /\ todo[1].op = "fire"
      BY <1>3, ZenonT(30) DEF Fire, At
    <2>2. PICK o : Do(<<o>>)
      BY <1>3, Zenon DEF Fire
    <2>3. PICK a : a = <<o>>
      OBVIOUS
    <2>4. IsSeq(a) /\ Do(a)
      BY <2>2, <2>3, IsSeqTuples
    <2>5. j # 1
      BY <1>1, <2>1
    <2> QED
      BY <1>2, <2>1, <2>4, <2>5, Zenon
  <1>4. CASE Dispatch
    <2>1. /\ todo # <<>> /\ todo[1].op = "dispatch"
          /\ \E a : IsSeq(a) /\ Do(a)
      BY <1>4, DispatchList
    <2>2. j # 1
      BY <1>1, <2>1
    <2> QED
      BY <1>2, <2>1, <2>2
  <1>5. CASE ParseContext
    <2>1. todo # <<>> /\ todo[1].op = "parse"
      BY <1>5 DEF ParseContext, At
    <2>2. \E a : IsSeq(a) /\ Do(a)
      BY <1>5, ParseCalls
    <2>3. j # 1
      BY <1>1, <2>1
    <2> QED
      BY <1>2, <2>1, <2>2, <2>3, ZenonT(30)
  <1>6. CASE Invoke
    <2>1. PICK site, ev : site = todo[1].site /\ ev = todo[1].ev
      OBVIOUS
    <2>2. PICK e, r : e = site[1] /\ r = runner[e]
      OBVIOUS
    <2>3. todo # <<>> /\ (Do(<<>>) \/ \E a : IsSeq(a) /\ Do(a))
      BY <1>6, <2>1, <2>2, InvokeCalls
    <2>4. \E a : IsSeq(a) /\ Do(a)
      BY <2>3, IsSeqEmpty
    <2> QED
      BY <1>2, <1>6, <2>3, <2>4
  <1>7. CASE ~ Fire /\ ~ Dispatch /\ ~ Invoke /\ ~ ParseContext
    <2>1. QuietTodo
      BY <1>7, QuietStep
    <2>2. \/ \E i \in DOMAIN todo' : todo'[i] = todo[j]
          \/ todo[j].ev.type \in history'.dropped
      BY <1>1, <2>1 DEF QuietTodo, Kept, Lost, Watched, Calm, IsSent, IsInvoke
    <2> QED
      BY <1>1, <2>2
  <1> QED
    BY <1>3, <1>4, <1>5, <1>6, <1>7

\* An initialisation that is called is recalled.
LEMMA InitCalled ==
    ASSUME TypeInv, OnceHistoryOK, Invoke, IsInit(todo[1]), NEW e \in Element, node[e] > 0, runner[e] # 0,
           todo[1].site[1] = e, todo[1].site[2] = node[e]
    PROVE  <<e, runner[e]>> \in history'.started
  <1>1. PICK site, ev : site = todo[1].site /\ ev = todo[1].ev
    OBVIOUS
  <1>2. PICK r : r = runner[e]
    OBVIOUS
  <1>3. Present(site)
    BY <1>1 DEF Present
  <1>4. CallOf(site, ev, e, r)
    <2>1. e = site[1]
      BY <1>1
    <2> QED
      BY <1>1, <1>2, <1>3, <2>1, InvokeCalls
  <1>5. ev.type = InitIncoding
    BY <1>1 DEF IsInit
  <1> QED
    BY <1>2, <1>4, <1>5 DEF CallOf

\* What was started is recalled from then on.
LEMMA StartedKept ==
    ASSUME TypeInv, OnceHistoryOK, Next
    PROVE  history.started \subseteq history'.started /\ history.dropped \subseteq history'.dropped
  <1>1. OnceFrame
    BY OnceFrames
  <1>2. CASE Invoke
    <2>1. PICK site, ev : site = todo[1].site /\ ev = todo[1].ev
      OBVIOUS
    <2>2. PICK e, r : e = site[1] /\ r = runner[e]
      OBVIOUS
    <2>3. history' = history \/ CallOf(site, ev, e, r)
      BY <1>2, <2>1, <2>2, InvokeCalls
    <2> QED
      BY <1>1, <2>3 DEF CallOf, OnceFrame
  <1> QED
    BY <1>1, <1>2 DEF OnceFrame

\* An element that keeps its runner.
LEMMA StartedStays ==
    ASSUME TypeInv, TodoBr, OnceHistoryOK, Next, NEW e \in Element, node[e] > 0, runner[e] # 0,
           node'[e] = node[e], runner'[e] = runner[e], Started(e)
    PROVE  \/ <<e, runner'[e]>> \in history'.started
           \/ InitIncoding \in history'.dropped
           \/ \E i \in DOMAIN todo' : IsInit(todo'[i]) /\ todo'[i].site[1] = e /\ todo'[i].site[2] = node'[e]
  <1>1. history.started \subseteq history'.started /\ history.dropped \subseteq history'.dropped
    BY StartedKept
  <1>2. CASE <<e, runner[e]>> \in history.started \/ InitIncoding \in history.dropped
    BY <1>1, <1>2
  <1>3. ASSUME NEW j \in DOMAIN todo, IsInit(todo[j]), todo[j].site[1] = e, todo[j].site[2] = node[e]
        PROVE  \/ <<e, runner[e]>> \in history'.started
               \/ InitIncoding \in history'.dropped
               \/ \E i \in DOMAIN todo' : todo'[i] = todo[j]
    <2>1. CASE j = 1 /\ Invoke
      BY <1>3, <2>1, InitCalled
    <2> QED
      BY <1>3, <2>1, InitsStay
  <1> QED
    BY <1>2, <1>3 DEF Started

\* An element that was parsed is to be initialised when it names that.
LEMMA ParsedStarted ==
    ASSUME TypeInv, ParseContext, NEW e \in Element, e \in ToSet(Unparsed(todo[1].context)),
           HasInit(page.metas[attr[e]])
    PROVE  \E i \in DOMAIN todo' : IsInit(todo'[i]) /\ todo'[i].site[1] = e /\ todo'[i].site[2] = node[e]
  <1>1. PICK a : IsSeq(a) /\ Do(a) /\ Initialises(a)
    BY ParseCalls
  <1>2. PICK i \in DOMAIN a : a[i].site[1] = e
    BY <1>1 DEF Initialises
  <1>3. a[i].op = "invoke" /\ a[i].ev.type = InitIncoding /\ a[i].site[2] = node[e]
    BY <1>1, <1>2 DEF Initialises
  <1>4. IsInit(a[i])
    BY <1>3, Zenon DEF IsInit, IsInvoke
  <1>5. todo # <<>>
    BY DEF ParseContext, At
  <1>6. i \in DOMAIN todo' /\ todo'[i] = a[i]
    BY <1>1, <1>2, <1>5, PushedPlaces, ZenonT(30)
  <1> QED
    BY <1>2, <1>3, <1>4, <1>6

\* Every step keeps StartedAll.
LEMMA StartedStep ==
    ASSUME TypeInv, TodoBr, OnceHistoryOK, StartedAll, DomMoves, Next
    PROVE  StartedAll'
  <1>1. page' = page /\ Grown(runs, runs')
    BY DEF DomMoves
  <1>2. ASSUME NEW e \in Element, node'[e] > 0, runner'[e] # 0,
               HasInit(page'.metas[runs'[e][runner'[e]].name])
        PROVE  \/ <<e, runner'[e]>> \in history'.started
               \/ InitIncoding \in history'.dropped
               \/ \E i \in DOMAIN todo' : IsInit(todo'[i]) /\ todo'[i].site[1] = e /\ todo'[i].site[2] = node'[e]
    <2>1. CASE runner'[e] = runner[e] /\ node'[e] = node[e]
      <3>1. node[e] > 0 /\ runner[e] # 0
        BY <1>2, <2>1
      <3>2. runner[e] \in DOMAIN runs[e]
        BY <3>1 DEF TypeInv, DomOK
      <3>3. runs'[e][runner[e]].name = runs[e][runner[e]].name
        BY <1>1, <3>2 DEF Grown
      <3>4. Started(e)
        BY <1>1, <1>2, <2>1, <3>1, <3>3 DEF StartedAll
      <3> QED
        BY <2>1, <3>1, <3>4, StartedStays
    <2>2. CASE runner'[e] \notin DOMAIN runs[e]
      <3>1. TypeInv'
        BY TypeStep
      <3>2. runner'[e] \in DOMAIN runs'[e]
        BY <1>2, <3>1 DEF TypeInv, DomOK
      <3>3. ParseContext
        BY <2>2, <3>2, RunsKept
      <3>4. e \in ToSet(Unparsed(todo[1].context)) /\ node' = node
        <4> DEFINE S == ToSet(Unparsed(todo[1].context))
        <4>1. node' = node /\ runner' = [d \in Element |-> IF d \in S THEN Len(runs[d]) + 1 ELSE runner[d]]
          BY <3>3 DEF ParseContext
        <4>2. ASSUME e \notin S PROVE FALSE
          <5>1. runner'[e] = runner[e]
            BY <4>1, <4>2
          <5>2. runner[e] \in DOMAIN runs[e]
            BY <1>2, <5>1 DEF TypeInv, DomOK
          <5> QED
            BY <2>2, <5>1, <5>2
        <4> QED
          BY <4>1, <4>2, Zenon
      <3>5. PICK r : r = Len(runs[e]) + 1
        OBVIOUS
      <3>6. runs'[e][r].name = attr[e] /\ runner'[e] = r
        BY <3>3, <3>4, <3>5, ParseMakes
      <3>7. HasInit(page.metas[attr[e]])
        BY <1>1, <1>2, <3>6
      <3> QED
        BY <3>3, <3>4, <3>7, ParsedStarted
    <2> QED
      BY <1>2, <2>1, <2>2 DEF DomMoves
  <1> QED
    BY <1>2 DEF StartedAll, Started, IsInit, IsInvoke, HasInit, InitIncoding

-------------------------------------------------------------------------------
(* Every element is initialised: the theorems *)

\* A page that was loaded parses the document first, and no element has a runner.
LEMMA ParsedInit ==
    ASSUME Init
    PROVE  ParsedNext /\ StartedAll
  <1>1. PICK o : o = ParseOp("document")
    OBVIOUS
  <1>2. o.op = "parse" /\ o.context = "document"
    BY <1>1 DEF ParseOp
  <1>3. todo # <<>> /\ todo[1] = o
    <2>1. todo = <<o>>
      BY <1>1 DEF Init
    <2> QED
      BY <2>1, ZenonT(30)
  <1>4. ASSUME NEW e \in Element, node[e] > 0 PROVE attr[e] # ""
    <2>1. e \in page.initial
      <3>1. node[e] = IF e \in page.initial THEN 1 ELSE 0
        BY DEF Init
      <3>2. node[e] # 0
        BY <1>4
      <3> QED
        BY <3>1, <3>2
    <2>2. attr[e] = e
      BY <2>1 DEF Init
    <2>3. "" \notin Element
      BY PageAssumption DEF Init, IsPage
    <2> QED
      BY <2>2, <2>3
  <1>5. \A e \in Element : runner[e] = 0
    BY DEF Init
  <1>6. ParsedNext
    BY <1>2, <1>3, <1>4 DEF ParsedNext, Covers
  <1>7. StartedAll
    BY <1>5 DEF StartedAll
  <1> QED
    BY <1>6, <1>7

\* The inductive invariant: how often an event is handled, and what is parsed and initialised.
ParsedInv == OnceInv /\ ParsedNext /\ StartedAll

\* Every state has it.
THEOREM ParsedInvariant == Spec => []ParsedInv
  <1>1. Init => ParsedNext /\ StartedAll
    BY ParsedInit
  <1>2. OnceInv /\ ParsedNext /\ StartedAll /\ [Next]_vars => (ParsedNext /\ StartedAll)'
    <2>1. ASSUME ParsedNext, StartedAll, UNCHANGED vars PROVE ParsedNext' /\ StartedAll'
      BY <2>1, ZenonT(30) DEF ParsedNext, Covers, Inside, StartedAll, Started, vars
    <2>2. ASSUME OnceInv, ParsedNext, StartedAll, Next PROVE ParsedNext' /\ StartedAll'
      <3>1. TypeInv /\ TodoBr /\ OnceHistoryOK
        BY <2>2 DEF OnceInv, OnceOK, BreakInv, EventInv, BreaksOK
      <3>2. DomMoves
        BY <2>2, <3>1, DomMovesStep
      <3> QED
        BY <2>2, <3>1, <3>2, ParsedNextStep, StartedStep
    <2> QED
      BY <2>1, <2>2
  <1>3. OnceInv /\ ParsedNext /\ StartedAll => ParsedInv
    BY DEF ParsedInv
  <1> QED
    BY <1>1, <1>2, <1>3, OnceInvariant, PTL DEF Spec

\* On every page: when a task has ended, every element in the document was parsed, those that
\* Insert brought and those that Attach changed included, and each one whose attribute names
\* InitIncoding was initialised since, unless an exception dropped an initialisation.
THEOREM InitialisedAlways == Spec => []Initialised
  <1>1. ParsedInv => Initialised
    <2>1. ASSUME ParsedInv, todo = <<>>, NEW e \in Element, node[e] > 0
          PROVE  /\ runner[e] > 0
                 /\ HasInit(page.metas[runs[e][runner[e]].name]) =>
                       <<e, runner[e]>> \in history.started \/ InitIncoding \in history.dropped
      <3>1. runner[e] # 0
        BY <2>1 DEF ParsedInv, ParsedNext
      <3>2. runner[e] \in Nat
        BY <2>1 DEF ParsedInv, OnceInv, BreakInv, EventInv, TypeInv, DomOK
      <3>3. DOMAIN todo = {}
        BY <2>1, IsSeqEmpty
      <3>4. HasInit(page.metas[runs[e][runner[e]].name]) => Started(e)
        BY <2>1, <3>1 DEF ParsedInv, StartedAll
      <3> QED
        BY <3>1, <3>2, <3>3, <3>4 DEF Started
    <2> QED
      BY <2>1 DEF Initialised
  <1> QED
    BY <1>1, ParsedInvariant, PTL

\* And each was initialised once for each time it was parsed, on every page that leaves
\* initialisation to the engine and binds no further one while another may be under way.
THEOREM InitialisedOnceAlways == Spec => [](NotByHand(page) /\ AttachesLate(page) => InitialisedOnce)
  <1>1. OnceInv /\ Initialised => (NotByHand(page) /\ AttachesLate(page) => InitialisedOnce)
    BY DEF OnceInv, OnceOK, TwiceOK, InitialisedOnce
  <1> QED
    BY <1>1, OnceInvariant, InitialisedAlways, PTL
===============================================================================
