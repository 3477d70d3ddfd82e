---------------------------- MODULE ClientRuntime -----------------------------
(***************************************************************************)
(* The client side of the MetaLanguage: the engine that parses the          *)
(* attribute incoding of the elements of a page, binds their events and,    *)
(* when one occurs, runs the executables the attribute lists (before the    *)
(* action, the action, on success, on error, on complete, on break).        *)
(*                                                                         *)
(* JavaScript runs one task to its end before the next one begins.  todo is *)
(* what the running task has still to do, the next operation first: a call  *)
(* is replaced by the operations of its body, and an exception drops what   *)
(* lies between it and the operation that catches it.  Tasks are events of  *)
(* the user, answers of the server, time-outs, ticks of intervals and the   *)
(* two events a browser sends when the hash changes.                        *)
(***************************************************************************)
EXTENDS ClientUrl

CONSTANTS
    Element,        \* the elements of the page
    Path,           \* Path[e]: e and the elements around it, the innermost first
    Page,           \* the pages that are checked
    Id,             \* names of intervals
    MaxTicks        \* bound on the ticks of intervals

ASSUME TicksAssumption == MaxTicks \in Nat

ASSUME PathAssumption ==
    /\ "document" \notin Element
    /\ \A e \in Element : /\ Path[e] \in Seq(Element)
                          /\ \A i, j \in DOMAIN Path[e] : Path[e][i] = Path[e][j] => i = j

VARIABLES
    page,           \* the page that was loaded
    node,           \* the incarnation of each element in the document, 0 when absent
    attr,           \* the attribute incoding: the name of a list of executables
    runs,           \* the IncodingRunner objects made for each element
    runner,         \* $.data(element, 'incoding-runner'): the last of them, or 0
    binds,          \* the handlers of each element
    docBinds,       \* the handlers of document
    todo,
    requests,       \* sent and not answered
    storage,        \* localStorage
    timers,         \* window.setTimeout
    intervals,      \* window.setInterval
    intervalIds,    \* ExecutableBase.IntervalIds
    hash, tasks, leaving,
    shown,          \* what was inserted into each element last
    clock,          \* numbers events, requests and intervals
    events, ticks,  \* counted against the bounds
    history         \* what the properties recall of the past

dom == <<node, attr, runs, runner, binds, docBinds>>
timing == <<timers, intervals, intervalIds>>
navigation == <<hash, tasks, leaving>>
rest == <<page, events, ticks>>
vars == <<page, node, attr, runs, runner, binds, docBinds, todo, requests, storage, timers,
          intervals, intervalIds, hash, tasks, leaving, shown, clock, events, ticks, history>>

-------------------------------------------------------------------------------
(* Executables *)

InitIncoding == "initincoding"
ChangeUrl == "incchangeurl"
DocumentBinds == {ChangeUrl, "incajaxbefore", "incajaxerror", "incajaxcomplete",
                  "incajaxsuccess", "incglobalerror", "incinsert"}

ActionTypes == {"Direct", "Event", "Ajax", "Submit"}

\* onStatus of an executable that is no action, and onEventStatus
Before == 1
Success == 2
Error == 3
Complete == 4
Breakes == 5

StopPropagation == 3
CancelAll == 4

\* What is sent, answered and inserted: the number of the request or event it comes from
\* and the parameters that were asked for.
NoData == [n |-> 0, asked |-> <<>>]
NoEvent == [type |-> "", n |-> 0, data |-> NoData]

\* An executable is <<element, number of its runner, position in the attribute>>.
RunOf(x) == runs[x[1]][x[2]]
Meta(x) == page.metas[RunOf(x).name][x[3]]
Self(x) == <<x[1], RunOf(x).incarnation>>
EventOf(x) == RunOf(x).event[x[3]]
ResultOf(x) == RunOf(x).result[x[3]]

\* The executables of runner r of e that Test selects, in order.
Select(e, r, Test(_)) ==
    LET metas == page.metas[runs[e][r].name]
        at == InOrder({i \in DOMAIN metas : Test(metas[i])})
    IN  [i \in DOMAIN at |-> <<e, r, at[i]>>]

IsAction(m) == m.type \in ActionTypes
ListOf(m, status) == ~ IsAction(m) /\ m.status = status

\* A page: the attributes of its elements by name ("" is none), the elements in document order;
\* what is inserted into an element that is driven by the hash answers an Ajax that reads the hash.
ShowsHash(p, metas) ==
    \A i \in DOMAIN metas : metas[i].type = "Insert" /\ metas[i].target = p.reloads =>
        /\ metas[i].status \in {Success, Error, Complete}
        /\ \A j \in DOMAIN metas : IsAction(metas[j]) /\ metas[j].onBind = metas[i].onBind =>
              metas[j].type = "Ajax" /\ metas[j].hash

IsPage(p) ==
    /\ Element \subseteq DOMAIN p.metas /\ "" \notin DOMAIN p.metas
    /\ p.order \in Seq(Element) /\ \A e \in Element : \E i \in DOMAIN p.order : p.order[i] = e
    /\ \A i, j \in DOMAIN p.order : p.order[i] = p.order[j] => i = j
    /\ p.events \in Nat
    /\ \A h \in p.hashes : IsHash(h)
    /\ \A r \in p.outcomes.redirect : IsHash(r.hash)
    /\ p.reloads # "" => p.reloads \in Element
    /\ \A name \in DOMAIN p.metas :
          LET metas == p.metas[name]
          IN  /\ metas \in Seq(ToSet(metas))
              /\ p.reloads # "" => ShowsHash(p, metas)
              /\ \A i \in DOMAIN metas :
                    /\ metas[i].type = "Attach" => metas[i].arg \in DOMAIN p.metas
                    /\ metas[i].delay = "interval" => metas[i].intervalId \in Id
                    /\ metas[i].type = "Store" =>
                          LET c == metas[i].change
                          IN  c.prefix \in ToSet(PrefixOrder) /\ c.key # NoKey /\ IsText(c.value)

ASSUME PageAssumption == \A p \in Page : IsPage(p)

BeforeOf(e, r, type) == Select(e, r, LAMBDA m : ListOf(m, Before) /\ type \in m.onBind)
BreakesOf(e, r, type) == Select(e, r, LAMBDA m : ListOf(m, Breakes) /\ type \in m.onBind)
ActionsOf(e, r, type) == Select(e, r, LAMBDA m : IsAction(m) /\ type \in m.onBind)
CallbacksOf(x, status) ==
    Select(x[1], x[2], LAMBDA m : ListOf(m, status) /\ m.onBind = Meta(x).onBind)

\* a mutant form: an event that is there is kept
KeepEvent(xs, ev) ==
    LET e == xs[1][1]  r == xs[1][2]  at == {xs[i][3] : i \in DOMAIN xs}
    IN  runs' = IF xs = <<>> THEN runs
                ELSE [runs EXCEPT ![e][r].event =
                        [i \in DOMAIN @ |-> IF i \in at /\ @[i] = NoEvent THEN ev ELSE @[i]]]

\* filterExecutableByEvent stores the event in every executable it lets pass.
StoreEvent(xs, ev) ==
    LET e == xs[1][1]  r == xs[1][2]  at == {xs[i][3] : i \in DOMAIN xs}
    IN  runs' = IF xs = <<>> THEN runs
                ELSE [runs EXCEPT ![e][r].event = [i \in DOMAIN @ |-> IF i \in at THEN ev ELSE @[i]]]

\* ConditionalBase.isSatisfied
Satisfied(x, c) == (ResultOf(x).n > 0) # c.inverse

\* isValid: one of the lists of conditions holds
IsValid(x) ==
    \/ Meta(x).ands = {}
    \/ \E and \in Meta(x).ands : and # {} /\ \A c \in and : Satisfied(x, c)

-------------------------------------------------------------------------------
(* Operations *)

Doc == <<"document", 0>>

FireOp(type, site, data) == [op |-> "fire", type |-> type, site |-> site, data |-> data]
ExecuteOp(x, ev) == [op |-> "execute", x |-> x, ev |-> ev]
RunOp(x, ev) == [op |-> "run", x |-> x, ev |-> ev]
CompleteOp(x, ev, result) == [op |-> "complete", x |-> x, ev |-> ev, result |-> result]
ThrowOp(kind) == [op |-> "throw", kind |-> kind]
ParseOp(e) == [op |-> "parse", context |-> e]
InvokeOp(site, ev) == [op |-> "invoke", site |-> site, ev |-> ev]

Each(xs, Op(_)) == [i \in DOMAIN xs |-> Op(xs[i])]

At(op) == todo # <<>> /\ todo[1].op = op
Do(ops) == todo' = ops \o Tail(todo)

AtRun(type) == At("run") /\ Meta(todo[1].x).type = type

Present(site) == site[1] \in Element /\ node[site[1]] = site[2] /\ site[2] > 0

\* the elements inside e
Inside(e) == {d \in Element \ {e} : \E i \in DOMAIN Path[d] : Path[d][i] = e}

-------------------------------------------------------------------------------
(* IncodingMetaElement and jQuery events *)

\* jQuery.trigger: the event bubbles from a present element to document; an element that
\* was removed has no handlers and nothing around it.
Fire ==
    /\ At("fire")
    /\ LET f == todo[1]
           path == IF Present(f.site)
                      THEN [i \in DOMAIN Path[f.site[1]] |->
                              <<Path[f.site[1]][i], node[Path[f.site[1]][i]]>>] \o <<Doc>>
                      ELSE IF f.site = Doc THEN <<Doc>> ELSE <<>>
       IN  /\ Do(<<[op |-> "dispatch", path |-> path,
                    ev |-> [type |-> f.type, n |-> clock + 1, data |-> f.data]]>>)
           /\ history' = [history EXCEPT !.unheard =
                            @ \/ (f.type = "incajaxcomplete" /\ path = <<>>)]
    /\ clock' = clock + 1
    /\ UNCHANGED <<dom, requests, storage, timing, navigation, shown, rest>>

\* The handlers one site has for a type, in the order they were bound.
Handlers(site, type) ==
    IF site = Doc THEN Those(docBinds, LAMBDA b : b.type = type)
    ELSE IF Present(site) THEN Those(binds[site[1]], LAMBDA b : type \in b.events)
    ELSE <<>>

\* the handlers bind() makes; a handler of document keeps the element it was made for
Stops(b) == b.status \in {StopPropagation, CancelAll} \/ b.events = {"incoding"}

Dispatch ==
    /\ At("dispatch")
    /\ LET d == todo[1]
       IN  IF d.path = <<>> THEN Do(<<>>) /\ UNCHANGED history
           ELSE LET site == d.path[1]
                    hs == Handlers(site, d.ev.type)
                    stopped == site # Doc /\ \E i \in DOMAIN hs : Stops(hs[i])
                IN  /\ Do([i \in DOMAIN hs |->
                              InvokeOp(IF site = Doc THEN hs[i].site ELSE site, d.ev)]
                          \o IF stopped THEN <<>> ELSE <<[d EXCEPT !.path = Tail(@)]>>)
                    /\ history' = IF site # Doc THEN history
                                  ELSE CASE d.ev.type = "incajaxbefore" -> [history EXCEPT !.busy = @ + 1]
                                         [] d.ev.type = "incajaxcomplete" -> [history EXCEPT !.busy = @ - 1]
                                         [] OTHER -> history
    /\ UNCHANGED <<dom, requests, storage, timing, navigation, shown, clock, rest>>

\* invoke, and DoIt up to the executables before the action
Invoke ==
    /\ At("invoke")
    /\ LET site == todo[1].site  ev == todo[1].ev  e == site[1]
       IN  IF ~ Present(site) \/ runner[e] = 0
              THEN Do(<<>>) /\ UNCHANGED <<runs, history>>
              ELSE LET r == runner[e]
                       xs == BeforeOf(e, r, ev.type)
                   IN  /\ StoreEvent(xs, ev)
                       /\ Do(Each(xs, LAMBDA x : ExecuteOp(x, ev))
                             \o <<[op |-> "catch", e |-> e, r |-> r, ev |-> ev],
                                  [op |-> "actions", e |-> e, r |-> r, ev |-> ev]>>)
                       /\ history' = [history EXCEPT
                             !.handled = @ \cup {<<e, r, ev.n>>},
                             !.twice = IF \/ \E q \in DOMAIN runs[e] : <<e, q, ev.n>> \in history.handled
                                          \/ (ev.type = InitIncoding /\ <<e, r>> \in history.started)
                                          THEN @ \cup {<<e, ev.type>>} ELSE @,
                             !.started = IF ev.type = InitIncoding THEN @ \cup {<<e, r>>} ELSE @]
    /\ UNCHANGED <<node, attr, runner, binds, docBinds, requests, storage, timing, navigation,
                   shown, clock, rest>>

-------------------------------------------------------------------------------
(* IncodingRunner.DoIt *)

\* The end of the try around the executables before the action.
CatchNothing ==
    /\ At("catch")
    /\ Do(<<>>)
    /\ UNCHANGED <<dom, requests, storage, timing, navigation, shown, clock, rest, history>>

Actions ==
    /\ At("actions")
    /\ LET a == todo[1]  xs == ActionsOf(a.e, a.r, a.ev.type)
       IN  /\ StoreEvent(xs, a.ev)
           /\ Do(Each(xs, LAMBDA x : [op |-> "action", x |-> x, ev |-> a.ev]))
           /\ history' = [history EXCEPT !.acted = @ \cup {<<a.e, a.r, a.ev.n>>}]
    /\ UNCHANGED <<node, attr, runner, binds, docBinds, requests, storage, timing, navigation,
                   shown, clock, rest>>

Action ==
    /\ At("action")
    /\ LET x == todo[1].x
       IN  /\ StoreEvent(CallbacksOf(x, Success) \o CallbacksOf(x, Error)
                         \o CallbacksOf(x, Complete) \o CallbacksOf(x, Breakes), todo[1].ev)
           /\ Do(<<ExecuteOp(x, todo[1].ev)>>)
    /\ UNCHANGED <<node, attr, runner, binds, docBinds, requests, storage, timing, navigation,
                   shown, clock, rest, history>>

\* a mutant form: a name keeps the interval it was given first
NameOnce(m, n) == [intervalIds EXCEPT ![m.intervalId] = IF @ = 0 THEN n ELSE @]

NameInterval(m, n) == [intervalIds EXCEPT ![m.intervalId] = n]

\* ExecutableBase.execute: skipped, delayed, repeated or run
Execute ==
    /\ At("execute")
    /\ LET x == todo[1].x  ev == todo[1].ev  m == Meta(x)
           waiting == [x |-> x, ev |-> ev, n |-> clock + 1]
       IN  \/ /\ ~ IsValid(x)
              /\ Do(<<>>)
              /\ UNCHANGED <<timing, clock, history>>
           \/ /\ IsValid(x) /\ m.delay = "none"
              /\ Do(<<RunOp(x, ev)>>)
              /\ UNCHANGED <<timing, clock, history>>
           \/ /\ IsValid(x) /\ m.delay = "timeOut"
              /\ Do(<<>>)
              /\ timers' = timers \cup {waiting}
              /\ clock' = clock + 1
              /\ UNCHANGED <<intervals, intervalIds, history>>
           \/ /\ IsValid(x) /\ m.delay = "interval"
              /\ Do(<<>>)
              /\ intervals' = intervals \cup {waiting}
              /\ intervalIds' = NameInterval(m, clock + 1)
              /\ clock' = clock + 1
              /\ history' = [history EXCEPT !.restarted =
                    IF \E w \in intervals : Meta(w.x).intervalId = m.intervalId
                       THEN @ \cup {m.intervalId} ELSE @]
              /\ UNCHANGED timers
    /\ UNCHANGED <<dom, requests, storage, navigation, shown, rest>>

\* An executable that waits for a time-out or, as a callback, for its action.
RunsLate(x) ==
    \/ Meta(x).delay # "none"
    \/ \E m \in ToSet(page.metas[RunOf(x).name]) :
          /\ IsAction(m) /\ m.onBind = Meta(x).onBind
          /\ m.type \in {"Ajax", "Submit"} \/ m.delay # "none"

\* What an executable sees when it runs at last.
Seen(x, ev) == [history EXCEPT !.mixed =
    IF EventOf(x).n = ev.n \/ RunsLate(x) THEN @ ELSE @ \cup {<<ev.n, EventOf(x).n>>}]

-------------------------------------------------------------------------------
(* Actions and their completion *)

Result(success, data, redirect) == [success |-> success, data |-> data, redirect |-> redirect]
NoRedirect == [to |-> "nowhere", hash |-> NoHash]
ToPage == [to |-> "page", hash |-> NoHash]
ToHash(h) == [to |-> "hash", hash |-> h]

\* ExecutableDirectAction and ExecutableEventAction complete at once.
Direct ==
    /\ AtRun("Direct")
    /\ LET o == todo[1]
       IN  /\ Do(<<CompleteOp(o.x, o.ev, Result(TRUE, NoData, NoRedirect))>>)
           /\ history' = Seen(o.x, o.ev)
    /\ UNCHANGED <<dom, requests, storage, timing, navigation, shown, clock, rest>>

Event ==
    /\ AtRun("Event")
    /\ LET o == todo[1]
       IN  /\ Do(<<CompleteOp(o.x, o.ev, Result(TRUE, EventOf(o.x).data, NoRedirect))>>)
           /\ history' = Seen(o.x, o.ev)
    /\ UNCHANGED <<dom, requests, storage, timing, navigation, shown, clock, rest>>

\* a mutant form: only the parameters of the prefix root
AskedOfRoot(m) ==
    IF m.hash THEN [pk \in {q \in DOMAIN Parse(hash) : q[1] = "root"} |-> Parse(hash)[pk]] ELSE <<>>

\* What an action that reads the hash asks for: all parameters, of every prefix.
Asked(m) == IF m.hash THEN Parse(hash) ELSE <<>>

\* the answer to a request in the local cache, at most one
Cached(key) == {s \in storage : s.key = key}

\* ExecutableAjaxAction and AjaxAdapter.request up to beforeSend; an answer in the local
\* cache completes the action at once.
Ajax ==
    /\ AtRun("Ajax")
    /\ LET o == todo[1]  m == Meta(o.x)  asked == Asked(m)
           data == [n |-> clock + 1, asked |-> asked]
           seen == Seen(o.x, o.ev)
           noted == IF m.hash THEN [seen EXCEPT !.asks = Append(@, asked), !.newest = clock + 1]
                    ELSE seen
           hits == IF m.localCache THEN Cached(<<m.arg, asked>>) ELSE {}
       IN  \/ \E s \in hits :
                 /\ Do(<<FireOp("incajaxsuccess", Self(o.x), NoData),
                         CompleteOp(o.x, o.ev, s.value)>>)
                 /\ history' = [noted EXCEPT !.answered =
                                  [n |-> clock + 1, success |-> s.value.success]]
           \/ /\ hits = {}
              /\ Do(<<FireOp("incajaxbefore", Self(o.x), NoData),
                      [op |-> "send", x |-> o.x, ev |-> o.ev, data |-> data]>>)
              /\ history' = noted
    /\ clock' = clock + 1
    /\ UNCHANGED <<dom, requests, storage, timing, navigation, shown, rest>>

\* ExecutableSubmitAction: a form that is not valid is not sent.
Submit ==
    /\ AtRun("Submit")
    /\ LET o == todo[1]  data == [n |-> clock + 1, asked |-> <<>>]
       IN  /\ \/ Do(<<>>)
              \/ Do(<<FireOp("incajaxbefore", Doc, NoData),
                      [op |-> "send", x |-> o.x, ev |-> o.ev, data |-> data]>>)
           /\ history' = Seen(o.x, o.ev)
    /\ clock' = clock + 1
    /\ UNCHANGED <<dom, requests, storage, timing, navigation, shown, rest>>

Send ==
    /\ At("send")
    /\ LET o == todo[1]
       IN  requests' = requests \cup {[x |-> o.x, ev |-> o.ev, data |-> o.data]}
    /\ Do(<<>>)
    /\ UNCHANGED <<dom, storage, timing, navigation, shown, clock, rest, history>>

\* LocalStorageFactory.Set: a storage that is full is cleared, before or instead.
Store ==
    /\ At("store")
    /\ LET item == [key |-> todo[1].key, value |-> todo[1].value]
           others == {s \in storage : s.key # item.key}
       IN  \/ storage' = others \cup {item}
           \/ page.full /\ storage' \in {{}, {item}}
    /\ Do(<<>>)
    /\ UNCHANGED <<dom, requests, timing, navigation, shown, clock, rest, history>>

\* RedirectTo: the hash that is there already only reloads what depends on it; another one
\* is announced by the browser in tasks of their own, another page ends this one.
RedirectTo(r, after) ==
    \/ /\ r.to = "hash" /\ hash # NoHash /\ SameHash(r.hash, hash)
       /\ Do(<<FireOp(ChangeUrl, Doc, NoData)>> \o after)
       /\ UNCHANGED navigation
    \/ /\ r.to = "hash" /\ ~ (hash # NoHash /\ SameHash(r.hash, hash))
       /\ hash' = r.hash
       /\ \E announced \in page.announced : tasks' = tasks \o announced
       /\ Do(after)
       /\ UNCHANGED leaving
    \/ /\ r.to = "page"
       /\ leaving' = TRUE
       /\ Do(after)
       /\ UNCHANGED <<hash, tasks>>

\* complete: the executables on success or error, those on complete and, if one of them
\* broke, those on break
Completed ==
    /\ At("complete")
    /\ LET o == todo[1]
           Call(last, y) == [op |-> "callback", x |-> y, ev |-> o.ev, data |-> o.result.data,
                             last |-> last]
           main == CallbacksOf(o.x, IF o.result.success THEN Success ELSE Error)
       IN  IF o.result.redirect # NoRedirect
              THEN RedirectTo(o.result.redirect, <<>>)
              ELSE /\ Do(Each(main \o CallbacksOf(o.x, Complete), LAMBDA y : Call(FALSE, y))
                         \o <<[op |-> "breakes", hasBreak |-> FALSE,
                               callbacks |-> Each(CallbacksOf(o.x, Breakes), LAMBDA y : Call(TRUE, y))]>>)
                   /\ UNCHANGED navigation
    /\ UNCHANGED <<dom, requests, storage, timing, shown, clock, rest, history>>

\* executeState
Callback ==
    /\ At("callback")
    /\ LET o == todo[1]  x == o.x
       IN  /\ runs' = [runs EXCEPT ![x[1]][x[2]].result[x[3]] = o.data]
           /\ Do(<<ExecuteOp(x, o.ev), [op |-> "caught", x |-> x, last |-> o.last]>>)
    /\ UNCHANGED <<node, attr, runner, binds, docBinds, requests, storage, timing, navigation,
                   shown, clock, rest, history>>

CaughtNothing ==
    /\ At("caught")
    /\ Do(<<>>)
    /\ UNCHANGED <<dom, requests, storage, timing, navigation, shown, clock, rest, history>>

BreakCallbacks ==
    /\ At("breakes")
    /\ Do(IF todo[1].hasBreak THEN todo[1].callbacks ELSE <<>>)
    /\ UNCHANGED <<dom, requests, storage, timing, navigation, shown, clock, rest, history>>

-------------------------------------------------------------------------------
(* Exceptions *)

\* The try of executeState catches everything, that of DoIt what a Break throws.
Catches(o, kind) == o.op = "caught" \/ (o.op = "catch" /\ kind = "break")

Catchers(kind) == {i \in DOMAIN todo : Catches(todo[i], kind)}
FirstOf(S) == CHOOSE i \in S : \A j \in S : i <= j

\* What is dropped without having begun.
Dropped(ops) ==
    {o.type : o \in {p \in ToSet(ops) : p.op = "fire"}}
    \cup {o.ev.type : o \in {p \in ToSet(ops) : p.op \in {"invoke", "dispatch", "actions", "action"}}}
    \cup {o.op : o \in {p \in ToSet(ops) : p.op \in {"callback", "complete", "send"}}}

After(i) == SubSeq(todo, i + 1, Len(todo))

\* Nobody catches it: the task ends.
Uncaught ==
    /\ At("throw") /\ Catchers(todo[1].kind) = {}
    /\ todo' = <<>>
    /\ history' = [history EXCEPT !.dropped = @ \cup Dropped(todo)]
    /\ UNCHANGED <<dom, requests, storage, timing, navigation, shown, clock, rest>>

\* a mutant form: the actions run after the executables on break
BreakBeforeGoesOn ==
    /\ At("throw") /\ Catchers(todo[1].kind) # {}
    /\ LET i == FirstOf(Catchers(todo[1].kind))  c == todo[i]
       IN  /\ c.op = "catch"
           /\ LET xs == BreakesOf(c.e, c.r, c.ev.type)
              IN  /\ StoreEvent(xs, c.ev)
                  /\ todo' = Each(xs, LAMBDA x : ExecuteOp(x, c.ev)) \o After(i)
    /\ UNCHANGED <<node, attr, runner, binds, docBinds, requests, storage, timing, navigation,
                   shown, clock, rest, history>>

\* A Break before the action: the executables on break run instead of the actions.
BreakBefore ==
    /\ At("throw") /\ Catchers(todo[1].kind) # {}
    /\ LET i == FirstOf(Catchers(todo[1].kind))  c == todo[i]
       IN  /\ c.op = "catch"
           /\ LET xs == BreakesOf(c.e, c.r, c.ev.type)
              IN  /\ StoreEvent(xs, c.ev)
                  /\ todo' = Each(xs, LAMBDA x : ExecuteOp(x, c.ev)) \o After(i + 1)
           /\ history' = [history EXCEPT !.dropped = @ \cup Dropped(SubSeq(todo, 1, i))]
    /\ UNCHANGED <<node, attr, runner, binds, docBinds, requests, storage, timing, navigation,
                   shown, clock, rest>>

\* A Break in executeState is remembered for the executables on break, the last to run; the
\* loops over the others go on.
BreakCallback ==
    /\ At("throw") /\ todo[1].kind = "break" /\ Catchers("break") # {}
    /\ LET i == FirstOf(Catchers("break"))
           after == After(i)
           j == FirstOf({k \in DOMAIN after : after[k].op = "breakes"})
       IN  /\ todo[i].op = "caught"
           /\ todo' = IF todo[i].last THEN after ELSE [after EXCEPT ![j].hasBreak = TRUE]
           /\ history' = [history EXCEPT !.dropped = @ \cup Dropped(SubSeq(todo, 1, i))]
    /\ UNCHANGED <<dom, requests, storage, timing, navigation, shown, clock, rest>>

\* Any other exception in executeState is announced and thrown again.
RethrowCallback ==
    /\ At("throw") /\ todo[1].kind = "error" /\ Catchers("error") # {}
    /\ LET i == FirstOf(Catchers("error"))
       IN  /\ todo' = <<FireOp("incglobalerror", Self(todo[i].x), NoData), ThrowOp("error")>>
                      \o After(i)
           /\ history' = [history EXCEPT !.dropped = @ \cup Dropped(SubSeq(todo, 1, i))]
    /\ UNCHANGED <<dom, requests, storage, timing, navigation, shown, clock, rest>>

-------------------------------------------------------------------------------
(* IncodingEngine.parse *)

\* a mutant form: every position
AllBinds(metas) == [i \in DOMAIN metas |-> i]

\* the positions whose string onBind occurs for the first time
FirstBinds(metas) ==
    InOrder({i \in DOMAIN metas : \A j \in 1..(i - 1) : metas[j].onBind # metas[i].onBind})

HasInit(metas) == \E i \in DOMAIN metas : InitIncoding \in metas[i].onBind

\* What bind attaches to the element: without the events of document, unless all is canceled.
ElementBinds(metas) ==
    LET Handler(i) == [events |-> metas[i].onBind \
                                     ({InitIncoding} \cup IF metas[i].onEventStatus = CancelAll
                                                             THEN {} ELSE DocumentBinds),
                       status |-> metas[i].onEventStatus]
    IN  Those(Each(FirstBinds(metas), Handler), LAMBDA b : b.events # {})
        \o IF HasInit(metas) THEN <<[events |-> {InitIncoding}, status |-> CancelAll]>> ELSE <<>>

\* and to document
DocumentBindsOf(metas, site) ==
    LET Of(i) == IF metas[i].onEventStatus = CancelAll THEN {} ELSE metas[i].onBind \cap DocumentBinds
        Handlers1(i) == LET types == SetToSeq(Of(i))
                        IN  Each(types, LAMBDA t : [type |-> t, site |-> site])
    IN  FlattenSeq(Each(FirstBinds(metas), Handlers1))

\* a mutant form: the context itself but nothing inside it
UnparsedItself(context) ==
    Those(page.order, LAMBDA e : /\ node[e] > 0 /\ attr[e] # ""
                                 /\ context = "document" \/ e = context)

\* The elements of the context that still have the attribute, in document order.
Unparsed(context) ==
    Those(page.order, LAMBDA e :
        /\ node[e] > 0 /\ attr[e] # ""
        /\ context = "document" \/ e = context \/ e \in Inside(context))

ParseContext ==
    /\ At("parse")
    /\ LET es == Unparsed(todo[1].context)
           S == ToSet(es)
           MetasOf(e) == page.metas[attr[e]]
           NewRun(e) == [name |-> attr[e], incarnation |-> node[e],
                         event |-> [i \in DOMAIN MetasOf(e) |-> NoEvent],
                         result |-> [i \in DOMAIN MetasOf(e) |-> NoData]]
           deferred == Those(es, LAMBDA e : HasInit(MetasOf(e)))
       IN  /\ runs' = [e \in Element |-> IF e \in S THEN Append(runs[e], NewRun(e)) ELSE runs[e]]
           /\ runner' = [e \in Element |-> IF e \in S THEN Len(runs[e]) + 1 ELSE runner[e]]
           /\ attr' = [e \in Element |-> IF e \in S THEN "" ELSE attr[e]]
           /\ binds' = [e \in Element |-> IF e \in S THEN binds[e] \o ElementBinds(MetasOf(e))
                                          ELSE binds[e]]
           /\ docBinds' = docBinds \o
                 FlattenSeq(Each(es, LAMBDA e : DocumentBindsOf(MetasOf(e), <<e, node[e]>>)))
           /\ Do([i \in DOMAIN deferred |->
                     InvokeOp(<<deferred[i], node[deferred[i]]>>,
                              [type |-> InitIncoding, n |-> clock + i, data |-> NoData])])
           /\ clock' = clock + Len(deferred)
    /\ UNCHANGED <<node, requests, storage, timing, navigation, shown, rest, history>>

-------------------------------------------------------------------------------
(* Executables that are no actions *)

\* a mutant form: innerHTML instead of jQuery's html
Uncleaned(f, old, empty) == f

\* what jQuery keeps of elements is dropped with them
Cleaned(f, old, empty) == [e \in Element |-> IF e \in old THEN empty ELSE f[e]]

\* ExecutableInsert, html: what was inside the target is removed with its handlers and data,
\* what comes instead is parsed.  A template that is empty throws before.  incinsert is
\* triggered on self, which is window here.
Insert ==
    /\ AtRun("Insert")
    /\ LET o == todo[1]  m == Meta(o.x)  data == ResultOf(o.x)
           old == Inside(m.target)
           new == IF data = NoData THEN {} ELSE old
       IN  \/ /\ m.arg = "emptyTemplate"
              /\ Do(<<ThrowOp("error")>>)
              /\ UNCHANGED <<dom, shown>>
           \/ /\ m.arg # "emptyTemplate" /\ node[m.target] = 0
              /\ Do(<<FireOp("incinsert", <<"window", 0>>, NoData)>>)
              /\ UNCHANGED <<dom, shown>>
           \/ /\ m.arg # "emptyTemplate" /\ node[m.target] > 0
              /\ Do(<<ParseOp(m.target), FireOp("incinsert", <<"window", 0>>, NoData)>>)
              /\ node' = [e \in Element |-> IF e \in new THEN clock + 1
                                            ELSE IF e \in old THEN 0 ELSE node[e]]
              /\ attr' = [e \in Element |-> IF e \in new THEN e ELSE IF e \in old THEN "" ELSE attr[e]]
              /\ runner' = Cleaned(runner, old, 0)
              /\ binds' = Cleaned(binds, old, <<>>)
              /\ shown' = [shown EXCEPT ![m.target] = data]
              /\ UNCHANGED <<runs, docBinds>>
    /\ clock' = clock + 1
    /\ history' = Seen(todo[1].x, todo[1].ev)
    /\ UNCHANGED <<requests, storage, timing, navigation, rest>>

\* ExecutableTrigger
Trigger ==
    /\ AtRun("Trigger")
    /\ LET o == todo[1]  m == Meta(o.x)
       IN  /\ Do(<<FireOp(m.arg, <<m.target, node[m.target]>>, ResultOf(o.x))>>)
           /\ history' = Seen(o.x, o.ev)
    /\ UNCHANGED <<dom, requests, storage, timing, navigation, shown, clock, rest>>

\* ExecutableBreak
Break ==
    /\ AtRun("Break")
    /\ Do(<<ThrowOp("break")>>)
    /\ LET x == todo[1].x
       IN  history' = [Seen(x, todo[1].ev) EXCEPT !.broken =
              IF ListOf(Meta(x), Before) /\ Meta(x).delay = "none"
                 THEN @ \cup {<<x[1], x[2], todo[1].ev.n>>} ELSE @]
    /\ UNCHANGED <<dom, requests, storage, timing, navigation, shown, clock, rest>>

\* ExecutableEval: code of the application, which may throw or clear an interval
Eval ==
    /\ AtRun("Eval")
    /\ LET m == Meta(todo[1].x)
       IN  /\ Do(IF m.arg = "throw" THEN <<ThrowOp("error")>> ELSE <<>>)
           /\ intervals' = IF m.arg = "clear" THEN {w \in intervals : w.n # intervalIds[m.intervalId]}
                           ELSE intervals
           /\ history' = Seen(todo[1].x, todo[1].ev)
    /\ UNCHANGED <<dom, requests, storage, timers, intervalIds, navigation, shown, clock, rest>>

\* setFparam or removeFparam of one parameter
Change(fp, c) ==
    IF c.verb = "remove" \/ (c.verb = "insert" /\ c.value = Empty)
       THEN RemoveFparam(fp, c.prefix, c.key)
       ELSE SetFparam(fp, c.prefix, c.key, c.value)

\* The parameters after ExecutableStoreInsert (verb insert: one element of a form) or
\* ExecutableStoreManipulate (verb set or remove).
Changed(c) ==
    LET fp == CASE c.verb = "insert" /\ c.replace -> NoFparams
                [] c.verb = "insert" /\ ~ c.replace -> Fparams(hash)
                [] OTHER -> EncodeAllParams(Fparams(hash))
    IN  Change(fp, c)

\* fp and href are bound so that TLC evaluates them once.
HashStore ==
    /\ AtRun("Store")
    /\ \E fp \in {Changed(Meta(todo[1].x).change)} : \E href \in {ToHref(hash, fp)} :
          RedirectTo(IF href = NoHash THEN ToPage ELSE ToHash(href), <<>>)
    /\ history' = Seen(todo[1].x, todo[1].ev)
    /\ UNCHANGED <<dom, requests, storage, timing, shown, clock, rest>>

\* ExecutableBind
Attach ==
    /\ AtRun("Attach")
    /\ LET m == Meta(todo[1].x)
       IN  IF node[m.target] = 0
              THEN Do(<<>>) /\ UNCHANGED <<runner, attr>>
              ELSE /\ Do(<<ParseOp(m.target)>>)
                   /\ runner' = [runner EXCEPT ![m.target] = 0]
                   /\ attr' = [attr EXCEPT ![m.target] = m.arg]
    /\ history' = Seen(todo[1].x, todo[1].ev)
    /\ UNCHANGED <<node, runs, binds, docBinds, requests, storage, timing, navigation, shown,
                   clock, rest>>

\* unbind one event or all; the handlers on document stay
Detach ==
    /\ AtRun("Detach")
    /\ LET m == Meta(todo[1].x)
           Left(b) == [b EXCEPT !.events = IF m.arg = "" THEN {} ELSE @ \ {m.arg}]
       IN  binds' = [binds EXCEPT ![m.target] =
                        Those(Each(@, Left), LAMBDA b : b.events # {})]
    /\ Do(<<>>)
    /\ history' = Seen(todo[1].x, todo[1].ev)
    /\ UNCHANGED <<node, attr, runs, runner, docBinds, requests, storage, timing, navigation,
                   shown, clock, rest>>

-------------------------------------------------------------------------------
(* Tasks *)

Idle == todo = <<>> /\ ~ leaving

Init ==
    /\ page \in Page
    /\ node = [e \in Element |-> IF e \in page.initial THEN 1 ELSE 0]
    /\ attr = [e \in Element |-> IF e \in page.initial THEN e ELSE ""]
    /\ runs = [e \in Element |-> <<>>]
    /\ runner = [e \in Element |-> 0]
    /\ binds = [e \in Element |-> <<>>]
    /\ docBinds = <<>>
    /\ todo = <<ParseOp("document")>>
    /\ requests = {} /\ storage = {} /\ timers = {} /\ intervals = {}
    /\ intervalIds = [i \in Id |-> 0]
    /\ hash \in page.hashes
    /\ tasks = <<>> /\ leaving = FALSE
    /\ shown = [e \in Element |-> NoData]
    /\ clock = 1 /\ events = 0 /\ ticks = 0
    /\ history = [busy |-> 0, handled |-> {}, twice |-> {}, started |-> {}, acted |-> {},
                  broken |-> {}, mixed |-> {}, restarted |-> {}, dropped |-> {},
                  unheard |-> FALSE, asks |-> <<>>, newest |-> 0,
                  answered |-> [n |-> 0, success |-> TRUE]]

\* The user, or code that is not modelled, triggers an event on an element.
User ==
    /\ Idle /\ events < page.events
    /\ \E u \in page.user :
          /\ node[u[2]] > 0
          /\ todo' = <<FireOp(u[1], <<u[2], node[u[2]]>>, NoData)>>
    /\ events' = events + 1
    /\ UNCHANGED <<page, ticks, dom, requests, storage, timing, navigation, shown, clock, history>>

\* The user follows a link to another hash or goes back to one.
Navigate ==
    /\ Idle /\ events < page.events
    /\ \E h \in page.hashes \ {hash, NoHash}, announced \in page.announced :
          hash' = h /\ tasks' = tasks \o announced
    /\ events' = events + 1
    /\ UNCHANGED <<page, ticks, dom, todo, requests, storage, timing, leaving, shown, clock, history>>

\* a mutant form: nothing is triggered
AnnounceNothing ==
    /\ Idle /\ tasks # <<>>
    /\ tasks' = Tail(tasks)
    /\ UNCHANGED <<dom, todo, requests, storage, timing, hash, leaving, shown, clock, rest, history>>

\* The callback of $.history and the listener of popstate do the same.
Announce ==
    /\ Idle /\ tasks # <<>>
    /\ todo' = <<FireOp(ChangeUrl, Doc, NoData)>>
    /\ tasks' = Tail(tasks)
    /\ UNCHANGED <<dom, requests, storage, timing, hash, leaving, shown, clock, rest, history>>

IsSubmit(r) == Meta(r.x).type = "Submit"

\* The server answers, with success or not: the success callback of AjaxAdapter or Submit.
Answer(r) ==
    /\ Idle
    /\ \E success \in page.outcomes.success, redirect \in page.outcomes.redirect :
          LET result == Result(success, r.data, redirect)
              site == IF IsSubmit(r) THEN Doc ELSE Self(r.x)
              done == FireOp("incajaxcomplete", site, r.data)
              complete == CompleteOp(r.x, r.ev, result)
              kept == IF Meta(r.x).localCache
                         THEN <<[op |-> "store", key |-> <<Meta(r.x).arg, r.data.asked>>,
                                   value |-> result]>> ELSE <<>>
          IN  /\ todo' = <<FireOp("incajaxsuccess", site, r.data)>>
                         \o IF IsSubmit(r) THEN <<done, complete>>
                            ELSE kept \o <<complete, done>>
              /\ history' = IF Meta(r.x).hash
                               THEN [history EXCEPT !.answered =
                                       [n |-> r.data.n, success |-> success /\ redirect = NoRedirect]]
                               ELSE history
    /\ requests' = requests \ {r}
    /\ UNCHANGED <<dom, storage, timing, navigation, shown, clock, rest>>

\* a mutant form: the failure is not completed
FailUncompleted(r) ==
    /\ Idle /\ page.outcomes.fails
    /\ todo' = <<FireOp("incajaxerror", Self(r.x), NoData)>>
    /\ requests' = requests \ {r}
    /\ UNCHANGED <<dom, storage, timing, navigation, shown, clock, rest, history>>

\* The request fails, by its status or on the way: no executable runs.
Fail(r) ==
    /\ Idle /\ page.outcomes.fails
    /\ todo' = <<FireOp("incajaxerror", Self(r.x), NoData), FireOp("incajaxcomplete", Self(r.x), NoData)>>
    /\ requests' = requests \ {r}
    /\ history' = IF Meta(r.x).hash
                     THEN [history EXCEPT !.answered = [n |-> r.data.n, success |-> FALSE]]
                     ELSE history
    /\ UNCHANGED <<dom, storage, timing, navigation, shown, clock, rest>>

TimeOut ==
    /\ Idle
    /\ \E w \in timers : todo' = <<RunOp(w.x, w.ev)>> /\ timers' = timers \ {w}
    /\ UNCHANGED <<dom, requests, storage, intervals, intervalIds, navigation, shown, clock, rest, history>>

Tick ==
    /\ Idle /\ ticks < MaxTicks
    /\ \E w \in intervals : todo' = <<RunOp(w.x, w.ev)>>
    /\ ticks' = ticks + 1
    /\ UNCHANGED <<page, events, dom, requests, storage, timing, navigation, shown, clock, history>>

Step ==
    \/ Fire \/ Dispatch \/ Invoke
    \/ CatchNothing \/ Actions \/ Action \/ Execute
    \/ Direct \/ Event \/ Ajax \/ Submit \/ Send \/ Store
    \/ Completed \/ Callback \/ CaughtNothing \/ BreakCallbacks
    \/ Uncaught \/ BreakBefore \/ BreakCallback \/ RethrowCallback
    \/ ParseContext
    \/ Insert \/ Trigger \/ Break \/ Eval \/ HashStore \/ Attach \/ Detach

Respond == \E r \in requests : Answer(r) \/ Fail(r)

Next == Step \/ User \/ Navigate \/ Announce \/ Respond \/ TimeOut \/ Tick

Spec == Init /\ [][Next]_vars

\* A task runs to its end, the browser gets to every task it has queued, and every request is
\* answered or fails.
FairSpec ==
    Spec /\ WF_vars(Step) /\ WF_vars(Announce) /\ WF_vars(Respond) /\ WF_vars(TimeOut)

-------------------------------------------------------------------------------
(* Properties *)

\* Every variable has its type, operations and requests refer to executables that exist, and
\* the runner of an element is one that was made for its present incarnation.
IsExecutable(x) == x[1] \in Element /\ x[2] \in DOMAIN runs[x[1]] /\ x[3] \in DOMAIN RunOf(x).event

TypeOK ==
    /\ page \in Page
    /\ node \in [Element -> Nat]
    /\ \A e \in Element : \/ runner[e] = 0
                         \/ /\ runner[e] \in DOMAIN runs[e]
                            /\ runs[e][runner[e]].incarnation = node[e]
    /\ \A i \in DOMAIN todo : todo[i].op \in {"execute", "run", "action", "callback", "caught",
                                           "complete", "send"} => IsExecutable(todo[i].x)
    /\ \A w \in requests \cup timers \cup intervals : IsExecutable(w.x)
    /\ intervalIds \in [Id -> Nat]
    /\ clock \in Nat /\ events \in 0..page.events /\ ticks \in 0..MaxTicks
    /\ leaving \in BOOLEAN

\* When a task has ended, every element of the page was parsed, and those whose attribute names
\* InitIncoding were initialised, unless an exception in one initialisation ended the others.
Initialised ==
    todo = <<>> => \A e \in Element : node[e] > 0 =>
        /\ runner[e] > 0
        /\ HasInit(page.metas[runs[e][runner[e]].name]) =>
              <<e, runner[e]>> \in history.started \/ InitIncoding \in history.dropped

\* And they were initialised once for each time they were parsed; parse removes the attribute
\* for that.
InitialisedOnce ==
    /\ \A w \in history.twice : w[2] # InitIncoding
    /\ Initialised

\* Two strings onBind name the type, or the element was bound again without an unbind.
BoundTwice(e, type) ==
    \/ \E q, r \in DOMAIN runs[e] : q # r /\ runs[e][q].incarnation = runs[e][r].incarnation
    \/ \E r \in DOMAIN runs[e] :
          LET metas == page.metas[runs[e][r].name]
          IN  \E i, j \in DOMAIN metas : /\ metas[i].onBind # metas[j].onBind
                                        /\ type \in metas[i].onBind \cap metas[j].onBind

\* bind is called for each distinct string onBind, not for each event: an element runs its
\* executables once for an event unless the event was bound twice.
HandledOnceUnlessBoundTwice == \A w \in history.twice : BoundTwice(w[1], w[2])

\* A Break before the action that is not delayed keeps the actions of the event from running,
\* whichever nested events and completions the executables before the action cause.
BreakPreventsActions == history.broken \cap history.acted = {}

\* The executables share one field for the event.  What waits neither for a time-out nor for
\* an answer sees its own event or one that was nested in it, never an earlier one.
NeverAnEarlierEvent == \A m \in history.mixed : m[2] > m[1]

\* A listener on document that counts IncAjaxBefore and IncAjaxComplete is back to zero when
\* nothing is in flight, unless the element was removed before its IncAjaxComplete or an
\* exception kept the event from being triggered.
Excused == history.unheard \/ history.dropped \cap {"incajaxbefore", "incajaxcomplete", "send"} # {}
IndicatorBalanced == todo = <<>> /\ requests = {} => history.busy = 0 \/ Excused

\* The hash-driven element of the page shows what belongs to the hash once everything that
\* was announced has been handled, unless the answer of an older request overtook the newest,
\* the last answer was no success, or an exception ended the reload.
Quiet == todo = <<>> /\ requests = {} /\ timers = {} /\ tasks = <<>> /\ ~ leaving
ContentBelongsToHash ==
    Quiet /\ page.reloads # "" =>
        \/ shown[page.reloads].asked = Parse(hash)
        \/ history.answered.n # history.newest
        \/ ~ history.answered.success
        \/ history.dropped \cap {"callback", "complete", "send", "incajaxcomplete"} # {}

\* Clearing an interval by its name stops it, unless it was started again while it ran: the
\* name then leads to the last one only.
ClearedIntervalStops ==
    \A id \in Id :
        (\A w \in intervals : w.n # intervalIds[id]) =>
            (\A w \in intervals : Meta(w.x).intervalId # id) \/ id \in history.restarted

\* Storing one parameter in the hash keeps the others and the route and can be read back: for
\* values that hold neither + nor an escape, nor a % beside what is escaped; under the prefixes
\* that have no value ending in !, which toHref runs together with the parameter after it; and
\* for the route while the hash has one prefix, which is root or keeps a parameter.  Only when
\* no parameter is left in the hash is the page left, and then it is, although a test expects of
\* an empty hash "#!" that it stays (inc-specifications.js:590-602).
OddPieces == {"plus", "escape", "doubled", "reservedEscaped", "bangEscaped"}
Odd(v) == ToSet(v) \cap OddPieces # {} \/ {"percent", "reserved"} \subseteq ToSet(v)
RunsOn(c, p) ==
    \/ p = c.prefix /\ EndsInBang(c.value)
    \/ \E pk \in DOMAIN Parse(hash) : pk[1] = p /\ EndsInBang(Parse(hash)[pk])
StoreStep(c) ==
    LET before == Parse(hash)  after == Parse(hash')  it == <<c.prefix, c.key>>
    IN  /\ ~ c.replace => \A pk \in DOMAIN before \ {it} :
              pk[2] = NoKey \/ Odd(before[pk]) \/ RunsOn(c, pk[1])
                 \/ (pk \in DOMAIN after /\ after[pk] = before[pk])
        /\ c.verb # "remove" /\ c.value # Empty /\ ~ RunsOn(c, c.prefix) =>
              it \in DOMAIN after /\ (Odd(c.value) \/ after[it] = c.value)
        /\ Len(hash) = 1 => LET p == hash[1].prefix
                            IN  p = "root" \/ (\E pk \in DOMAIN after : pk[1] = p) =>
                                   RouteOf(hash', p) = RouteOf(hash, p)
NothingLeft(c) ==
    /\ c.verb = "remove" \/ c.value = Empty
    /\ c.replace \/ DOMAIN Parse(hash) \subseteq {<<c.prefix, c.key>>, <<"root", NoKey>>}
StoreKeepsTheRest ==
    [][AtRun("Store") =>
          LET c == Meta(todo[1].x).change
          IN  IF leaving' THEN leaving \/ NothingLeft(c) ELSE StoreStep(c)]_vars

\* The count goes back to zero: every request ends.
IndicatorClears == history.busy > 0 ~> history.busy = 0 \/ Excused \/ leaving

\* The route of a prefix is read from the hash whatever other prefixes it holds.
RoutesRead == \A i \in DOMAIN PrefixOrder :
                 Furl(hash, PrefixOrder[i]) = RouteOf(hash, PrefixOrder[i])

\* The state of HashNavigation: of a page with an element that is driven by the hash, what the
\* hash asks for, the Ajax actions that read it, and what was inserted into the element.
HashDriven == page.reloads # ""
Reload == INSTANCE HashNavigation WITH
    hash <- IF HashDriven THEN Parse(hash) ELSE <<>>,
    asks <- IF HashDriven THEN history.asks ELSE <<>>,
    shown <- IF HashDriven /\ shown[page.reloads].n > 0 THEN <<shown[page.reloads].asked>> ELSE <<>>,
    gone <- leaving \/ ~ HashDriven

\* The hash-driven element asks for nothing but the hash of the moment, and what is inserted
\* into it answers something that was asked for: not the data of an event, of another Ajax, of
\* the answer that was there before or of the local cache under another key.
ReloadSafe == Reload!Safety

\* A change of the hash is noticed: the element asks for what belongs to the new one.
ReloadNoticed == Reload!Noticed
===============================================================================
