------------------------------- MODULE MCClient -------------------------------
(***************************************************************************)
(* Small pages for ClientRuntime.  A is an element with B inside it, S the  *)
(* loading indicator beside them.                                          *)
(***************************************************************************)
EXTENDS ClientRuntime, TLC

Elements == {"A", "B", "S"}
Paths == [A |-> <<"A">>, B |-> <<"B", "A">>, S |-> <<"S">>]
HashPrefixes == <<"root", "search">>

(* Executables *)

NoChange == [verb |-> "", prefix |-> "", key |-> "", value |-> Empty, replace |-> FALSE]
SetParam(verb, p, k, v) == [NoChange EXCEPT !.verb = verb, !.prefix = p, !.key = k, !.value = v]

Basic(type, status, on) ==
    [type |-> type, status |-> status, onBind |-> on, onEventStatus |-> 1, delay |-> "none",
     intervalId |-> "", ands |-> {}, target |-> "A", arg |-> "", hash |-> FALSE,
     localCache |-> FALSE, change |-> NoChange]

Act(type, on) == Basic(type, 0, on)
Delayed(m, delay) == [m EXCEPT !.delay = delay, !.intervalId = "i"]
Into(m, target) == [m EXCEPT !.target = target]
Given(m, arg) == [m EXCEPT !.arg = arg]
ByHash(m) == [m EXCEPT !.hash = TRUE]
FromCache(m) == [m EXCEPT !.localCache = TRUE]
When(m, inverse) == [m EXCEPT !.ands = {{[inverse |-> inverse]}}]
Changing(m, c) == [m EXCEPT !.change = c]

(* Hashes *)

Root(u, q, keys, params) == <<Segment("root", u, q, keys, params)>>
Search(u, q, keys, params) == <<Segment("search", u, q, keys, params)>>

Params(v) == [key |-> v]
Plain(v) == Root(NoUrl, FALSE, <<"key">>, Params(v))
Routed(v) == Root("Manager", TRUE, <<"key">>, Params(v))
BothRouted(v) == Routed(v) \o Search("Index", TRUE, <<"key">>, Params(v))
TwoPrefixes(v) == Plain(v) \o Search(NoUrl, FALSE, <<"key">>, Params(<<"plain">>))
BareRoute == Root("Manager", FALSE, <<>>, <<>>)
SearchRoute == Search("Index", TRUE, <<>>, <<>>)
\* "#!name=x/key=v"
TwoKeys(v) == Root(NoUrl, FALSE, <<"name", "key">>, [name |-> <<"other">>, key |-> v])

(* Pages *)

Indicator == <<Act("Direct", {"incajaxbefore"}), Act("Direct", {"incajaxcomplete"})>>

Blank ==
    [metas |-> [A |-> <<>>, B |-> <<>>, S |-> Indicator, X |-> <<>>],
     order |-> <<"A", "B", "S">>, initial |-> {"A", "S"}, hashes |-> {NoHash},
     user |-> {}, announced |-> {<<"popstate", "hashchange">>},
     outcomes |-> [success |-> {TRUE}, redirect |-> {NoRedirect}, fails |-> FALSE],
     full |-> FALSE, reloads |-> "", events |-> 2]

Metas(a, b) == [Blank.metas EXCEPT !.A = a, !.B = b]

\* The pattern of the README: When(InitIncoding | IncChangeUrl).Ajax.OnSuccess(Insert)
Reloading(cached) ==
    LET on == {InitIncoding, ChangeUrl}
        ajax == ByHash(Act("Ajax", on))
    IN  [Blank EXCEPT
            !.metas = Metas(<<IF cached THEN FromCache(ajax) ELSE ajax, Basic("Insert", Success, on)>>,
                            <<Act("Direct", {InitIncoding})>>),
            !.hashes = {TwoPrefixes(<<"plain">>), TwoPrefixes(<<"other">>)},
            !.announced = {IF cached THEN <<"hashchange">> ELSE <<"popstate", "hashchange">>},
            !.outcomes = [success |-> {TRUE, FALSE}, redirect |-> {NoRedirect}, fails |-> ~ cached],
            !.full = cached,
            !.events = IF cached THEN 2 ELSE 1,
            !.reloads = "A"]

\* A child that replaces the content of its parent, itself included, by the answer it gets.
Replacing ==
    LET click == {"click"}
    IN  [Blank EXCEPT
            !.metas = Metas(<<Act("Event", click \cup {InitIncoding}),
                              Given(Basic("Eval", Success, click \cup {InitIncoding}), "")>>,
                            <<Act("Ajax", click), Basic("Insert", Success, click),
                              Given(Basic("Eval", Error, click), "throw"),
                              Delayed(Basic("Eval", Complete, click), "timeOut"),
                              Act("Direct", {InitIncoding})>>),
            !.initial = {"A", "B", "S"},
            !.user = {<<"click", "B">>},
            !.outcomes = [success |-> {TRUE, FALSE}, redirect |-> {NoRedirect, ToPage, ToHash(Plain(<<"plain">>))},
                           fails |-> TRUE]]

\* A parent that empties itself while its child waits for a time-out.
Removing ==
    LET on == {"click"}
        Later(m) == Delayed(Into(m, "B"), "timeOut")
    IN  [Blank EXCEPT
            !.metas = Metas(<<Act("Direct", on), Basic("Insert", Success, on)>>,
                            <<Act("Direct", on), Later(Basic("Insert", Success, on)),
                              Later(Given(Basic("Trigger", Success, on), "change")),
                              Later(Given(Basic("Attach", Complete, on), "X")),
                              Act("Direct", {ChangeUrl}), Given(Basic("Eval", Success, {ChangeUrl}), "")>>),
            !.initial = {"A", "B"},
            !.hashes = {Plain(<<"plain">>), Plain(<<"other">>)},
            !.user = {<<"click", "A">>, <<"click", "B">>}]

\* Breaks before the action and in its completion, nested events and a template that throws.
Breaking ==
    LET on == {"click"}
    IN  [Blank EXCEPT
            !.metas = Metas(<<When(Basic("Break", Before, on), TRUE), Act("Direct", on),
                              Basic("Eval", Breakes, on),
                              Act("Event", {"refresh"}),
                              Given(Into(Basic("Trigger", Success, {"refresh"}), "B"), "click"),
                              Basic("Break", Success, {"refresh"}),
                              Given(Basic("Insert", Complete, {"refresh"}), "emptyTemplate"),
                              Basic("Break", Breakes, {"refresh"})>>,
                            <<Given(Into(Basic("Trigger", Before, on), "B"), "change"),
                              When(Basic("Break", Before, on), FALSE),
                              Act("Event", {"click", "change"}),
                              Basic("Break", Success, {"click", "change"}),
                              Delayed(Basic("Eval", Complete, {"click", "change"}), "timeOut"),
                              Basic("Eval", Breakes, {"click", "change"}),
                              Basic("Break", Breakes, {"click", "change"})>>),
            !.initial = {"A", "B"},
            !.user = {<<"click", "A">>, <<"refresh", "A">>, <<"click", "B">>}]

\* Intervals, binding again and unbinding.
Repeating ==
    [Blank EXCEPT
            !.metas = [Metas(<<Delayed(Act("Direct", {"click"}), "interval"),
                               Act("Direct", {"stop"}),
                               [Given(Basic("Eval", Success, {"stop"}), "clear") EXCEPT !.intervalId = "i"],
                               Act("Direct", {"bind"}),
                               Given(Into(Basic("Attach", Success, {"bind"}), "S"), "X"),
                               Given(Into(Basic("Detach", Complete, {"unbind"}), "S"), "change"),
                               Act("Direct", {"unbind"})>>, <<>>)
                          EXCEPT !.S = <<Act("Direct", {"change"})>>,
                                 !.X = <<Act("Submit", {"change"})>>],
            !.outcomes = [success |-> {TRUE}, redirect |-> {NoRedirect}, fails |-> TRUE],
            !.user = {<<"click", "A">>, <<"stop", "A">>, <<"bind", "A">>, <<"unbind", "A">>,
                      <<"change", "S">>},
            !.events = 3]

\* One parameter is stored in the hash, twice.
Storing(h, c) ==
    [Blank EXCEPT
        !.metas = Metas(<<Act("Direct", {"click"}), Changing(Basic("Store", Success, {"click"}), c)>>, <<>>),
        !.hashes = {h},
        !.user = {<<"click", "A">>}]

Stores ==
    {Storing(h, c) :
        h \in {NoHash, EmptyHash, BareRoute, SearchRoute, BothRouted(<<"doubled">>), TwoPrefixes(<<"other">>)},
        c \in {SetParam("set", "root", "key", <<"reserved">>),
               SetParam("set", "search", "key", <<"plain">>),
               SetParam("remove", "root", "key", Empty),
               [SetParam("insert", "search", "key", <<"space">>) EXCEPT !.replace = TRUE]}}
    \cup
    {Storing(h, c) :
        h \in {TwoKeys(<<"plain">>), Routed(<<"reservedEscaped">>)},
        c \in {SetParam("set", "root", "name", <<"percent", "reserved">>),
               SetParam("set", "root", "name", <<"space", "bang">>),
               SetParam("insert", "root", "key", Empty)}}
    \cup
    {Storing(h, c) :
        h \in {Plain(<<"percent", "bang">>), TwoPrefixes(<<"plain", "bang">>), BothRouted(<<"bangEscaped">>)},
        c \in {SetParam("set", "search", "key", <<"plain">>), SetParam("insert", "root", "name", <<"plus">>)}}

Pages == {Reloading(FALSE), Reloading(TRUE), Replacing, Removing, Breaking, Repeating} \cup Stores
SearchPages == {Storing(Routed(<<"plain">>), SetParam("set", "search", "key", <<"plain">>))}
===============================================================================
