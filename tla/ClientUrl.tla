------------------------------ MODULE ClientUrl -------------------------------
(***************************************************************************)
(* The hash of the page as purl() reads and writes it.  A hash              *)
(*    #!route?key=value/key=value&prefix:route?key=value                    *)
(* is a sequence of segments, the one of the prefix root, if any, first.    *)
(* A text, a value as it is written or as it is read, is a sequence of       *)
(* pieces: of each only what escaping, unescaping and the separators make of *)
(* it is kept.  No prefix ends with another, and no key reads as a number.   *)
(***************************************************************************)
EXTENDS Integers, Sequences, FiniteSets, SequencesExt

CONSTANT PrefixOrder    \* the prefixes, root first

ASSUME PrefixAssumption ==
    /\ PrefixOrder \in Seq(ToSet(PrefixOrder)) /\ PrefixOrder # <<>>
    /\ PrefixOrder[1] = "root"

\* The numbers of a finite set, the least first.
InOrder(S) ==
    [i \in 1..Cardinality(S) |-> CHOOSE n \in S : Cardinality({m \in S : m < n}) = i - 1]

\* The elements of s that Test selects, in their order: as SelectSeq does, in a form that can be
\* reasoned about.
Those(s, Test(_)) ==
    LET at == InOrder({i \in DOMAIN s : Test(s[i])})
    IN  [k \in DOMAIN at |-> s[at[k]]]

NoUrl == ""
NoKey == ""
NoHash == <<>>          \* the address has no #
Empty == <<>>

\* url is followed by ? iff query; keys are the names of the parameters as they are written
Segment(p, u, q, keys, params) ==
    [prefix |-> p, url |-> u, query |-> q, keys |-> keys, params |-> params]

IsText(v) == v \in Seq(ToSet(v))

IsSegment(s) ==
    /\ s = Segment(s.prefix, s.url, s.query, s.keys, s.params)
    /\ s.prefix \in ToSet(PrefixOrder)
    /\ IsText(s.keys) /\ DOMAIN s.params = ToSet(s.keys)
    /\ \A k \in ToSet(s.keys) : IsText(s.params[k])

IsHash(h) == h \in Seq(ToSet(h)) /\ \A s \in ToSet(h) : IsSegment(s)

\* Pieces of texts: reserved is one of & ? / = : @ # (as it is written in a hash, a = in a value),
\* bang is !, bangEscaped is %21, percent does not decode, escape reads like another escape ("%41")
\* and letter is what it stands for, doubled is that escape escaped ("%2541").  A key may be a
\* piece as well.
Piece == {"plain", "other", "bang", "bangEscaped", "reserved", "reservedEscaped", "plus", "space",
          "percent", "escape", "letter", "doubled"}

\* The pieces of v, each changed by Op.
Pieces(v, Op(_)) == [i \in DOMAIN v |-> Op(v[i])]

\* ExecutableHelper.UrlEncode escapes none of % + !
UrlEncode(v) == Pieces(v, LAMBDA x : IF x = "reserved" THEN "reservedEscaped" ELSE x)

DecodePiece(x) == CASE x = "reservedEscaped" -> "reserved"
                    [] x = "bangEscaped" -> "bang"
                    [] x = "plus" -> "space"
                    [] x = "escape" -> "letter"
                    [] x = "doubled" -> "escape"
                    [] OTHER -> x

\* parseString: + is a space, and a text in which something does not decode is left alone
DecodePair(v) == IF "percent" \in ToSet(v) THEN v ELSE Pieces(v, DecodePiece)

\* A route without ? is read as the key of a parameter without a value, and so is nothing at all.
Bare(s) == s.url # NoUrl /\ ~ s.query
KeysOf(s) ==
    IF Bare(s) THEN <<s.url>> \o s.keys ELSE IF s.keys = <<>> THEN <<NoKey>> ELSE s.keys

\* what a segment says of a parameter: the first of a name
ValueIn(s, k) ==
    IF k \in DOMAIN s.params /\ ~ (Bare(s) /\ k = s.url) THEN DecodePair(s.params[k]) ELSE Empty

\* parseUri: prefix__key |-> value.  A later segment of a prefix wins.
Parse(h) ==
    LET Of(p, k) == {i \in DOMAIN h : h[i].prefix = p /\ k \in ToSet(KeysOf(h[i]))}
        LastOf(p, k) == CHOOSE i \in Of(p, k) : \A j \in Of(p, k) : j <= i
    IN  [pk \in UNION {{h[i].prefix} \X ToSet(KeysOf(h[i])) : i \in DOMAIN h} |->
            ValueIn(h[LastOf(pk[1], pk[2])], pk[2])]

\* The properties of the object that parseUri makes, in the order in which toHref meets them:
\* the order of their insertion.
Fparams(h) ==
    LET Of(i) == [n \in DOMAIN KeysOf(h[i]) |-> <<h[i].prefix, KeysOf(h[i])[n]>>]
        inserted == FlattenSeq([i \in DOMAIN h |-> Of(i)])
        first == InOrder({n \in DOMAIN inserted : \A m \in 1..(n - 1) : inserted[m] # inserted[n]})
    IN  [order |-> [n \in DOMAIN first |-> inserted[first[n]]], value |-> Parse(h)]

\* every segment has its route
RouteOf(h, p) ==
    IF \E i \in DOMAIN h : h[i].prefix = p /\ h[i].query
       THEN h[CHOOSE i \in DOMAIN h : h[i].prefix = p /\ h[i].query].url ELSE NoUrl

\* furl: the text is split at every : but not at &, so only the first segment has a route,
\* and root has one only while no other prefix is there.
Furl(h, p) ==
    IF /\ h # NoHash /\ h[1].prefix = p /\ h[1].query
       /\ p = "root" => \A i \in DOMAIN h : h[i].prefix = "root"
       THEN h[1].url ELSE NoUrl

\* a mutant form: a key is removed under every prefix
RemoveFparamAnywhere(fp, p, k) ==
    [order |-> Those(fp.order, LAMBDA pk : pk[2] # k),
     value |-> [pk \in {q \in DOMAIN fp.value : q[2] # k} |-> fp.value[pk]]]

\* setFparam, removeFparam, clearFparam
SetFparam(fp, p, k, v) ==
    [order |-> IF <<p, k>> \in DOMAIN fp.value THEN fp.order ELSE Append(fp.order, <<p, k>>),
     value |-> [pk \in DOMAIN fp.value \cup {<<p, k>>} |->
                   IF pk = <<p, k>> THEN UrlEncode(v) ELSE fp.value[pk]]]
RemoveFparam(fp, p, k) ==
    [order |-> Those(fp.order, LAMBDA pk : pk # <<p, k>>),
     value |-> [pk \in DOMAIN fp.value \ {<<p, k>>} |-> fp.value[pk]]]
NoFparams == [order |-> <<>>, value |-> <<>>]

\* encodeAllParams
EncodeAllParams(fp) ==
    [order |-> fp.order, value |-> [pk \in DOMAIN fp.value |-> UrlEncode(fp.value[pk])]]

\* fprefixes
Fprefixes(fp) ==
    Those(PrefixOrder, LAMBDA p : p = "root" \/ \E pk \in DOMAIN fp.value : pk[1] = p)

EndsInBang(v) == \E i \in DOMAIN v : v[i] = "bang" /\ i + 1 \notin DOMAIN v

\* toHref writes the parameters of a prefix with a / before each that is not the first.  It takes
\* for the first whatever follows a ! too, and what is written so runs on from the value before it.
SegmentOf(h, fp, p) ==
    LET own == Those(fp.order, LAMBDA pk : pk[1] = p /\ pk[2] # NoKey)
        Raw(n) == UrlEncode(fp.value[<<p, own[n][2]>>])
        starts == {n \in DOMAIN own : n = 1 \/ ~ EndsInBang(Raw(n - 1))}
        Run(n) == InOrder({m \in DOMAIN own : n <= m /\ \A j \in n..(m - 1) : EndsInBang(Raw(j))})
        text == [n \in starts |->
                    FlattenSeq([i \in DOMAIN Run(n) |->
                                   IF i = 1 THEN Raw(n)
                                   ELSE <<own[Run(n)[i]][2], "reserved">> \o Raw(Run(n)[i])])]
        keys == [i \in DOMAIN InOrder(starts) |-> own[InOrder(starts)[i]][2]]
    IN  Segment(p, Furl(h, p), Furl(h, p) # NoUrl, keys,
                [k \in ToSet(keys) |-> text[CHOOSE n \in starts : own[n][2] = k]])

\* "#!"
EmptyHash == <<Segment("root", NoUrl, FALSE, <<>>, <<>>)>>

\* toHref: the hash of the new address; NoHash when nothing is left of one that was there.
ToHref(h, fp) ==
    LET made == [i \in DOMAIN Fprefixes(fp) |-> SegmentOf(h, fp, Fprefixes(fp)[i])]
    IN  IF made = EmptyHash /\ h # NoHash THEN NoHash ELSE made

\* decodeURIComponent of the whole text: a + stays one, and nothing is decoded when
\* something in it does not decode.
DecodeUri(h) ==
    LET Decode(v) == Pieces(v, LAMBDA x : IF x = "plus" THEN x ELSE DecodePiece(x))
    IN  IF \E i \in DOMAIN h : \E k \in DOMAIN h[i].params : "percent" \in ToSet(h[i].params[k]) THEN h
        ELSE [i \in DOMAIN h |->
                [h[i] EXCEPT !.params = [k \in DOMAIN @ |-> Decode(@[k])]]]

\* RedirectTo compares the two hashes decoded.
SameHash(h, g) == DecodeUri(h) = DecodeUri(g)
===============================================================================
