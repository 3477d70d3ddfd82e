---------------------------- MODULE HashNavigation ----------------------------
(***************************************************************************)
(* What a page promises of an element that is driven by the hash (When      *)
(* InitIncoding or IncChangeUrl, Ajax, Insert): whenever the hash changes   *)
(* the element asks for what belongs to the new one, and all it ever shows  *)
(* is an answer to something it asked for.  Events, duplicates of them,     *)
(* requests in flight and their order are below this level.                 *)
(***************************************************************************)
EXTENDS Integers, Sequences, SequencesExt

VARIABLES
    hash,       \* what the hash asks for
    asks,       \* what was asked for
    shown,      \* the content: empty or one of them
    gone        \* the page was left

nav == <<hash, asks, shown, gone>>

Stale == asks = <<>> \/ Last(asks) # hash

Init == asks = <<>> /\ shown = <<>>

Navigate == UNCHANGED <<asks, shown, gone>>   \* to any other hash

\* Only the hash of the moment is asked for.
Ask == asks' = Append(asks, hash) /\ UNCHANGED <<hash, shown, gone>>

Show ==
    /\ \E i \in DOMAIN asks : shown' = <<asks[i]>>
    /\ UNCHANGED <<hash, asks, gone>>

Leave == ~ gone /\ gone' /\ UNCHANGED <<hash, asks, shown>>

Next == Navigate \/ Ask \/ Show \/ Leave

Safety == Init /\ [][Next]_nav

\* A change of the hash is noticed: the element asks again.
Noticed == Stale ~> ~ Stale \/ gone
===============================================================================
