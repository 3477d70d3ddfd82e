---------------------------- MODULE CachingFactory ----------------------------
(***************************************************************************)
(* CachingFactory over MemoryListCachedProvider: Get, Set, Delete, DeleteAll *)
(* and Retrieve called by several threads.  Retrieve is double-checked      *)
(* locking on a lock object per name that is created on demand in MiniLocks *)
(* and removed by the thread that leaves it, so one name can have several   *)
(* generations of locks in use.                                            *)
(*                                                                         *)
(* A thread is a stack of calls.  Each access to the ConcurrentDictionary   *)
(* of the provider, to MiniLocks and to a monitor is a step of its own.     *)
(* What a callback computes is read from source, the data behind the cache, *)
(* which Update changes before it deletes the key.                         *)
(***************************************************************************)
EXTENDS Integers, Sequences, FiniteSets

CONSTANTS
    Thread, Key,
    Operation,      \* the operations threads call
    MaxVersion,     \* bound on the versions of a source value
    MaxLocks,       \* lock objects of a name; enough that one is always free
    Inner,          \* pairs <<k, j>>: the callback of k may retrieve j
    NullCallback    \* whether a callback may return null

ASSUME CachingAssumption ==
    /\ Operation \subseteq {"get", "set", "delete", "deleteAll", "retrieve", "update"}
    /\ MaxVersion \in Nat \ {0}
    /\ MaxLocks \in Nat
    /\ Inner \subseteq Key \X Key
    /\ NullCallback \in BOOLEAN

VARIABLES
    stack,      \* the calls of each thread, the running one last
    miniLock,   \* MiniLocks
    cache,      \* the dictionary of the provider
    source,     \* the version of the data behind the cache
    called,     \* history: how often the callback of a key ran since the key was kept
    overlapped, \* history: the keys invalidated while somebody was about to store them
    thrown      \* history: the exceptions of the provider

vars == <<stack, miniLock, cache, source, called, overlapped, thrown>>

Null == 0
NoLock == 0
Lost == 3   \* called: an entry was deleted or a callback left none

Value == 0..MaxVersion

Call(op, k, v) == [op |-> op, key |-> k, pc |-> IF op = "set" THEN "lock" ELSE "begin",
                   lock |-> NoLock, held |-> FALSE, seen |-> FALSE, value |-> v]

Idle(t) == stack[t] = <<>>
Top(t) == stack[t][Len(stack[t])]
At(t, op, pc) == ~ Idle(t) /\ Top(t).op = op /\ Top(t).pc = pc

Rest(t) == SubSeq(stack[t], 1, Len(stack[t]) - 1)
SetTop(t, f) == stack' = [stack EXCEPT ![t] = Append(Rest(t), f)]
GoTo(t, pc) == SetTop(t, [Top(t) EXCEPT !.pc = pc])

\* The running call goes on at pc after the call f returned.
CallAndGoTo(t, pc, f) ==
    stack' = [stack EXCEPT ![t] = Append(Append(Rest(t), [Top(t) EXCEPT !.pc = pc]), f)]

Return(t) == stack' = [stack EXCEPT ![t] = Rest(t)]

\* An exception leaves every call of the thread and the monitors they hold: the callbacks
\* among them return no model.
Throw(t, what) ==
    /\ stack' = [stack EXCEPT ![t] = <<>>]
    /\ thrown' = thrown \cup what
    /\ called' = [k \in Key |-> IF \E i \in DOMAIN stack[t] :
                                      stack[t][i].key = k /\ stack[t][i].op = "retrieve"
                                   THEN Lost ELSE called[k]]

-------------------------------------------------------------------------------
(* Locks *)

\* The lock objects of a name are numbered; a number is used again when nobody refers to
\* the object any more.
Holds(t, k, l) ==
    \E i \in DOMAIN stack[t] :
        stack[t][i].key = k /\ stack[t][i].lock = l /\ stack[t][i].held

Referenced(k, l) ==
    \/ miniLock[k] = l
    \/ \E t \in Thread : \E i \in DOMAIN stack[t] : stack[t][i].key = k /\ stack[t][i].lock = l

FreeLocks(k) == {l \in 1..MaxLocks : ~ Referenced(k, l)}
FreshLock(k) == CHOOSE l \in FreeLocks(k) : TRUE

\* MiniLocks.GetOrAdd(name, k => new object())
GetOrAddLock(t) ==
    /\ At(t, "set", "lock") \/ At(t, "retrieve", "lock")
    /\ LET k == Top(t).key
           l == IF miniLock[k] = NoLock THEN FreshLock(k) ELSE miniLock[k]
       IN  /\ miniLock[k] = NoLock => FreeLocks(k) # {}
           /\ miniLock' = [miniLock EXCEPT ![k] = l]
           /\ SetTop(t, [Top(t) EXCEPT !.lock = l, !.pc = "enter"])
    /\ UNCHANGED <<cache, source, called, overlapped, thrown>>

FreeForAll(t, f) == TRUE

\* lock (miniLock): a monitor is reentrant.
Free(t, f) == \A u \in Thread \ {t} : ~ Holds(u, f.key, f.lock)

Enter(t, op) ==
    /\ At(t, op, "enter")
    /\ Free(t, Top(t))
    /\ SetTop(t, [Top(t) EXCEPT !.held = TRUE, !.pc = "locked"])
    /\ UNCHANGED <<miniLock, cache, source, called, overlapped, thrown>>

-------------------------------------------------------------------------------
InitState ==
    /\ stack = [t \in Thread |-> <<>>]
    /\ miniLock = [k \in Key |-> NoLock]
    /\ cache = [k \in Key |-> Null]
    /\ source = [k \in Key |-> 1]

Init ==
    /\ InitState
    /\ called = [k \in Key |-> 0]
    /\ overlapped = {}
    /\ thrown = {}

\* A thread calls the factory; what it sets is the value the source has now.
Begin(t, op, k) ==
    /\ Idle(t)
    /\ op = "update" => source[k] < MaxVersion
    /\ stack' = [stack EXCEPT ![t] = <<Call(op, k, IF op = "set" THEN source[k] ELSE Null)>>]
    /\ UNCHANGED <<miniLock, cache, source, called, overlapped, thrown>>

(* Get, called by itself and by Retrieve before and inside the lock:
   cache.ContainsKey(name) ? (T)cache[name] : default(T) *)

Missing(t) == cache[Top(t).key] = Null

Counted(k) == [called EXCEPT ![k] = IF @ < 2 THEN @ + 1 ELSE @]

\* the ContainsKey of Get dropped
GetUnguarded(t) ==
    /\ At(t, "get", "begin")
    /\ GoTo(t, "index")
    /\ UNCHANGED <<miniLock, cache, source, called, overlapped, thrown>>

GetContains(t) ==
    /\ At(t, "get", "begin")
    /\ IF Missing(t) THEN Return(t) ELSE GoTo(t, "index")
    /\ UNCHANGED <<miniLock, cache, source, called, overlapped, thrown>>

RetrieveContains(t) ==
    /\ At(t, "retrieve", "begin")
    /\ GoTo(t, IF Missing(t) THEN "lock" ELSE "index")
    /\ UNCHANGED <<miniLock, cache, source, called, overlapped, thrown>>

\* the second Get dropped
RetrieveNoRecheck(t) ==
    /\ At(t, "retrieve", "locked")
    /\ GoTo(t, "callback")
    /\ called' = Counted(Top(t).key)
    /\ UNCHANGED <<miniLock, cache, source, overlapped, thrown>>

RetrieveContainsAgain(t) ==
    /\ At(t, "retrieve", "locked")
    /\ GoTo(t, IF Missing(t) THEN "callback" ELSE "indexAgain")
    /\ called' = IF Missing(t) THEN Counted(Top(t).key) ELSE called
    /\ UNCHANGED <<miniLock, cache, source, overlapped, thrown>>

\* The indexer throws when the name is gone by now.
Index(t) ==
    /\ \/ At(t, "get", "index") \/ At(t, "retrieve", "index")
       \/ At(t, "retrieve", "indexAgain")
    /\ \/ Missing(t) /\ Throw(t, {"KeyNotFound"})
       \/ /\ ~ Missing(t) /\ UNCHANGED <<called, thrown>>
          /\ IF Top(t).pc = "index" THEN Return(t) ELSE GoTo(t, "leave")
    /\ UNCHANGED <<miniLock, cache, source, overlapped>>

(* Set: under the lock of the name, ContainsKey decides between the indexer and Add *)

SetContains(t) ==
    /\ At(t, "set", "locked")
    /\ SetTop(t, [Top(t) EXCEPT !.seen = ~ Missing(t), !.pc = "store"])
    /\ UNCHANGED <<miniLock, cache, source, called, overlapped, thrown>>

SetStore(t) ==
    /\ At(t, "set", "store")
    /\ IF Missing(t) \/ Top(t).seen
          THEN /\ cache' = [cache EXCEPT ![Top(t).key] = Top(t).value]
               /\ Return(t) /\ UNCHANGED <<called, thrown>>
          ELSE Throw(t, {"DuplicateKey"}) /\ UNCHANGED cache
    /\ UNCHANGED <<miniLock, source, overlapped>>

(* Delete and DeleteAll take no lock *)

\* the entry survives
DeleteNothing(t) ==
    /\ At(t, "delete", "begin")
    /\ Return(t)
    /\ UNCHANGED <<miniLock, cache, source, called, overlapped, thrown>>

Delete(t) ==
    /\ At(t, "delete", "begin")
    /\ cache' = [cache EXCEPT ![Top(t).key] = Null]
    /\ called' = [called EXCEPT ![Top(t).key] = Lost]
    /\ Return(t)
    /\ UNCHANGED <<miniLock, source, overlapped, thrown>>

DeleteAll(t) ==
    /\ At(t, "deleteAll", "begin")
    /\ cache' = [k \in Key |-> Null]
    /\ called' = [k \in Key |-> Lost]
    /\ Return(t)
    /\ UNCHANGED <<miniLock, source, overlapped, thrown>>

\* Somebody carries a value of k to the cache.
Storing(k) == \E t \in Thread : \E i \in DOMAIN stack[t] :
                 stack[t][i].key = k /\ stack[t][i].op = "set"

\* The application changes the data and then deletes the key.
UpdateSource(t) ==
    /\ At(t, "update", "begin")
    /\ LET k == Top(t).key
       IN  /\ source' = [source EXCEPT ![k] = IF @ < MaxVersion THEN @ + 1 ELSE @]
           /\ overlapped' = IF Storing(k) THEN overlapped \cup {k} ELSE overlapped
           /\ stack' = [stack EXCEPT ![t] = <<Call("delete", k, Null)>>]
    /\ UNCHANGED <<miniLock, cache, called, thrown>>

(* The callback of Retrieve *)

InCallback(t) == At(t, "retrieve", "callback") \/ At(t, "retrieve", "nested")

\* It retrieves another key, at most one.
CallbackRetrieves(t, j) ==
    /\ At(t, "retrieve", "callback")
    /\ <<Top(t).key, j>> \in Inner
    /\ CallAndGoTo(t, "nested", Call("retrieve", j, Null))
    /\ UNCHANGED <<miniLock, cache, source, called, overlapped, thrown>>

\* called again until it returns a model
CallbackRetried(t) ==
    /\ NullCallback
    /\ InCallback(t)
    /\ GoTo(t, "callback")
    /\ UNCHANGED <<miniLock, cache, source, called, overlapped, thrown>>

\* It returns null, which is not stored,
CallbackReturnsNull(t) ==
    /\ NullCallback
    /\ InCallback(t)
    /\ GoTo(t, "leave")
    /\ called' = [called EXCEPT ![Top(t).key] = Lost]
    /\ UNCHANGED <<miniLock, cache, source, overlapped, thrown>>

\* or a model, which Retrieve gives to Set,
CallbackReturns(t) ==
    /\ InCallback(t)
    /\ CallAndGoTo(t, "leave", Call("set", Top(t).key, source[Top(t).key]))
    /\ UNCHANGED <<miniLock, cache, source, called, overlapped, thrown>>

\* or throws: the lock object stays in MiniLocks.
CallbackThrows(t) ==
    /\ NullCallback
    /\ InCallback(t)
    /\ Throw(t, {})
    /\ UNCHANGED <<miniLock, cache, source, overlapped>>

\* Nobody but the thread inside this very lock removes it, so testing and removing it
\* and leaving the monitor are one step.
RetrieveLeave(t) ==
    /\ At(t, "retrieve", "leave")
    /\ LET k == Top(t).key
       IN  miniLock' = IF miniLock[k] = Top(t).lock THEN [miniLock EXCEPT ![k] = NoLock]
                                                    ELSE miniLock
    /\ Return(t)
    /\ UNCHANGED <<cache, source, called, overlapped, thrown>>

Acquire(t) == Enter(t, "set") \/ Enter(t, "retrieve")

Run(t) ==
    \/ Acquire(t)
    \/ GetContains(t) \/ RetrieveContains(t) \/ RetrieveContainsAgain(t) \/ Index(t)
    \/ GetOrAddLock(t) \/ SetContains(t) \/ SetStore(t)
    \/ Delete(t) \/ DeleteAll(t) \/ UpdateSource(t)
    \/ \E j \in Key : CallbackRetrieves(t, j)
    \/ CallbackReturnsNull(t) \/ CallbackReturns(t) \/ CallbackThrows(t)
    \/ RetrieveLeave(t)

Next ==
    \E t \in Thread :
        \/ \E op \in Operation, k \in Key : Begin(t, op, k)
        \/ Run(t)

Spec == Init /\ [][Next]_vars

\* A thread inside a call runs on, and a monitor starves nobody who waits for it.
FairSpec == Spec /\ \A t \in Thread : SF_vars(Run(t))

-------------------------------------------------------------------------------
(* Properties *)

Calls == [op : Operation \cup {"set", "delete"}, key : Key,
          pc : {"begin", "index", "lock", "enter", "locked", "store", "indexAgain",
                "callback", "nested", "leave"},
          lock : 0..MaxLocks, held : BOOLEAN, seen : BOOLEAN, value : Value]

\* Every variable has its type and a monitor one owner.
TypeOK ==
    /\ stack \in [Thread -> Seq(Calls)]
    /\ miniLock \in [Key -> 0..MaxLocks]
    /\ cache \in [Key -> Value]
    /\ source \in [Key -> 1..MaxVersion]
    /\ called \in [Key -> 0..Lost]
    /\ overlapped \subseteq Key
    /\ thrown \subseteq {"KeyNotFound", "DuplicateKey"}
    /\ \A k \in Key, l \in 1..MaxLocks : \A t, u \in Thread :
          Holds(t, k, l) /\ Holds(u, k, l) => t = u

\* As long as no entry is deleted and no callback fails to return a model, the callback
\* of a name runs at most once, whatever generations of its lock the threads wait on.
CallbackAtMostOnce == \A k \in Key : called[k] # Lost => called[k] <= 1

\* Get of a missing name returns default(T), Set adds or replaces: neither throws before
\* an entry was deleted or a callback left its lock behind without one.
ThrowsOnlyAfterLoss == thrown # {} => \E k \in Key : called[k] = Lost

\* A value older than its source is in the cache only while the Delete of the update is
\* outstanding, unless a Set or a Retrieve held the old value when the source changed.
StaleOnlyAfterOverlap ==
    \A k \in Key : cache[k] # Null /\ cache[k] < source[k] =>
        \/ k \in overlapped
        \/ \E t \in Thread : At(t, "delete", "begin") /\ Top(t).key = k

\* Set adds the value or replaces the one that is there.
SetNeverThrows == "DuplicateKey" \notin thrown

\* Every call returns or throws: the locks of several names and generations never make
\* threads wait for each other when callbacks retrieve along an order of the names.
EveryCallEnds == \A t \in Thread : ~ Idle(t) ~> Idle(t)
===============================================================================
