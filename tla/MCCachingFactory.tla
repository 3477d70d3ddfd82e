--------------------------- MODULE MCCachingFactory ---------------------------
(* A small instance of CachingFactory: two threads, one or two keys. *)
EXTENDS CachingFactory

CONSTANTS t1, t2, a, b

\* What the threads of a behaviour call: everything about one name, or Retrieve of two names.
VARIABLE plan

\* the callback of a may retrieve b
Ordered == {<<a, b>>}

Planned == [single |-> Operation \X {b}, ordered |-> {"retrieve"} \X {a, b}]

\* The history variables are full when Retrieve of two names begins: the order of the locks
\* is in question there, not what was lost.
PlanInit ==
    \/ plan = "single" /\ Init
    \/ /\ plan = "ordered" /\ InitState
       /\ called = [k \in Key |-> Lost]
       /\ overlapped = Key
       /\ thrown = {"KeyNotFound", "DuplicateKey"}

PlanNext ==
    /\ Next
    /\ UNCHANGED plan
    /\ \A t \in Thread : Idle(t) /\ stack'[t] # <<>> =>
          <<stack'[t][1].op, stack'[t][1].key>> \in Planned[plan]

PlanSpec ==
    /\ PlanInit
    /\ [][PlanNext]_<<vars, plan>>
    /\ \A t \in Thread : SF_vars(Run(t))
===============================================================================
