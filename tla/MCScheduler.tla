------------------------------ MODULE MCScheduler ------------------------------
(* Small instances of Scheduler: two or three rows, two tasks at a time. *)
EXTENDS Scheduler, TLC

CONSTANTS d1, d2, d3

Tasks == 1..2
OnceOnly == {Once}
OnceOrTwice == {Once, 2}
OneOrTwo == {1, 2}
Rows == Permutations(Delay)
================================================================================
