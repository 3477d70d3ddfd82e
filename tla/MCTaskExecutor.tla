---------------------------- MODULE MCTaskExecutor ----------------------------
(* Small instances of TaskExecutor: two handlers at a time. *)
EXTENDS TaskExecutor

CONSTANTS k1, k2, c1, c2

===============================================================================
