----------------------------- MODULE MCDispatcher -----------------------------
(* Small instances of Dispatcher: composites of one or two parts over at most two settings. *)
EXTENDS Dispatcher

CONSTANTS s1, s2

Cmd(s) == [setting |-> s, command |-> TRUE]
Qry(s) == [setting |-> s, command |-> FALSE]

\* one setting: a command, a query
OneSetting == {<<Cmd(s1)>>, <<Qry(s1)>>}

\* two settings: each alone, and one composite that GroupBy reorders
TwoSettings == {<<Cmd(s1)>>, <<Cmd(s2)>>, <<Qry(s2)>>, <<Cmd(s1), Cmd(s2), Cmd(s1)>>}
===============================================================================
