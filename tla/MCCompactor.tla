---------------------------- MODULE MCCompactor ----------------------------
(* Model-checking instance of CompactorCode: the configurations give the   *)
(* budgets, the sizes of messages and the bound on the history.            *)
EXTENDS CompactorCode

=============================================================================
