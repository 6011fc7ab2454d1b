--------------------------- MODULE MCSessionStore ---------------------------
(* Instances of SessionStore: two conversations, a few events, crashes. *)
EXTENDS SessionStore, TLC

CONSTANTS k1, k2

=============================================================================
