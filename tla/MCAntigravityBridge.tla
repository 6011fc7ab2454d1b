------------------------ MODULE MCAntigravityBridge ------------------------
(* Instances of AntigravityBridge: the configurations give the bounds. *)
EXTENDS AntigravityBridge

=============================================================================
