---------------------------- MODULE MCDurableLogin ----------------------------
(* Values for TLC: those of the core.                                       *)
EXTENDS MCAuthService, DurableLogin

=============================================================================
