--------------------------- MODULE MCProtectedRoute ---------------------------
(* Values for TLC: those of the core, and one visit to the protected route. *)
EXTENDS MCAuthService, ProtectedRoute

CONSTANTS m1

=============================================================================
