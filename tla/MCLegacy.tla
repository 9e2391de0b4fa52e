------------------------------- MODULE MCLegacy -------------------------------
(* Values for TLC: those of the core; /dev/proof registers the key 4.       *)
EXTENDS MCAuthService, Legacy

MCDevBodies == {Reg("alice", "4")}

MCRoutes  == {"verify"}
MCLimitOf == [k \in MCRoutes |-> 1]

=============================================================================
