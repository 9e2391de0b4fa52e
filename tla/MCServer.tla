------------------------------ MODULE MCServer ------------------------------
(* Values for TLC: the requests, named by their audit events.              *)
EXTENDS Server, TLC

CONSTANTS e1, e2, e3, e4

=============================================================================
