-------------------------- MODULE MCSchnorrSession --------------------------
(***************************************************************************)
(* Values for TLC.  The texts play no part here.  The group is a small one *)
(* of the shape the server builds: p = 2q + 1 with q prime and p = 7 mod 8 *)
(* (so that 2 has order q), and the generator is 2.                        *)
(***************************************************************************)
EXTENDS SchnorrSession

NoTexts == {}
NoValues == [t \in {} |-> 0]
NoDigest(d) == 0

SomeDigests == 0 .. (2 * Q)
SomeGuesses == (-Q) .. (Q + 1)

=============================================================================
