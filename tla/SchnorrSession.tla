--------------------------- MODULE SchnorrSession ---------------------------
(***************************************************************************)
(* One session of the protocol on numbers: the inputs the end-to-end       *)
(* client draws (zkp_e2e), the digest both sides compute, an answer, and   *)
(* the equation the server checks.                                         *)
(***************************************************************************)
EXTENDS Schnorr

CONSTANTS
  Digests,   \* the integer values of digests
  Guesses    \* the answers of somebody who does not know the secret

(***************************************************************************)
(* The generator has order q modulo p, as 2 has in the group the server    *)
(* builds: p = 2q + 1, both prime, and p = 7 mod 8.                        *)
(***************************************************************************)
ASSUME OrderAssumption ==
  /\ ModExp(G, Q, P) = 1 % P
  /\ \A n \in 1 .. Q - 1 : ModExp(G, n, P) # 1 % P

(* A digest is read without a sign, an answer with one.                    *)
ASSUME InputAssumption == Digests \subseteq Nat /\ Guesses \subseteq Int

VARIABLES
  secret, nonce,   \* x and r of the client
  challenge,       \* c
  answer,          \* s
  honest,          \* was the answer computed, or guessed?
  stage,
  verdict          \* did the server accept?

vars == <<secret, nonce, challenge, answer, honest, stage, verdict>>

(* rand.Int below q, with zero replaced by one.                            *)
randomInRange == 1 .. (Q - 1)

(***************************************************************************)
(* The client draws its inputs; in its performance mode it sends the key   *)
(* 1, the commitment 1 and the answer 0, which is to have drawn zeros.     *)
(***************************************************************************)
Init ==
  /\ \/ secret \in randomInRange /\ nonce \in randomInRange
     \/ secret = 0 /\ nonce = 0
  /\ challenge = 0
  /\ answer = 0
  /\ honest = FALSE
  /\ stage = "inputs"
  /\ verdict = FALSE

Send(c, s) ==
  /\ stage = "inputs"
  /\ challenge' = c
  /\ answer' = s
  /\ stage' = "sent"
  /\ UNCHANGED <<secret, nonce, verdict>>

Prove(c) == Send(c, Answer(nonce, c, secret)) /\ honest' = TRUE

Guess(c, s) == Send(c, s) /\ honest' = FALSE

Check ==
  /\ stage = "sent"
  /\ verdict' = ProofHolds(answer, Commitment(nonce), PublicKey(secret), challenge)
  /\ stage' = "checked"
  /\ UNCHANGED <<secret, nonce, challenge, answer, honest>>

Finished == stage = "checked" /\ UNCHANGED vars

Next ==
  \/ \E c \in Digests : Prove(c) \/ \E s \in Guesses : Guess(c, s)
  \/ Check
  \/ Finished

Spec == Init /\ [][Next]_vars

-----------------------------------------------------------------------------

(***************************************************************************)
(* Completeness: the server accepts every answer of an honest client,      *)
(* whatever it drew and whatever the digest (the answer is reduced modulo  *)
(* q, the group has order q).                                              *)
(***************************************************************************)
HonestProofAccepted == stage = "checked" /\ honest => verdict

(***************************************************************************)
(* Soundness of the equation: an accepted answer is the honest one, up to  *)
(* multiples of q; negative and oversized answers change nothing.          *)
(***************************************************************************)
OnlyTheAnswerIsAccepted ==
  stage = "checked" /\ verdict => answer % Q = Answer(nonce, challenge, secret)

=============================================================================
