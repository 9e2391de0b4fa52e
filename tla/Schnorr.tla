------------------------------- MODULE Schnorr -------------------------------
(***************************************************************************)
(* The arithmetic of the Schnorr identification protocol, as the server    *)
(* (internal/service) and the end-to-end client (zkp_e2e) compute it.      *)
(*                                                                         *)
(* Numbers travel as hexadecimal text, and the texts, not their values,    *)
(* are hashed and compared for equality, so a text and its value are kept  *)
(* apart: ValueOf maps a text to the integer it denotes, or to NotHex.     *)
(* SHA-256 is idealised as collision free: the digest of a commitment, a   *)
(* key and a username is the triple itself, and DigestValue is the integer *)
(* its hexadecimal text denotes.  The code hashes the three joined by "|", *)
(* where other triples of texts with a "|" in them could be read; but it   *)
(* compares digests only of the same commitment and username, and these    *)
(* are equal if and only if the keys are.                                  *)
(***************************************************************************)
EXTENDS Integers

CONSTANTS
  P, Q, G,          \* the modulus, the order of the subgroup, its generator
  Texts,            \* the non-empty strings clients send as numbers
  ValueOf,          \* the integer a text denotes in base 16, or NotHex
  NotHex,           \* the value of a text big.Int.SetString refuses
  DigestValue(_)    \* the integer value of a digest

ASSUME GroupAssumption == P \in Nat \ {0} /\ Q \in Nat \ {0} /\ G \in Nat
ASSUME TextAssumption  == ValueOf \in [Texts -> Int \cup {NotHex}]

-----------------------------------------------------------------------------

(* The powers of base modulo m.                                            *)
Powers(base, m) ==
  LET power[n \in Nat] == IF n = 0 THEN 1 % m ELSE (base * power[n - 1]) % m
  IN  power

(***************************************************************************)
(* big.Int.Exp: base^exp mod m, where a negative exponent denotes a power  *)
(* of the modular inverse (the generator is coprime to the odd modulus).   *)
(***************************************************************************)
ModExp(base, exp, m) ==
  IF exp >= 0
    THEN Powers(base, m)[exp]
    ELSE CHOOSE i \in 0 .. (m - 1) : (i * Powers(base, m)[-exp]) % m = 1 % m

mustBigFromHex(text) == ValueOf[text]

IsNumber(text) == mustBigFromHex(text) # NotHex

computeChallengeHex(clientR, publicKeyY, username) ==
  <<clientR, publicKeyY, username>>

(* Mutant: the key left out of the equation.                               *)
ProofHoldsForAnyKey(s, r, y, c) == ModExp(G, s, P) = r % P

(***************************************************************************)
(* The verification equation g^s = R * Y^c (mod p), on values.             *)
(***************************************************************************)
ProofHolds(s, r, y, c) ==
  ModExp(G, s, P) = (r * ModExp(y, c, P)) % P

(* Mutant: the answer reduced by the modulus, not by the order.            *)
AnswerModP(k, c, x) == (k + c * x) % P

(***************************************************************************)
(* What an honest client computes: its public key, its commitment, and its *)
(* answer to the challenge c, from its secret x and its nonce k.           *)
(***************************************************************************)
PublicKey(x)    == ModExp(G, x, P)
Commitment(k)   == ModExp(G, k, P)
Answer(k, c, x) == (k + c * x) % Q

=============================================================================
