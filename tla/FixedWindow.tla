----------------------------- MODULE FixedWindow -----------------------------
(***************************************************************************)
(* RateLimitMiddleware: a counter per route and address (one address here) *)
(* that INCR raises and that Redis drops at the end of its window, if      *)
(* somebody gave it one: INCR and EXPIRE are two calls, and the second is  *)
(* made by the caller who saw the count 1, whatever becomes of it.         *)
(***************************************************************************)
EXTENDS Naturals

CONSTANTS
  Routes,
  LimitOf,   \* per minute, by route
  Repeats    \* bound: how often go-redis sends an INCR whose reply was lost

ASSUME LimitAssumption == LimitOf \in [Routes -> Nat] /\ Repeats \in Nat \ {0}

VARIABLES counter, expiry   \* the number, and: has it a time-to-live?

window == <<counter, expiry>>

InitWindow ==
  /\ counter = [k \in Routes |-> 0]
  /\ expiry = [k \in Routes |-> FALSE]

(* INCR, run n times.                                                      *)
Incr(k, n) ==
  /\ counter' = [counter EXCEPT ![k] = @ + n]
  /\ UNCHANGED expiry

(* EXPIRE does nothing to a key that is not there.                         *)
Expire(k) ==
  /\ expiry' = [expiry EXCEPT ![k] = counter[k] > 0]
  /\ UNCHANGED counter

(* The window ends: Redis drops the key.                                   *)
Lapse(k) ==
  /\ expiry[k]
  /\ counter' = [counter EXCEPT ![k] = 0]
  /\ expiry' = [expiry EXCEPT ![k] = FALSE]

(* Mutant: the count compared with 0, the value before the INCR.           *)
StartsAtZero(count) == count = 0

StartsWindow(count) == count = 1

OverLimit(k, count) == count > LimitOf[k]

=============================================================================
