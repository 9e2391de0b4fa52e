---------------------------- MODULE OneTimeLogin ----------------------------
(***************************************************************************)
(* What the challenge-response exchange promises, whatever the stores do:  *)
(* a challenge is issued to one user, is taken by at most one attempt, and *)
(* an attempt that logs in holds a challenge nobody else ever held and     *)
(* logs in as the user it was issued to.                                   *)
(***************************************************************************)
CONSTANTS Ids, Attempt, User, Nobody

VARIABLES
  phase,   \* of each challenge
  owner,   \* the user each challenge was issued to
  taker,   \* the attempt that took each challenge
  login    \* the user each attempt logged in as

vars == <<phase, owner, taker, login>>

Phases == {"unissued", "open", "lapsed", "taken", "spent"}

Init ==
  /\ phase = [c \in Ids |-> "unissued"]
  /\ owner = [c \in Ids |-> Nobody]
  /\ taker = [c \in Ids |-> Nobody]
  /\ login = [a \in Attempt |-> Nobody]

Issue(c, u) ==
  /\ phase[c] = "unissued"
  /\ phase' = [phase EXCEPT ![c] = "open"]
  /\ owner' = [owner EXCEPT ![c] = u]
  /\ UNCHANGED <<taker, login>>

(* Nobody took it in time.                                                 *)
Lapse(c) ==
  /\ phase[c] = "open"
  /\ phase' = [phase EXCEPT ![c] = "lapsed"]
  /\ UNCHANGED <<owner, taker, login>>

(* An attempt takes the challenge, and may fail in the same step.          *)
Take(c, a, next) ==
  /\ phase[c] = "open"
  /\ \A d \in Ids : taker[d] # a
  /\ phase' = [phase EXCEPT ![c] = next]
  /\ taker' = [taker EXCEPT ![c] = a]
  /\ UNCHANGED <<owner, login>>

(* Attempts fail: one of them, or all those a crash cuts short.            *)
Refuse(C) ==
  /\ \A c \in C : phase[c] = "taken"
  /\ phase' = [c \in Ids |-> IF c \in C THEN "spent" ELSE phase[c]]
  /\ UNCHANGED <<owner, taker, login>>

Grant(c) ==
  /\ phase[c] = "taken"
  /\ phase' = [phase EXCEPT ![c] = "spent"]
  /\ login' = [login EXCEPT ![taker[c]] = owner[c]]
  /\ UNCHANGED <<owner, taker>>

Next ==
  \/ \E c \in Ids, u \in User : Issue(c, u)
  \/ \E c \in Ids : Lapse(c) \/ Grant(c)
  \/ \E c \in Ids, a \in Attempt, next \in {"taken", "spent"} :
       Take(c, a, next)
  \/ \E C \in SUBSET Ids : Refuse(C)

Spec == Init /\ [][Next]_vars

=============================================================================
