---------------------------- MODULE DurableLogin ----------------------------
(***************************************************************************)
(* The authentication core over a Redis that crashes.  docker-compose.yml  *)
(* starts Redis with an append-only file, which is flushed to disk about   *)
(* once a second: after a crash Redis is what it was at some flush, and a  *)
(* challenge that was taken since then is back.  Expiry times are absolute *)
(* and hold for the file too.  PostgreSQL loses nothing it committed.      *)
(***************************************************************************)
EXTENDS AuthProperties

CONSTANT MaxRedisCrashes   \* bound

ASSUME RedisCrashAssumption == MaxRedisCrashes \in Nat

VARIABLES
  disk,      \* what the last flush left on disk of each challenge
  epoch,     \* how often Redis was restarted
  (* History. *)
  takenIn    \* the epoch in which each verify request got its challenge

durable == <<disk, epoch, takenIn>>
durableVars == <<vars, durable>>

DurableInit ==
  /\ Init
  /\ disk = [c \in Challenges |-> None]
  /\ epoch = 0
  /\ takenIn = [v \in Verifies |-> 0]

(* Mutant: an expiry that is not written to the file.                      *)
MemoryOnly(c) == disk

Expired(c) == [disk EXCEPT ![c] = None]

(* A step of the core.                                                     *)
CoreStep ==
  /\ \/ \E r \in Registers  : Register(r)
     \/ \E c \in Challenges : Challenge(c)
     \/ \E v \in Verifies   : Verify(v)
     \/ \E r \in Requests   : Return(r)
     \/ Crash
     \/ Quiescent
  /\ takenIn' = [v \in Verifies |->
                   IF pc[v] = "take" /\ pc'[v] # "take" THEN epoch
                                                        ELSE takenIn[v]]
  /\ UNCHANGED <<disk, epoch>>

(* The time of a challenge is over, in memory and on disk.                 *)
Lapse(c) ==
  /\ ChallengeTTL > 0
  /\ \/ ExpireChallenge(c)
     \/ store[c] = None /\ disk[c] # None /\ UNCHANGED vars
  /\ disk' = Expired(c)
  /\ UNCHANGED <<epoch, takenIn>>

Flush ==
  /\ disk # store
  /\ disk' = store
  /\ UNCHANGED <<vars, epoch, takenIn>>

(***************************************************************************)
(* Redis crashes and is restarted.  What becomes of the calls under way is *)
(* what may become of any call.                                            *)
(***************************************************************************)
RedisCrash ==
  /\ epoch < MaxRedisCrashes
  /\ epoch' = epoch + 1
  /\ store' = disk
  /\ UNCHANGED <<pc, body, outcome, rows, nextId, rowId, found, held, audit,
                 history, disk, takenIn>>

DurableNext ==
  \/ CoreStep
  \/ \E c \in Challenges : Lapse(c)
  \/ Flush
  \/ RedisCrash

DurableSpec == DurableInit /\ [][DurableNext]_durableVars

(* As in AuthService; nothing makes the flush come in time.                *)
DurableFairSpec ==
  /\ DurableSpec
  /\ \A r \in Requests : WF_durableVars(Steps(r) /\ CoreStep)
  /\ \A c \in Challenges : WF_durableVars(Lapse(c))

-----------------------------------------------------------------------------

(***************************************************************************)
(* Two logins with one challenge need a crash of Redis between them: those *)
(* who took it between the same two restarts did not both log in.          *)
(***************************************************************************)
ReplayNeedsRedisCrash ==
  \A v, w \in Verifies :
    /\ v # w
    /\ Granted(v) /\ Granted(w)
    /\ body[v].challengeId = body[w].challengeId
    => takenIn[v] # takenIn[w]

(***************************************************************************)
(* Every challenge is gone for good in the end, from memory and from disk: *)
(* no crash brings it back after its time.                                 *)
(***************************************************************************)
GoneForGood ==
  \A c \in Challenges :
    c \in written ~> [](store[c] = None /\ disk[c] = None)

=============================================================================
