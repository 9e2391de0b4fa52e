---------------------------- MODULE SlidingWindow ----------------------------
(***************************************************************************)
(* The second layer of the rate limiter (internal/ratelimit): the requests *)
(* of one client address in the last Window ticks, kept in Redis as a set  *)
(* sorted by the time their callers read, and changed by a script.         *)
(***************************************************************************)
EXTENDS Integers, FiniteSets

CONSTANTS
  Calls,     \* the requests; each has a member of its own in the sorted set
  Limit,     \* requests allowed in a window
  Window     \* its length in ticks; also the time to live of the key

ASSUME WindowAssumption ==
  /\ Limit \in Nat \ {0}
  /\ Window \in Nat \ {0}

VARIABLES
  entries,         \* the sorted set
  windowExpires,   \* when its key expires

  (* History. *)
  windowWaits      \* the times refused callers were told to wait for

windowVars == <<entries, windowExpires, windowWaits>>

InitWindow ==
  /\ entries = {}
  /\ windowExpires = 0
  /\ windowWaits = {}

-----------------------------------------------------------------------------

Members(clock) == IF clock >= windowExpires THEN {} ELSE entries

(* Mutant: the entry at the very edge of the window kept.                  *)
RecentAndOne(now, clock) == {e \in Members(clock) : e.score >= now - Window}

(* What ZREMRANGEBYSCORE leaves.                                           *)
Recent(now, clock) == {e \in Members(clock) : e.score > now - Window}

(* Mutant: the limit admits one more.                                      *)
HasRoomForOneMore(now, clock) == Cardinality(Recent(now, clock)) <= Limit

HasRoom(now, clock) == Cardinality(Recent(now, clock)) < Limit

OldestScore(now, clock) ==
  (CHOOSE e \in Recent(now, clock) :
     \A f \in Recent(now, clock) : e.score <= f.score).score

(* The ticks until the oldest entry leaves the window, at least one.       *)
WindowWaitMs(now, clock) ==
  LET rest == Window - (now - OldestScore(now, clock))
  IN  IF rest >= 1 THEN rest ELSE 1

(* slidingWindowScript, run at clock by a caller who read the time now.    *)
WindowScript(r, now, clock) ==
  \/ /\ HasRoom(now, clock)
     /\ entries' = Recent(now, clock) \cup {[score |-> now, member |-> r]}
     /\ windowExpires' = clock + Window
     /\ windowWaits' = {}
  \/ /\ ~HasRoom(now, clock)
     /\ entries' = Recent(now, clock)
     /\ windowWaits' = windowWaits \cup {now + WindowWaitMs(now, clock)}
     /\ UNCHANGED windowExpires

-----------------------------------------------------------------------------

WindowTypeOK ==
  /\ entries \subseteq [score : Nat, member : Calls]
  /\ windowExpires \in Nat
  /\ windowWaits \subseteq Nat

(***************************************************************************)
(* The waits announced by refusals suffice: as long as nobody was let in   *)
(* since, there is room for a caller at an announced time.                 *)
(***************************************************************************)
WindowWaitSuffices(clock) ==
  \A t \in windowWaits : HasRoom(t, clock)

=============================================================================
