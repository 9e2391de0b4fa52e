----------------------------- MODULE RateLimiter -----------------------------
(***************************************************************************)
(* The rate limiter of a route (MultiLayerLimiter.Middleware), for the     *)
(* requests of one client address: a token bucket, then a sliding window,  *)
(* and a token given back when the window does not let the request pass.   *)
(*                                                                         *)
(* The requests are handled concurrently.  Each reads the clock and then   *)
(* calls a script, which runs up to MaxDelay ticks later.  The client      *)
(* library calls a script again when its reply is lost, up to MaxRetries   *)
(* times, although it may have run; and a call may fail, run or not.       *)
(***************************************************************************)
EXTENDS TokenBucket, SlidingWindow

CONSTANTS
  MaxDelay,     \* between the reading of the clock and the end of the call
  MaxRetries,   \* go-redis: MaxRetries
  Horizon       \* bound of the clock, for TLC

(***************************************************************************)
(* The delay is short against the window, and two delays against the life  *)
(* of an unused bucket (a request reads the clock twice between the taking *)
(* and the giving back of its token); a full bucket is refilled before an  *)
(* unused one is forgotten.                                                *)
(***************************************************************************)
ASSUME DelayAssumption ==
  /\ MaxDelay \in Nat
  /\ MaxRetries \in Nat
  /\ MaxDelay < Window
  /\ 2 * MaxDelay < BucketTTL
  /\ Full <= Rate * (BucketTTL - MaxDelay)

Answers == {"pass", "bucket limited", "window limited", "error"}

ASSUME AnswerAssumption == None \notin Answers

VARIABLES
  clock,       \* of the server and of Redis
  pc,          \* where each request is
  stamp,       \* the time it read last
  tries,       \* how often its current call was repeated
  answer,      \* what the middleware decided

  (* History. *)
  admittedAt,  \* when the script ran that let each request pass
  refunded,    \* the requests whose Rollback added a token
  faulted      \* the requests a call of which failed or was repeated

requestVars == <<pc, stamp, tries, answer, admittedAt, refunded, faulted>>
vars == <<clock, bucketVars, windowVars, requestVars>>

Init ==
  /\ InitBucket
  /\ InitWindow
  /\ clock = 0
  /\ pc = [r \in Calls |-> "idle"]
  /\ stamp = [r \in Calls |-> 0]
  /\ tries = [r \in Calls |-> 0]
  /\ answer = [r \in Calls |-> None]
  /\ admittedAt = [r \in Calls |-> None]
  /\ refunded = {}
  /\ faulted = {}

-----------------------------------------------------------------------------

Goto(r, label) ==
  /\ pc' = [pc EXCEPT ![r] = label]
  /\ tries' = [tries EXCEPT ![r] = 0]

Decide(r, a, label) ==
  /\ Goto(r, label)
  /\ answer' = [answer EXCEPT ![r] = a]

(* A call fails, or its reply is lost and it is made again.                *)
Fault(r) == faulted' = faulted \cup {r}

(* Mutant: a call repeated without end.                                    *)
RepeatWithoutEnd(r) ==
  /\ tries' = [tries EXCEPT ![r] = @ + 1]
  /\ Fault(r)

Repeat(r) ==
  /\ tries[r] < MaxRetries
  /\ tries' = [tries EXCEPT ![r] = @ + 1]
  /\ Fault(r)

(* Each of the two Allow reads the clock before it calls its script.       *)
ReadClock(r) ==
  /\ \/ pc[r] = "idle" /\ Goto(r, "bucket")
     \/ pc[r] = "next layer" /\ Goto(r, "window")
  /\ stamp' = [stamp EXCEPT ![r] = clock]
  /\ UNCHANGED <<clock, bucketVars, windowVars, answer, admittedAt, refunded,
                 faulted>>

CallBucket(r) ==
  /\ pc[r] = "bucket"
  /\ \/ /\ BucketScript(stamp[r], clock)
        /\ \/ /\ HasToken(stamp[r], clock)
              /\ Goto(r, "next layer")
              /\ UNCHANGED answer
           \/ /\ ~HasToken(stamp[r], clock)
              /\ Decide(r, "bucket limited", "done")
        /\ UNCHANGED faulted
     \/ /\ BucketScript(stamp[r], clock)
        /\ Repeat(r)
        /\ UNCHANGED <<pc, answer>>
     \/ /\ BucketScript(stamp[r], clock) \/ UNCHANGED bucketVars
        /\ Decide(r, "error", "done")
        /\ Fault(r)
  /\ UNCHANGED <<clock, windowVars, stamp, admittedAt, refunded>>

CallWindow(r) ==
  /\ pc[r] = "window"
  /\ \/ /\ WindowScript(r, stamp[r], clock)
        /\ \/ /\ HasRoom(stamp[r], clock)
              /\ Decide(r, "pass", "done")
              /\ admittedAt' = [admittedAt EXCEPT ![r] = clock]
           \/ /\ ~HasRoom(stamp[r], clock)
              /\ Decide(r, "window limited", "give back")
              /\ UNCHANGED admittedAt
        /\ UNCHANGED faulted
     \/ /\ WindowScript(r, stamp[r], clock)
        /\ Repeat(r)
        /\ UNCHANGED <<pc, answer, admittedAt>>
     \/ /\ WindowScript(r, stamp[r], clock) \/ UNCHANGED windowVars
        /\ Decide(r, "error", "give back")
        /\ Fault(r)
        /\ UNCHANGED admittedAt
  /\ UNCHANGED <<clock, bucketVars, stamp, refunded>>

(* Rollback ignores every error, that of a fractional field included.      *)
GiveBack(r) ==
  /\ pc[r] = "give back"
  /\ \/ /\ HIncrBy(clock)
        /\ refunded' = IF CanReturn(clock) THEN refunded \cup {r} ELSE refunded
        /\ Goto(r, "done")
        /\ UNCHANGED faulted
     \/ /\ HIncrBy(clock)
        /\ Repeat(r)
        /\ UNCHANGED <<pc, refunded>>
     \/ /\ HIncrBy(clock) \/ UNCHANGED bucketVars
        /\ Goto(r, "done")
        /\ Fault(r)
        /\ UNCHANGED refunded
  /\ UNCHANGED <<clock, windowVars, stamp, answer, admittedAt>>

Pending == {r \in Calls : pc[r] \notin {"idle", "done"}}

Tick ==
  /\ clock < Horizon
  /\ \A r \in Pending : clock - stamp[r] < MaxDelay
  /\ clock' = clock + 1
  /\ Drain
  /\ UNCHANGED <<bucket, returned, setBack, bucketWaits, windowVars,
                 requestVars>>

(* The last request was answered, or none came.                            *)
Rest == Pending = {} /\ UNCHANGED vars

Next ==
  \/ \E r \in Calls :
       ReadClock(r) \/ CallBucket(r) \/ CallWindow(r) \/ GiveBack(r)
  \/ Tick
  \/ Rest

Spec == Init /\ [][Next]_vars

-----------------------------------------------------------------------------

TypeOK ==
  /\ BucketTypeOK
  /\ WindowTypeOK
  /\ clock \in Nat
  /\ pc \in [Calls -> {"idle", "bucket", "next layer", "window", "give back",
                       "done"}]
  /\ stamp \in [Calls -> Nat]
  /\ tries \in [Calls -> 0 .. MaxRetries]
  /\ answer \in [Calls -> Answers \cup {None}]
  /\ admittedAt \in [Calls -> Nat \cup {None}]
  /\ refunded \subseteq Calls
  /\ faulted \subseteq Calls

(***************************************************************************)
(* The window keeps its promise, less the delay: in any Window - MaxDelay  *)
(* ticks on end at most Limit requests pass, although a late script sees   *)
(* a window whose oldest entries were removed by one that read the clock   *)
(* later, and although the key of the set may expire.                      *)
(***************************************************************************)
AtMostLimitPerWindow ==
  \A r \in Calls : admittedAt[r] # None =>
    Cardinality({q \in Calls :
                   /\ admittedAt[q] # None
                   /\ admittedAt[q] <= admittedAt[r]
                   /\ admittedAt[q] > admittedAt[r] - (Window - MaxDelay)})
      <= Limit

(* See TokenBucket and SlidingWindow.                                      *)
BurstBounded      == BurstIsBounded(MaxDelay)
BucketKeepsWord   == BucketWaitSuffices(clock)
WindowKeepsWord   == WindowWaitSuffices(clock)

(***************************************************************************)
(* "When the window layer refuses, the token bucket is compensated": a     *)
(* request the window refused gets its token back, if no call failed.      *)
(***************************************************************************)
RefusalIsFree ==
  \A r \in Calls :
    pc[r] = "done" /\ answer[r] = "window limited" /\ r \notin faulted
      => r \in refunded

=============================================================================
