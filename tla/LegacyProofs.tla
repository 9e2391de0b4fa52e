----------------------------- MODULE LegacyProofs -----------------------------
(***************************************************************************)
(* Proofs about the first version of the service, for any number of        *)
(* requests, users and texts, any limits and any number of failures.       *)
(***************************************************************************)
EXTENDS Legacy, AuthServiceProofs

USE RequestAssumption, ValueAssumption, BodyAssumption, DevAssumption,
    LimitAssumption

-----------------------------------------------------------------------------
(* The invariant, in parts.                                                *)

LegacyLabels == {"idle", "incr", "expire", "count", "create", "commit", "lookup",
                 "cache", "take", "check", "del", "return", "done", "lost"}

Early == {"idle", "incr", "expire"}    \* the handler proper was not entered
Ended == {"return", "done", "lost"}
Over  == {"done", "lost"}

LegacyReasons == Reasons \cup {"too_many_requests", "rate_limit_error"}

(***************************************************************************)
(* The state is well typed, as far as the proofs need it: the bodies that  *)
(* were not refused yet may have empty fields.                             *)
(***************************************************************************)
LegacyType ==
  /\ pc \in [Requests -> LegacyLabels]
  /\ body = [r \in Requests |-> body[r]]
  /\ outcome \in [Requests -> LegacyReasons \cup {None}]
  /\ nextId \in Nat \ {0}
  /\ rowId \in [Registers -> Nat]
  /\ store = [c \in Challenges |-> store[c]]
  /\ written \subseteq Challenges
  /\ found = [r \in Requests |-> found[r]]
  /\ held = [v \in Verifies |-> held[v]]
  /\ before \in [Requests -> SUBSET Requests]
  /\ counter \in [Routes -> Nat]
  /\ expiry \in [Routes -> BOOLEAN]
  /\ \A r \in Requests : /\ pc[r] = "idle" => before[r] = {}
                         /\ outcome[r] # None => pc[r] \in Ended
  /\ \A v \in Verifies : /\ body[v] # None => body[v] \in VerifyBodies
                         /\ pc[v] = "idle" <=> body[v] = None
                         /\ pc[v] \notin Early \cup Over => WellFormed(body[v])

(***************************************************************************)
(* The requests that were over when one came are over.                     *)
(***************************************************************************)
BeforeInv ==
  \A r \in Requests : \A q \in before[r] :
    /\ pc[q] \in Over
    /\ {q, r} \subseteq Registers \/ {q, r} \subseteq Verifies

(***************************************************************************)
(* A row is that of a registration that is past its commit.                *)
(***************************************************************************)
LegacyRowInv ==
  /\ \A r \in Registers : /\ rowId[r] < nextId
                          /\ pc[r] \in Early \cup {"count", "create"} => rowId[r] = 0
                          /\ pc[r] = "commit" => rowId[r] # 0
  /\ \A r, q \in Registers : rowId[r] = rowId[q] /\ rowId[r] # 0 => r = q
  /\ \A row \in rows : \E r \in Registers :
       rowId[r] # 0 /\ pc[r] \in Ended /\ row = RowFor(r)

(***************************************************************************)
(* A registration that came when one of the same username was over, and    *)
(* had added its row, will not add another.                                *)
(***************************************************************************)
SecondRowInv ==
  \A r \in Registers : \A q \in before[r] :
    /\ AddedARow(q)
    /\ body[q].username = body[r].username
    => \/ r \in DevProofs \cap faulted
       \/ rowId[r] = 0 /\ pc[r] \notin {"create", "commit"}

(***************************************************************************)
(* Redis holds what the requests wrote, and a verify request that is past  *)
(* its GET holds the entry of the challenge it names, and agrees with it;  *)
(* past the evaluation, it has found a key that is in the table.           *)
(***************************************************************************)
LegacyEntryInv ==
  \A c \in Challenges :
    /\ c \in written => pc[c] \in Ended
    /\ store[c] # None => c \in written /\ store[c] = CacheEntry(c)

Agrees(v, c) ==
  /\ c \in written
  /\ body[c].username = body[v].username
  /\ body[c].clientR = body[v].clientR
  /\ held[v] = CacheEntry(c)

LegacyHoldInv ==
  \A v \in Verifies :
    /\ pc[v] \in {"check", "del"} => Agrees(v, body[v].challengeId)
    /\ pc[v] = "del" => \E row \in RowsOf(body[v].username) :
                           row.publicKeyY = found[v]

(***************************************************************************)
(* An evaluation whose DEL did not fail leaves no challenge, and a request *)
(* that comes after it gets nothing to evaluate.                           *)
(***************************************************************************)
SpentInv ==
  /\ \A v \in Verifies : Evaluated(v) /\ v \notin faulted =>
       /\ body[v].challengeId \in written
       /\ store[body[v].challengeId] = None
  /\ \A w \in Verifies : \A v \in before[w] :
       /\ Evaluated(v) /\ v \notin faulted
       /\ body[v].challengeId = body[w].challengeId
       => pc[w] \notin {"check", "del"} /\ ~Evaluated(w)

LegacyInv ==
  /\ LegacyType /\ BeforeInv
  /\ LegacyRowInv /\ SecondRowInv
  /\ LegacyEntryInv /\ LegacyHoldInv /\ LoginIsAuthentic /\ SpentInv
  /\ StuckCounterHasACause

-----------------------------------------------------------------------------
(* Who changes what.                                                       *)

(***************************************************************************)
(* The step of the request r, by the kind of request.                      *)
(***************************************************************************)
Comes(r) ==
  \E b : Arrive(r, b) /\ (r \in Verifies => b \in VerifyBodies /\ IdKnown(b))

OwnStep(r) ==
  \/ Comes(r)
  \/ Limit(r)
  \/ r \in Registers /\ (CountByUsername(r) \/ InsertUser(r) \/ CommitUser(r))
                     /\ UNCHANGED limiter
  \/ r \in DevProofs /\ DevCount(r)
  \/ r \in Challenges /\ (LookupForChallenge(r) \/ CacheChallenge(r))
                      /\ UNCHANGED limiter
  \/ r \in Verifies /\ (GetChallenge(r) \/ EvaluateProof(r) \/ DelChallenge(r))
  \/ Respond(r)

(***************************************************************************)
(* Everything the handler of r has of its own.                             *)
(***************************************************************************)
Keeps(r) ==
  /\ body'[r] = body[r] /\ outcome'[r] = outcome[r]
  /\ found'[r] = found[r] /\ before'[r] = before[r]
  /\ r \in Registers => rowId'[r] = rowId[r]
  /\ r \in Verifies => held'[r] = held[r]

Rests(r) == Keeps(r) /\ pc'[r] = pc[r]

(***************************************************************************)
(* No step touches another request, but for a crash of the server.         *)
(***************************************************************************)
LEMMA OthersRest ==
  ASSUME LegacyType, NEW q \in Requests, OwnStep(q), NEW r \in Requests, r # q
  PROVE  Rests(r)
<1> USE DEF LegacyType, Goto, Finish, Reply, Rests, Keeps, limiter
<1>1. ASSUME NEW b, Arrive(q, b)
      PROVE  Rests(r)
  BY <1>1 DEF Arrive, Enter, backend
<1>2. CASE Limit(q)
  BY <1>2 DEF Limit, CallIncr, CallExpire, Decide, Enter, backend
<1>3. CASE (CountByUsername(q) \/ InsertUser(q) \/ CommitUser(q)) /\ UNCHANGED limiter
  BY <1>3 DEF CountByUsername, InsertUser, CommitUser, backend
<1>4. CASE DevCount(q)
  BY <1>4 DEF DevCount, backend
<1>5. CASE (LookupForChallenge(q) \/ CacheChallenge(q)) /\ UNCHANGED limiter
  BY <1>5 DEF LookupForChallenge, CacheChallenge, backend
<1>6. CASE GetChallenge(q) \/ EvaluateProof(q) \/ DelChallenge(q)
  BY <1>6 DEF GetChallenge, EvaluateProof, DelChallenge, backend
<1>7. CASE Respond(q)
  BY <1>7 DEF Respond, backend
<1> QED
  BY <1>1, <1>2, <1>3, <1>4, <1>5, <1>6, <1>7 DEF OwnStep, Comes

(***************************************************************************)
(* A step is that of a request, a crash, or one of Redis and the clock,    *)
(* which leaves the requests, the table and the history alone.             *)
(***************************************************************************)
Tidies ==
  /\ UNCHANGED <<pc, body, outcome, rows, nextId, rowId, found, held, before,
                 written, faulted, unlimited>>
  /\ \/ /\ \E c \in Challenges : store' = [store EXCEPT ![c] = None]
        /\ UNCHANGED window
     \/ /\ \E k \in Routes : Lapse(k)
        /\ UNCHANGED store
     \/ UNCHANGED <<store, window>>

Dies ==
  /\ Crash
  /\ UNCHANGED <<body, outcome, rows, nextId, rowId, found, held, before, store,
                 written, faulted, unlimited, window>>

(***************************************************************************)
(* Every step is of one of the three kinds.                                *)
(***************************************************************************)
LEMMA LegacySteps ==
  ASSUME [LegacyNext]_legacyVars
  PROVE  (\E r \in Requests : OwnStep(r)) \/ Tidies \/ Dies
<1> USE DEF limiter, window, backend, history, vars
<1>1. CASE UNCHANGED legacyVars
  BY <1>1 DEF legacyVars, Tidies
<1>2. CASE \E r \in Registers \ DevProofs : LegacyRegister(r)
  BY <1>2 DEF LegacyRegister, OwnStep, Comes, Requests
<1>3. CASE \E d \in DevProofs : DevProof(d)
  BY <1>3 DEF DevProof, OwnStep, Comes, Requests
<1>4. CASE \E c \in Challenges : LegacyChallenge(c)
  BY <1>4 DEF LegacyChallenge, OwnStep, Comes, Requests
<1>5. CASE \E v \in Verifies : LegacyVerify(v)
  BY <1>5 DEF LegacyVerify, OwnStep, Comes, Requests
<1>6. CASE \E r \in Requests : Respond(r)
  BY <1>6 DEF OwnStep
<1>7. CASE Crash /\ UNCHANGED limiter
  BY <1>7 DEF Crash, Dies
<1>8. CASE Quiescent /\ UNCHANGED limiter
  BY <1>8 DEF Quiescent, Tidies
<1>9. CASE (\E c \in Challenges : ExpireChallenge(c)) /\ UNCHANGED limiter
  BY <1>9 DEF ExpireChallenge, Tidies
<1>10. CASE \E k \in Routes : Lapse(k) /\ UNCHANGED <<vars, before, unlimited>>
  BY <1>10 DEF Tidies
<1> QED
  BY <1>1, <1>2, <1>3, <1>4, <1>5, <1>6, <1>7, <1>8, <1>9, <1>10
  DEF LegacyNext, LegacyStep

(***************************************************************************)
(* Before the handler proper, a request has touched nothing but its        *)
(* counter.                                                                *)
(***************************************************************************)
LEMMA EarlySteps ==
  ASSUME LegacyType, NEW r \in Requests, Comes(r) \/ Limit(r)
  PROVE  /\ pc[r] \in Early
         /\ pc'[r] \in {"incr", "expire", "done", "count", "lookup", "take"}
         /\ pc'[r] = "count" => r \in Registers
         /\ pc'[r] = "lookup" => r \in Challenges
         /\ pc'[r] = "take" => r \in Verifies /\ WellFormed(body'[r])
         /\ \/ outcome'[r] = outcome[r]
            \/ /\ pc'[r] = "done"
               /\ outcome'[r] \in {"bad_request", "too_many_requests",
                                   "rate_limit_error"}
         /\ \/ /\ pc[r] = "idle" /\ before'[r] = OverBefore(r)
               /\ r \in Verifies => body'[r] \in VerifyBodies
            \/ pc[r] # "idle" /\ body'[r] = body[r] /\ before'[r] = before[r]
         /\ UNCHANGED <<rows, nextId, rowId, store, found, held, written, faulted>>
         /\ unlimited \subseteq unlimited'
<1> USE DEF LegacyType, Goto, Reply, backend, history, Early, window
<1>1. ASSUME NEW b, Enter(r, b)
      PROVE  /\ pc'[r] \in {"done", "count", "lookup", "take"}
             /\ pc'[r] = "count" => r \in Registers
             /\ pc'[r] = "lookup" => r \in Challenges
             /\ pc'[r] = "take" => r \in Verifies /\ WellFormed(b)
             /\ \/ outcome'[r] = outcome[r]
                \/ pc'[r] = "done" /\ outcome'[r] = "bad_request"
  BY <1>1 DEF Enter, Requests
<1>2. ASSUME NEW n, Decide(r, n)
      PROVE  /\ pc'[r] \in {"done", "count", "lookup", "take"}
             /\ pc'[r] = "count" => r \in Registers
             /\ pc'[r] = "lookup" => r \in Challenges
             /\ pc'[r] = "take" => r \in Verifies /\ WellFormed(body[r])
             /\ \/ outcome'[r] = outcome[r]
                \/ pc'[r] = "done" /\ outcome'[r] \in {"bad_request", "too_many_requests"}
  <2>1. CASE Reply(r, "too_many_requests")
    BY <2>1
  <2>2. CASE Enter(r, body[r])
    BY <1>1, <2>2
  <2> QED
    BY <1>2, <2>1, <2>2 DEF Decide
<1>3. ASSUME NEW b, Arrive(r, b), r \in Verifies => b \in VerifyBodies
      PROVE  /\ pc[r] = "idle" /\ body'[r] = b /\ before'[r] = OverBefore(r)
             /\ UNCHANGED <<rows, nextId, rowId, store, found, held, written, faulted,
                            unlimited>>
             /\ \/ pc'[r] = "incr" /\ outcome'[r] = outcome[r]
                \/ Enter(r, b)
  BY <1>3 DEF Arrive
<1>4. ASSUME CallIncr(r)
      PROVE  /\ pc[r] = "incr" /\ body' = body /\ before' = before
             /\ UNCHANGED <<rows, nextId, rowId, store, found, held, written, faulted>>
             /\ unlimited \subseteq unlimited'
             /\ \/ pc'[r] = "expire" /\ outcome'[r] = outcome[r]
                \/ pc'[r] = "done" /\ outcome'[r] = "rate_limit_error"
                \/ \E n : Decide(r, n)
  BY <1>4 DEF CallIncr
<1>5. ASSUME CallExpire(r)
      PROVE  /\ pc[r] = "expire" /\ body' = body /\ before' = before
             /\ UNCHANGED <<rows, nextId, rowId, store, found, held, written, faulted>>
             /\ unlimited \subseteq unlimited'
             /\ Decide(r, 1)
  BY <1>5 DEF CallExpire
<1>6. CASE Comes(r)
  <2>1. PICK b : Arrive(r, b) /\ (r \in Verifies => b \in VerifyBodies)
    BY <1>6 DEF Comes
  <2> QED
    BY <1>1, <1>3, <2>1
<1>7. CASE CallIncr(r)
  BY <1>2, <1>4, <1>7
<1>8. CASE CallExpire(r)
  BY <1>2, <1>5, <1>8
<1> QED
  BY <1>6, <1>7, <1>8 DEF Limit

(***************************************************************************)
(* The steps of the handlers proper: the label each of them starts from,   *)
(* and the labels it leads to.                                             *)
(***************************************************************************)
LEMMA HandlerSteps ==
  ASSUME LegacyType, NEW r \in Requests, OwnStep(r), ~Comes(r), ~Limit(r)
  PROVE  /\ pc[r] \notin Early \cup Over
         /\ pc'[r] \in {"create", "commit", "cache", "check", "del", "return", "done"}
         /\ pc'[r] = "done" <=> pc[r] = "return"
         /\ pc'[r] = "create" => /\ r \in Registers /\ pc[r] = "count"
                                 /\ \/ CountByUsername(r)
                                    \/ r \in DevProofs /\ DevCount(r)
         /\ pc'[r] = "commit" => r \in Registers /\ InsertUser(r)
         /\ pc'[r] = "check" => r \in Verifies /\ GetChallenge(r)
         /\ pc'[r] = "del" => r \in Verifies /\ EvaluateProof(r)
         /\ outcome'[r] = outcome[r] \/ pc'[r] = "return"
         /\ body' = body /\ before' = before
         /\ faulted \subseteq faulted' /\ UNCHANGED <<unlimited, window>>
         /\ written' \subseteq written \cup Challenges
<1> USE DEF LegacyType, Goto, Finish, Fault, backend, history, limiter, Early, Over
<1>1. CASE r \in Registers /\ UNCHANGED limiter
           /\ (CountByUsername(r) \/ InsertUser(r) \/ CommitUser(r))
  BY <1>1 DEF CountByUsername, InsertUser, CommitUser
<1>2. CASE r \in DevProofs /\ DevCount(r)
  BY <1>2 DEF DevCount
<1>3. CASE r \in Challenges /\ UNCHANGED limiter
           /\ (LookupForChallenge(r) \/ CacheChallenge(r))
  BY <1>3 DEF LookupForChallenge, CacheChallenge, SetChallenge
<1>4. CASE r \in Verifies /\ (GetChallenge(r) \/ EvaluateProof(r) \/ DelChallenge(r))
  BY <1>4 DEF GetChallenge, EvaluateProof, DelChallenge
<1>5. CASE Respond(r)
  BY <1>5 DEF Respond
<1> QED
  BY <1>1, <1>2, <1>3, <1>4, <1>5 DEF OwnStep

(***************************************************************************)
(* The variables keep their types.                                         *)
(***************************************************************************)
LegacyShape ==
  /\ pc \in [Requests -> LegacyLabels]
  /\ body = [r \in Requests |-> body[r]]
  /\ outcome \in [Requests -> LegacyReasons \cup {None}]
  /\ nextId \in Nat \ {0}
  /\ rowId \in [Registers -> Nat]
  /\ store = [c \in Challenges |-> store[c]]
  /\ found = [r \in Requests |-> found[r]]
  /\ held = [v \in Verifies |-> held[v]]
  /\ before \in [Requests -> SUBSET Requests]
  /\ counter \in [Routes -> Nat]
  /\ expiry \in [Routes -> BOOLEAN]

(***************************************************************************)
(* Every step of a request keeps the shapes of the variables.              *)
(***************************************************************************)
LEMMA ShapeKept ==
  ASSUME LegacyType, NEW q \in Requests, OwnStep(q)
  PROVE  LegacyShape'
<1>0. LegacyShape
  BY DEF LegacyType, LegacyShape
<1>a. /\ Reasons \subseteq LegacyReasons
      /\ {"too_many_requests", "rate_limit_error"} \subseteq LegacyReasons
  BY DEF LegacyReasons
<1> USE <1>0, <1>a DEF LegacyShape, LegacyLabels
<1>1. ASSUME NEW b, Enter(q, b)
      PROVE  /\ pc' \in [Requests -> LegacyLabels]
             /\ outcome' \in [Requests -> LegacyReasons \cup {None}]
  BY <1>1, ReasonFacts DEF Enter, Reply, Goto, Requests
<1>2. ASSUME NEW n, Decide(q, n)
      PROVE  /\ pc' \in [Requests -> LegacyLabels]
             /\ outcome' \in [Requests -> LegacyReasons \cup {None}]
  BY <1>1, <1>2 DEF Decide, Reply, Goto
<1>3. ASSUME NEW b, Arrive(q, b)
      PROVE  LegacyShape'
  <2>1. OverBefore(q) \subseteq Requests
    BY DEF OverBefore
  <2>2. /\ pc' \in [Requests -> LegacyLabels]
        /\ outcome' \in [Requests -> LegacyReasons \cup {None}]
    BY <1>1, <1>3 DEF Arrive, Goto
  <2> QED
    BY <1>3, <2>1, <2>2 DEF Arrive, backend, window
<1>4. CASE CallIncr(q)
  <2>1. /\ pc' \in [Requests -> LegacyLabels]
        /\ outcome' \in [Requests -> LegacyReasons \cup {None}]
    <3>1. CASE \E n : Decide(q, n)
      BY <1>2, <3>1
    <3>2. CASE Reply(q, "rate_limit_error")
      BY <3>2 DEF Reply, Goto
    <3>3. CASE Goto(q, "expire") /\ UNCHANGED outcome
      BY <3>3 DEF Goto
    <3> QED
      BY <1>4, <3>1, <3>2, <3>3 DEF CallIncr
  <2>2. PICK n \in Nat : Incr(RouteOf(q), n)
    <3>1. 1 .. Repeats \subseteq Nat /\ 0 .. Repeats \subseteq Nat
      OBVIOUS
    <3> QED
      BY <1>4, <3>1, Zenon DEF CallIncr
  <2>3. /\ counter' \in [Routes -> Nat]
        /\ expiry' \in [Routes -> BOOLEAN]
    <3> DEFINE k == RouteOf(q)
    <3>1. counter' = [counter EXCEPT ![k] = counter[k] + n] /\ expiry' = expiry
      BY <2>2 DEF Incr
    <3>2. k \in Routes => counter[k] + n \in Nat
      BY <2>2
    <3> HIDE DEF k
    <3> QED
      BY <3>1, <3>2
  <2> QED
    BY <1>4, <2>1, <2>3 DEF CallIncr, backend
<1>5. CASE CallExpire(q)
  <2>1. /\ pc' \in [Requests -> LegacyLabels]
        /\ outcome' \in [Requests -> LegacyReasons \cup {None}]
    BY <1>2, <1>5 DEF CallExpire
  <2>2. /\ counter' \in [Routes -> Nat]
        /\ expiry' \in [Routes -> BOOLEAN]
    <3>1. CASE Expire(RouteOf(q))
      <4> DEFINE some == counter[RouteOf(q)] > 0
      <4>1. some \in BOOLEAN
        OBVIOUS
      <4>2. expiry' = [expiry EXCEPT ![RouteOf(q)] = some] /\ counter' = counter
        BY <3>1 DEF Expire
      <4> HIDE DEF some
      <4> QED
        BY <4>1, <4>2, Zenon
    <3>2. CASE UNCHANGED window
      BY <3>2 DEF window
    <3> QED
      BY <1>5, <3>1, <3>2 DEF CallExpire
  <2> QED
    BY <1>5, <2>1, <2>2 DEF CallExpire, backend
<1>6. CASE UNCHANGED limiter
           /\ (CountByUsername(q) \/ InsertUser(q) \/ CommitUser(q))
  BY <1>6, ReasonFacts DEF CountByUsername, InsertUser, CommitUser, Goto, Finish,
                           backend, limiter, window
<1>7. CASE DevCount(q)
  BY <1>7, ReasonFacts DEF DevCount, Goto, Finish, backend, limiter, window
<1>8. CASE UNCHANGED limiter /\ (LookupForChallenge(q) \/ CacheChallenge(q))
  BY <1>8, ReasonFacts DEF LookupForChallenge, CacheChallenge, SetChallenge, Goto,
                           Finish, backend, limiter, window
<1>9. CASE GetChallenge(q)
  BY <1>9, ReasonFacts DEF GetChallenge, Goto, Finish, backend, limiter, window
<1>10. CASE EvaluateProof(q)
  BY <1>10, ReasonFacts, VerdictIsReason
  DEF EvaluateProof, Goto, Finish, backend, limiter, window
<1>11. CASE DelChallenge(q)
  BY <1>11, ReasonFacts, VerdictIsReason
  DEF DelChallenge, Goto, Finish, backend, limiter, window
<1>12. CASE Respond(q)
  BY <1>12 DEF Respond, Goto, backend, limiter, window
<1> QED
  BY <1>3, <1>4, <1>5, <1>6, <1>7, <1>8, <1>9, <1>10, <1>11, <1>12
  DEF OwnStep, Comes, Limit

(***************************************************************************)
(* No verdict before the handler is done, no history before the request.   *)
(***************************************************************************)
LEMMA OwnType ==
  ASSUME LegacyType, NEW q \in Requests, OwnStep(q)
  PROVE  LegacyType'
<1>0. LegacyShape'
  BY ShapeKept
<1>a. \A r \in Requests : r # q => Rests(r)
  BY OthersRest
<1>b. /\ pc[q] = "idle" => before[q] = {}
      /\ outcome[q] # None => pc[q] \in Ended
      /\ q \in Verifies => /\ body[q] # None => body[q] \in VerifyBodies
                           /\ pc[q] = "idle" <=> body[q] = None
                           /\ pc[q] \notin Early \cup Over => WellFormed(body[q])
  BY DEF LegacyType
<1>1. /\ pc'[q] = "idle" => before'[q] = {}
      /\ outcome'[q] # None => pc'[q] \in Ended
      /\ q \in Verifies => /\ body'[q] # None => body'[q] \in VerifyBodies
                           /\ pc'[q] = "idle" <=> body'[q] = None
                           /\ pc'[q] \notin Early \cup Over => WellFormed(body'[q])
  <2>1. CASE Comes(q) \/ Limit(q)
    <3>1. /\ pc[q] \in Early
          /\ pc'[q] \in {"incr", "expire", "done", "count", "lookup", "take"}
          /\ pc'[q] = "count" => q \in Registers
          /\ pc'[q] = "lookup" => q \in Challenges
          /\ pc'[q] = "take" => q \in Verifies /\ WellFormed(body'[q])
          /\ outcome'[q] = outcome[q] \/ pc'[q] = "done"
          /\ \/ pc[q] = "idle" /\ (q \in Verifies => body'[q] \in VerifyBodies)
             \/ pc[q] # "idle" /\ body'[q] = body[q]
      BY <2>1, EarlySteps
    <3> QED
      BY <1>b, <3>1 DEF Early, Over, Ended
  <2>2. CASE ~Comes(q) /\ ~Limit(q)
    <3>1. /\ pc[q] \notin Early \cup Over
          /\ pc'[q] \in {"create", "commit", "cache", "check", "del", "return", "done"}
          /\ pc'[q] = "done" <=> pc[q] = "return"
          /\ outcome'[q] = outcome[q] \/ pc'[q] = "return"
          /\ body' = body
      BY <2>2, HandlerSteps
    <3>2. pc'[q] \in Ended \/ outcome'[q] = None
      BY <1>b, <3>1 DEF Early, Over, Ended
    <3> QED
      BY <1>b, <3>1, <3>2 DEF Early, Over, Ended
  <2> QED
    BY <2>1, <2>2
<1>2. ASSUME NEW r \in Requests
      PROVE  /\ pc'[r] = "idle" => before'[r] = {}
             /\ outcome'[r] # None => pc'[r] \in Ended
  BY <1>a, <1>1 DEF Rests, Keeps, LegacyType
<1>3. ASSUME NEW v \in Verifies
      PROVE  /\ body'[v] # None => body'[v] \in VerifyBodies
             /\ pc'[v] = "idle" <=> body'[v] = None
             /\ pc'[v] \notin Early \cup Over => WellFormed(body'[v])
  <2>1. v \in Requests
    BY DEF Requests
  <2> QED
    BY <1>a, <1>1, <2>1 DEF Rests, Keeps, LegacyType
<1>4. written' \subseteq Challenges
  BY EarlySteps, HandlerSteps DEF LegacyType
<1> QED
  BY <1>0, <1>2, <1>3, <1>4 DEF LegacyShape, LegacyType

(***************************************************************************)
(* The steps of nobody keep the types as well.                             *)
(***************************************************************************)
LEMMA TidyType ==
  ASSUME LegacyType, Tidies \/ Dies
  PROVE  LegacyType'
<1>1. CASE Tidies
  <2>1. UNCHANGED <<pc, body, outcome, nextId, rowId, found, held, before, written>>
    BY <1>1 DEF Tidies
  <2>2. store' = [c \in Challenges |-> store'[c]]
    BY <1>1 DEF Tidies, LegacyType
  <2>3. counter' \in [Routes -> Nat] /\ expiry' \in [Routes -> BOOLEAN]
    <3>1. CASE \E k \in Routes : Lapse(k)
      <4>1. counter' \in [Routes -> Nat]
        BY <3>1 DEF Lapse, LegacyType
      <4>2. expiry' \in [Routes -> BOOLEAN]
        BY <3>1, Zenon DEF Lapse, LegacyType
      <4> QED
        BY <4>1, <4>2
    <3>2. CASE UNCHANGED window
      BY <3>2 DEF window, LegacyType
    <3> QED
      BY <1>1, <3>1, <3>2 DEF Tidies
  <2> QED
    BY <2>1, <2>2, <2>3 DEF LegacyType
<1>2. CASE Dies
  <2>1. UNCHANGED <<body, outcome, nextId, rowId, found, held, before, store,
                    written, counter, expiry>>
    BY <1>2 DEF Dies, window
  <2>2. /\ pc' \in [Requests -> LegacyLabels]
        /\ \A r \in Requests :
             \/ pc'[r] = pc[r]
             \/ pc[r] # "idle" /\ pc'[r] = "lost"
    BY <1>2 DEF Dies, Crash, InFlight, LegacyType, LegacyLabels
  <2>3. \A v \in Verifies : v \in Requests
    BY DEF Requests
  <2> QED
    BY <2>1, <2>2, <2>3 DEF LegacyType, Ended, Over, Early
<1> QED
  BY <1>1, <1>2

-----------------------------------------------------------------------------
(* What the steps have in common.                                          *)

LegacyMove == (\E q \in Requests : OwnStep(q)) \/ Tidies \/ Dies

(***************************************************************************)
(* Every step keeps the types.                                             *)
(***************************************************************************)
LEMMA MoveType == LegacyType /\ LegacyMove => LegacyType'
  BY OwnType, TidyType DEF LegacyMove

(***************************************************************************)
(* What a request has is left alone once its outcome is known, by its own  *)
(* response and by everybody else.                                         *)
(***************************************************************************)
LEMMA EndedKeeps ==
  ASSUME LegacyType, LegacyMove, NEW r \in Requests, pc[r] \in Ended
  PROVE  /\ Keeps(r) /\ pc'[r] \in Ended
         /\ pc[r] \in Over => pc'[r] = pc[r]
<1>1. CASE Tidies
  BY <1>1 DEF Tidies, Keeps
<1>2. CASE Dies
  <2>1. /\ UNCHANGED <<body, outcome, rowId, found, held, before>>
        /\ pc' = [x \in Requests |-> IF x \in InFlight THEN "lost" ELSE pc[x]]
    BY <1>2 DEF Dies, Crash
  <2> QED
    BY <2>1 DEF Keeps, Ended, Over, InFlight
<1>3. ASSUME NEW q \in Requests, OwnStep(q)
      PROVE  /\ Keeps(r) /\ pc'[r] \in Ended
             /\ pc[r] \in Over => pc'[r] = pc[r]
  <2>1. CASE q # r
    BY <1>3, <2>1, OthersRest DEF Rests
  <2>2. CASE q = r
    <3>1. ~Comes(r) /\ ~Limit(r)
      BY EarlySteps DEF Early, Ended
    <3>2. pc[r] = "return" /\ pc'[r] = "done"
      BY <1>3, <2>2, <3>1, HandlerSteps DEF Ended, Over
    <3>3. Respond(r)
      BY <1>3, <2>2, <3>1, <3>2
      DEF OwnStep, CountByUsername, InsertUser, CommitUser, DevCount,
          LookupForChallenge, CacheChallenge, GetChallenge, EvaluateProof,
          DelChallenge
    <3> QED
      BY <3>2, <3>3 DEF Respond, Keeps, Ended, Over, backend, limiter
  <2> QED
    BY <2>1, <2>2
<1> QED
  BY <1>1, <1>2, <1>3 DEF LegacyMove

(***************************************************************************)
(* The requests that were over when one came stay over.                    *)
(***************************************************************************)
LEMMA BeforeKept ==
  ASSUME LegacyType, BeforeInv, LegacyMove
  PROVE  BeforeInv'
<1> SUFFICES ASSUME NEW r \in Requests, NEW q \in before'[r]
             PROVE  /\ pc'[q] \in Over
                    /\ {q, r} \subseteq Registers \/ {q, r} \subseteq Verifies
  BY DEF BeforeInv
<1>1. CASE q \in before[r]
  <2>1. /\ q \in Requests /\ pc[q] \in Over
        /\ {q, r} \subseteq Registers \/ {q, r} \subseteq Verifies
    BY <1>1 DEF BeforeInv, LegacyType
  <2>2. pc'[q] = pc[q]
    BY <2>1, EndedKeeps DEF Over, Ended
  <2> QED
    BY <2>1, <2>2
<1>2. CASE q \notin before[r]
  <2>1. OwnStep(r)
    BY <1>2, OthersRest DEF LegacyMove, Rests, Keeps, Tidies, Dies
  <2>2. pc[r] = "idle" /\ before'[r] = OverBefore(r)
    BY <1>2, <2>1, EarlySteps, HandlerSteps
  <2>3. /\ q \in Requests /\ pc[q] \in Over
        /\ {q, r} \subseteq Registers \/ {q, r} \subseteq Verifies
    BY <2>2 DEF OverBefore, Over
  <2>4. pc'[q] = pc[q]
    BY <2>3, EndedKeeps DEF Over, Ended
  <2> QED
    BY <2>3, <2>4
<1> QED
  BY <1>1, <1>2

-----------------------------------------------------------------------------
(* The table.                                                              *)

(***************************************************************************)
(* Keys are drawn by INSERT, rows are added by COMMIT.                     *)
(***************************************************************************)
LEMMA TableSteps ==
  ASSUME LegacyType, LegacyMove
  PROVE  \/ UNCHANGED <<rows, rowId, nextId>>
         \/ \E q \in Registers :
              /\ pc[q] = "create" /\ pc'[q] = "commit"
              /\ rowId' = [rowId EXCEPT ![q] = nextId]
              /\ nextId' = nextId + 1
              /\ UNCHANGED <<rows, body>>
              /\ \A r \in Requests : r # q => pc'[r] = pc[r]
         \/ \E q \in Registers :
              /\ pc[q] = "commit" /\ pc'[q] = "return"
              /\ rows' = rows \cup {RowFor(q)}
              /\ UNCHANGED <<rowId, nextId, body>>
              /\ \A r \in Requests : r # q => pc'[r] = pc[r]
<1> USE DEF backend
<1>1. CASE Tidies \/ Dies
  BY <1>1 DEF Tidies, Dies
<1>2. ASSUME NEW q \in Requests, OwnStep(q)
      PROVE  \/ UNCHANGED <<rows, rowId, nextId>>
             \/ /\ q \in Registers
                /\ pc[q] = "create" /\ pc'[q] = "commit"
                /\ rowId' = [rowId EXCEPT ![q] = nextId]
                /\ nextId' = nextId + 1
                /\ UNCHANGED <<rows, body>>
             \/ /\ q \in Registers
                /\ pc[q] = "commit" /\ pc'[q] = "return"
                /\ rows' = rows \cup {RowFor(q)}
                /\ UNCHANGED <<rowId, nextId, body>>
  <2> USE <1>2 DEF Goto, Finish, LegacyType
  <2>1. CASE Comes(q) \/ Limit(q)
    BY <2>1, EarlySteps
  <2>2. CASE q \in Registers /\ InsertUser(q)
    BY <2>2 DEF InsertUser
  <2>3. CASE q \in Registers /\ CommitUser(q)
    BY <2>3 DEF CommitUser
  <2>4. CASE CountByUsername(q) \/ DevCount(q)
    BY <2>4 DEF CountByUsername, DevCount
  <2>5. CASE LookupForChallenge(q) \/ CacheChallenge(q) \/ Respond(q)
    BY <2>5 DEF LookupForChallenge, CacheChallenge, Respond
  <2>6. CASE GetChallenge(q) \/ EvaluateProof(q) \/ DelChallenge(q)
    BY <2>6 DEF GetChallenge, EvaluateProof, DelChallenge
  <2> QED
    BY <2>1, <2>2, <2>3, <2>4, <2>5, <2>6 DEF OwnStep
<1>3. ASSUME NEW q \in Requests, OwnStep(q), NEW r \in Requests, r # q
      PROVE  pc'[r] = pc[r]
  BY <1>3, OthersRest DEF Rests
<1> QED
  BY <1>1, <1>2, <1>3 DEF LegacyMove

(***************************************************************************)
(* The labels that say what a registration has of its row: no step leads   *)
(* back from the row to the request without one.                           *)
(***************************************************************************)
LEMMA RowLabels ==
  ASSUME LegacyType, LegacyMove, NEW r \in Registers
  PROVE  /\ pc'[r] \in Early \cup {"count", "create"}
              => pc[r] \in Early \cup {"count", "create"}
         /\ pc'[r] = "commit" => \/ pc[r] = "commit"
                                 \/ pc[r] = "create" /\ rowId'[r] = nextId
<1>0. r \in Requests
  BY DEF Requests
<1>1. CASE Tidies
  BY <1>1 DEF Tidies
<1>2. CASE Dies
  BY <1>0, <1>2 DEF Dies, Crash, Early
<1>3. ASSUME NEW q \in Requests, OwnStep(q), q # r
      PROVE  pc'[r] = pc[r]
  BY <1>0, <1>3, OthersRest DEF Rests
<1>4. CASE OwnStep(r) /\ (Comes(r) \/ Limit(r))
  BY <1>0, <1>4, EarlySteps DEF Early
<1>5. CASE OwnStep(r) /\ ~Comes(r) /\ ~Limit(r)
  <2>1. /\ pc'[r] \in {"create", "commit", "cache", "check", "del", "return", "done"}
        /\ pc'[r] = "create" => pc[r] = "count"
        /\ pc'[r] = "commit" => InsertUser(r)
    BY <1>0, <1>5, HandlerSteps
  <2>2. pc'[r] = "commit" => pc[r] = "create" /\ rowId'[r] = nextId
    BY <1>0, <2>1 DEF InsertUser, Finish, Goto, LegacyType
  <2> QED
    BY <2>1, <2>2 DEF Early
<1> QED
  BY <1>1, <1>2, <1>3, <1>4, <1>5 DEF LegacyMove

(***************************************************************************)
(* A key is drawn once, and a row is that of a registration that is past   *)
(* its commit.                                                             *)
(***************************************************************************)
LEMMA RowKept ==
  ASSUME LegacyType, LegacyRowInv, LegacyMove
  PROVE  LegacyRowInv'
<1>0. /\ nextId \in Nat \ {0} /\ rowId \in [Registers -> Nat]
      /\ Registers \subseteq Requests
  BY DEF LegacyType, Requests
<1>a. /\ \A r \in Registers : rowId[r] < nextId
      /\ \A r, q \in Registers : rowId[r] = rowId[q] /\ rowId[r] # 0 => r = q
      /\ \A r \in Registers : pc[r] \in Early \cup {"count", "create"} => rowId[r] = 0
  BY DEF LegacyRowInv
<1>1. /\ \A r \in Registers : rowId'[r] < nextId'
      /\ \A r, q \in Registers : rowId'[r] = rowId'[q] /\ rowId'[r] # 0 => r = q
  <2>1. CASE UNCHANGED <<rowId, nextId>>
    BY <1>a, <2>1
  <2>2. ASSUME NEW q \in Registers,
               rowId' = [rowId EXCEPT ![q] = nextId], nextId' = nextId + 1
        PROVE  /\ \A r \in Registers : rowId'[r] < nextId'
               /\ \A r, x \in Registers :
                    rowId'[r] = rowId'[x] /\ rowId'[r] # 0 => r = x
    BY <1>0, <1>a, <2>2
  <2> QED
    BY <2>1, <2>2, TableSteps
<1>2. ASSUME NEW r \in Registers
      PROVE  /\ pc'[r] \in Early \cup {"count", "create"} => rowId'[r] = 0
             /\ pc'[r] = "commit" => rowId'[r] # 0
  <2>1. CASE UNCHANGED <<rowId, nextId>>
    <3>1. pc'[r] = "commit" => pc[r] = "commit"
      BY <1>0, <1>a, <2>1, RowLabels DEF Early
    <3> QED
      BY <2>1, <3>1, RowLabels DEF LegacyRowInv
  <2>2. ASSUME NEW q \in Registers, pc'[q] = "commit",
               rowId' = [rowId EXCEPT ![q] = nextId],
               \A x \in Requests : x # q => pc'[x] = pc[x]
        PROVE  /\ pc'[r] \in Early \cup {"count", "create"} => rowId'[r] = 0
               /\ pc'[r] = "commit" => rowId'[r] # 0
    BY <1>0, <2>2 DEF LegacyRowInv, Early
  <2> QED
    BY <2>1, <2>2, TableSteps
<1>3. ASSUME NEW row \in rows'
      PROVE  \E r \in Registers :
               rowId'[r] # 0 /\ pc'[r] \in Ended /\ row = RowFor(r)'
  <2>1. CASE row \in rows
    <3>1. PICK r \in Registers : rowId[r] # 0 /\ pc[r] \in Ended /\ row = RowFor(r)
      BY <2>1 DEF LegacyRowInv
    <3>2. Keeps(r) /\ pc'[r] \in Ended
      BY <1>0, <3>1, EndedKeeps
    <3> QED
      BY <3>1, <3>2 DEF Keeps, RowFor
  <2>2. CASE row \notin rows
    <3>1. PICK q \in Registers : /\ pc[q] = "commit" /\ pc'[q] = "return"
                                 /\ rows' = rows \cup {RowFor(q)}
                                 /\ UNCHANGED <<rowId, nextId, body>>
      BY <2>2, TableSteps
    <3> QED
      BY <2>2, <3>1 DEF LegacyRowInv, RowFor, Ended
  <2> QED
    BY <2>1, <2>2
<1> QED
  BY <1>1, <1>2, <1>3 DEF LegacyRowInv

(***************************************************************************)
(* A registration that is over adds no row any more.                       *)
(***************************************************************************)
LEMMA AddedBefore ==
  ASSUME LegacyType, LegacyRowInv, LegacyMove,
         NEW q \in Registers, pc[q] \in Over, AddedARow(q)'
  PROVE  AddedARow(q) /\ body'[q] = body[q]
<1>1. Keeps(q) /\ q \in Requests
  BY EndedKeeps DEF Over, Ended, Requests
<1>2. body'[q] = body[q] /\ rowId'[q] = rowId[q] /\ RowFor(q)' = RowFor(q)
  BY <1>1 DEF Keeps, RowFor
<1>3. ASSUME RowFor(q) \notin rows
      PROVE  FALSE
  <2>1. PICK x \in Registers : pc[x] = "commit" /\ rows' = rows \cup {RowFor(x)}
    BY <1>2, <1>3, TableSteps DEF AddedARow
  <2>2. RowFor(q) = RowFor(x)
    BY <1>2, <1>3, <2>1 DEF AddedARow
  <2>3. rowId[q] = rowId[x]
    BY <2>2 DEF RowFor
  <2> QED
    BY <1>2, <2>1, <2>3 DEF LegacyRowInv, AddedARow, Over
<1> QED
  BY <1>2, <1>3 DEF AddedARow

(***************************************************************************)
(* The history of failures only grows.                                     *)
(***************************************************************************)
LEMMA FaultsGrow ==
  ASSUME LegacyType, LegacyMove
  PROVE  faulted \subseteq faulted' /\ unlimited \subseteq unlimited'
<1>1. CASE Tidies \/ Dies
  BY <1>1 DEF Tidies, Dies
<1>2. ASSUME NEW q \in Requests, OwnStep(q)
      PROVE  faulted \subseteq faulted' /\ unlimited \subseteq unlimited'
  BY <1>2, EarlySteps, HandlerSteps
<1> QED
  BY <1>1, <1>2 DEF LegacyMove

(***************************************************************************)
(* What a request that has come asks for does not change.                  *)
(***************************************************************************)
LEMMA BodyKept ==
  ASSUME LegacyType, LegacyMove, NEW r \in Requests, pc[r] # "idle"
  PROVE  body'[r] = body[r] /\ before'[r] = before[r]
<1>1. CASE Tidies \/ Dies
  BY <1>1 DEF Tidies, Dies
<1>2. ASSUME NEW q \in Requests, OwnStep(q), q # r
      PROVE  body'[r] = body[r] /\ before'[r] = before[r]
  BY <1>2, OthersRest DEF Rests, Keeps
<1>3. CASE OwnStep(r)
  BY <1>3, EarlySteps, HandlerSteps
<1> QED
  BY <1>1, <1>2, <1>3 DEF LegacyMove

(***************************************************************************)
(* A registration whose username had its row when it came gets past the    *)
(* count only if it takes a failure for a zero.                            *)
(***************************************************************************)
LEMMA SecondRowKept ==
  ASSUME LegacyType, BeforeInv, LegacyRowInv, SecondRowInv, LegacyMove
  PROVE  SecondRowInv'
<1> SUFFICES ASSUME NEW r \in Registers, NEW q \in before'[r], AddedARow(q)',
                    body'[q].username = body'[r].username
             PROVE  \/ r \in DevProofs \cap faulted'
                    \/ rowId'[r] = 0 /\ pc'[r] \notin {"create", "commit"}
  BY DEF SecondRowInv
<1>0. r \in Requests
  BY DEF Requests
<1>1. CASE q \notin before[r]
  <2>1. OwnStep(r)
    BY <1>0, <1>1, OthersRest DEF LegacyMove, Rests, Keeps, Tidies, Dies
  <2>2. /\ pc[r] = "idle" /\ rowId' = rowId
        /\ pc'[r] \in {"incr", "expire", "done", "count", "lookup", "take"}
    BY <1>0, <1>1, <2>1, EarlySteps, HandlerSteps
  <2> QED
    BY <2>2 DEF LegacyRowInv, Early
<1>2. CASE q \in before[r]
  <2>1. q \in Registers /\ pc[q] \in Over /\ pc[r] # "idle"
    BY <1>0, <1>2 DEF BeforeInv, LegacyType, Requests
  <2>2. AddedARow(q) /\ body'[q] = body[q] /\ body'[r] = body[r]
    BY <1>0, <2>1, AddedBefore, BodyKept
  <2>3. \/ r \in DevProofs \cap faulted
        \/ rowId[r] = 0 /\ pc[r] \notin {"create", "commit"}
    BY <1>2, <2>2 DEF SecondRowInv
  <2>4. CASE r \in DevProofs \cap faulted
    BY <2>4, FaultsGrow
  <2>5. CASE rowId[r] = 0 /\ pc[r] \notin {"create", "commit"}
    <3>1. rowId'[r] = 0
      BY <2>5, TableSteps DEF LegacyType
    <3>2. pc'[r] # "commit"
      BY <2>5, RowLabels
    <3>3. CASE pc'[r] = "create"
      <4>1. ~UsernameFree(body[r].username)
        <5>1. RowFor(q) \in rows /\ RowFor(q).username = body[q].username
          BY <2>2 DEF AddedARow, RowFor
        <5> QED
          BY <2>2, <5>1 DEF UsernameFree, RowsOf
      <4>2. OwnStep(r)
        BY <1>0, <2>5, <3>3, OthersRest
        DEF LegacyMove, Rests, Tidies, Dies, Crash
      <4>3. CountByUsername(r) \/ (r \in DevProofs /\ DevCount(r))
        BY <1>0, <3>3, <4>2, EarlySteps, HandlerSteps
      <4>4. r \in DevProofs /\ r \in faulted'
        <5>1. CASE CountByUsername(r)
          BY <1>0, <3>3, <4>1, <5>1 DEF CountByUsername, Finish, Goto, LegacyType
        <5>2. CASE DevCount(r)
          BY <1>0, <3>3, <4>1, <4>3, <5>1, <5>2
          DEF DevCount, Finish, Goto, LegacyType, Fault
        <5> QED
          BY <4>3, <5>1, <5>2
      <4> QED
        BY <4>4
    <3> QED
      BY <3>1, <3>2, <3>3
  <2> QED
    BY <2>3, <2>4, <2>5
<1> QED
  BY <1>1, <1>2

-----------------------------------------------------------------------------
(* The challenges.                                                         *)

(***************************************************************************)
(* The answer of a verify request that was let in names a challenge.       *)
(***************************************************************************)
LEMMA NamedChallenge ==
  ASSUME LegacyType, NEW v \in Verifies, pc[v] \notin Early \cup Over
  PROVE  body[v].challengeId \in Challenges
<1>1. body[v] \in VerifyBodies /\ WellFormed(body[v])
  BY DEF LegacyType, Early
<1> QED
  BY <1>1, WellFormedBodies

(***************************************************************************)
(* An entry is written by its own request, and dropped by anybody.         *)
(***************************************************************************)
LEMMA CacheSteps ==
  ASSUME LegacyType, LegacyMove, NEW c \in Challenges
  PROVE  \/ /\ store'[c] \in {store[c], None}
            /\ c \in written' <=> c \in written
         \/ /\ pc[c] = "cache" /\ pc'[c] = "return"
            /\ body' = body /\ found' = found
            /\ store'[c] = CacheEntry(c) /\ c \in written'
<1>0. c \in Requests
  BY DEF Requests
<1>1. CASE Tidies
  BY <1>1 DEF Tidies, LegacyType
<1>2. CASE Dies
  BY <1>2 DEF Dies
<1>3. ASSUME NEW q \in Requests, OwnStep(q)
      PROVE  \/ /\ store'[c] \in {store[c], None}
                /\ c \in written' <=> c \in written
             \/ /\ pc[c] = "cache" /\ pc'[c] = "return"
                /\ body' = body /\ found' = found
                /\ store'[c] = CacheEntry(c) /\ c \in written'
  <2> USE <1>0, <1>3 DEF Goto, Finish, LegacyType, backend, history
  <2>1. CASE Comes(q) \/ Limit(q)
    BY <2>1, EarlySteps
  <2>2. CASE InsertUser(q) \/ CommitUser(q) \/ CountByUsername(q) \/ DevCount(q)
    BY <2>2 DEF InsertUser, CommitUser, CountByUsername, DevCount
  <2>3. CASE LookupForChallenge(q) \/ Respond(q)
    BY <2>3 DEF LookupForChallenge, Respond
  <2>4. CASE q \in Challenges /\ CacheChallenge(q)
    BY <2>4 DEF CacheChallenge, SetChallenge
  <2>5. CASE GetChallenge(q) \/ EvaluateProof(q)
    BY <2>5 DEF GetChallenge, EvaluateProof
  <2>6. CASE DelChallenge(q)
    BY <2>6 DEF DelChallenge
  <2> QED
    BY <2>1, <2>2, <2>3, <2>4, <2>5, <2>6 DEF OwnStep
<1> QED
  BY <1>1, <1>2, <1>3 DEF LegacyMove

(***************************************************************************)
(* Redis goes on holding what the requests wrote.                          *)
(***************************************************************************)
LEMMA EntryKept ==
  ASSUME LegacyType, LegacyEntryInv, LegacyMove
  PROVE  LegacyEntryInv'
<1> SUFFICES ASSUME NEW c \in Challenges
             PROVE  /\ c \in written' => pc'[c] \in Ended
                    /\ store'[c] # None => /\ c \in written'
                                           /\ store'[c] = CacheEntry(c)'
  BY DEF LegacyEntryInv
<1>1. CASE store'[c] \in {store[c], None} /\ (c \in written' <=> c \in written)
  <2>1. c \in written => pc'[c] \in Ended /\ CacheEntry(c)' = CacheEntry(c)
    BY EndedKeeps DEF LegacyEntryInv, Keeps, CacheEntry, Requests
  <2> QED
    BY <1>1, <2>1 DEF LegacyEntryInv
<1>2. CASE /\ pc'[c] = "return" /\ body' = body /\ found' = found
           /\ store'[c] = CacheEntry(c) /\ c \in written'
  BY <1>2 DEF CacheEntry, Ended
<1> QED
  BY <1>1, <1>2, CacheSteps

(***************************************************************************)
(* The verify request v is that of a challenge that was issued, and what   *)
(* it was issued for does not change.                                      *)
(***************************************************************************)
LEMMA AgreesKept ==
  ASSUME LegacyType, LegacyEntryInv, LegacyMove, NEW c \in Challenges, c \in written
  PROVE  /\ c \in written' /\ body'[c] = body[c] /\ found'[c] = found[c]
         /\ CacheEntry(c)' = CacheEntry(c)
<1>1. Keeps(c)
  BY EndedKeeps DEF LegacyEntryInv, Requests
<1> QED
  BY <1>1, CacheSteps DEF Keeps, CacheEntry

(***************************************************************************)
(* The rows of a username stay.                                            *)
(***************************************************************************)
LEMMA RowsStay ==
  ASSUME LegacyType, LegacyMove, NEW u
  PROVE  RowsOf(u) \subseteq RowsOf(u)'
  BY TableSteps DEF RowsOf

(***************************************************************************)
(* GET hands out the entry of the challenge that was named, and the        *)
(* evaluation goes on with a key of the username.                          *)
(***************************************************************************)
LEMMA GetFacts ==
  ASSUME LegacyType, LegacyEntryInv, NEW v \in Verifies,
         GetChallenge(v), pc'[v] = "check"
  PROVE  LET c == body[v].challengeId IN
         /\ c \in Challenges /\ c \in written /\ store[c] # None
         /\ body[c].username = body[v].username
         /\ body[c].clientR = body[v].clientR
         /\ held'[v] = CacheEntry(c)
         /\ UNCHANGED <<body, found, written>>
<1> DEFINE c == body[v].challengeId
<1>0. v \in Requests /\ pc[v] = "take"
  BY DEF Requests, GetChallenge
<1>1. c \in Challenges
  BY <1>0, NamedChallenge DEF Early, Over
<1>2. /\ store[c] # None /\ held' = [held EXCEPT ![v] = store[c]]
      /\ Matches(store[c], body[v])
      /\ UNCHANGED <<body, found, written>>
  BY <1>0 DEF GetChallenge, Goto, Finish, LegacyType
<1>3. c \in written /\ store[c] = CacheEntry(c)
  BY <1>1, <1>2 DEF LegacyEntryInv
<1>4. held'[v] = store[c]
  BY <1>2 DEF LegacyType
<1>5. /\ body[c].username = body[v].username
      /\ body[c].clientR = body[v].clientR
  BY <1>2, <1>3 DEF Matches, CacheEntry
<1> QED
  BY <1>1, <1>2, <1>3, <1>4, <1>5

(***************************************************************************)
(* The evaluation that goes on to the DEL has found a key of the user.     *)
(***************************************************************************)
LEMMA EvaluateFacts ==
  ASSUME LegacyType, NEW v \in Verifies, EvaluateProof(v), pc'[v] = "del"
  PROVE  /\ pc[v] = "check" /\ UNCHANGED <<body, held, rows>>
         /\ \E row \in RowsOf(body[v].username) : row.publicKeyY = found'[v]
<1>0. v \in Requests
  BY DEF Requests
<1>1. /\ pc[v] = "check" /\ UNCHANGED <<body, held, rows>>
      /\ \E row \in rows : /\ IsFirst(row, body[v].username)
                           /\ found' = [found EXCEPT ![v] = row.publicKeyY]
  BY <1>0 DEF EvaluateProof, backend, Goto, Finish, LegacyType
<1> QED
  BY <1>0, <1>1 DEF IsFirst, LegacyType

(***************************************************************************)
(* A verify request goes on agreeing with the challenge it names.          *)
(***************************************************************************)
LEMMA HoldKept ==
  ASSUME LegacyType, LegacyEntryInv, LegacyHoldInv, LegacyMove
  PROVE  LegacyHoldInv'
<1> SUFFICES ASSUME NEW v \in Verifies, pc'[v] \in {"check", "del"}
             PROVE  /\ Agrees(v, body[v].challengeId)'
                    /\ pc'[v] = "del" => (\E row \in RowsOf(body[v].username) :
                                            row.publicKeyY = found[v])'
  BY DEF LegacyHoldInv
<1> DEFINE c == body[v].challengeId
<1>0. v \in Requests
  BY DEF Requests
<1>1. CASE /\ pc'[v] = pc[v] /\ body'[v] = body[v]
           /\ held'[v] = held[v] /\ found'[v] = found[v]
  <2>1. c \in Challenges /\ Agrees(v, c)
    BY <1>1, NamedChallenge DEF LegacyHoldInv, Early, Over
  <2>2. Agrees(v, c)'
    BY <1>1, <2>1, AgreesKept DEF Agrees
  <2> QED
    BY <1>1, <2>2, RowsStay DEF LegacyHoldInv
<1>2. CASE GetChallenge(v) /\ pc'[v] = "check"
  BY <1>2, GetFacts DEF Agrees, CacheEntry
<1>3. CASE EvaluateProof(v) /\ pc'[v] = "del"
  <2>1. /\ pc[v] = "check" /\ UNCHANGED <<body, held, rows>>
        /\ \E row \in RowsOf(body[v].username) : row.publicKeyY = found'[v]
    BY <1>3, EvaluateFacts
  <2>2. c \in Challenges /\ Agrees(v, c)
    BY <2>1, NamedChallenge DEF LegacyHoldInv, Early, Over
  <2>3. Agrees(v, c)'
    BY <2>1, <2>2, AgreesKept DEF Agrees
  <2> QED
    BY <2>1, <2>3 DEF RowsOf
<1>4. CASE OwnStep(v)
  BY <1>0, <1>2, <1>3, <1>4, EarlySteps, HandlerSteps
<1>5. ASSUME NEW q \in Requests, OwnStep(q), q # v
      PROVE  /\ pc'[v] = pc[v] /\ body'[v] = body[v]
             /\ held'[v] = held[v] /\ found'[v] = found[v]
  BY <1>0, <1>5, OthersRest DEF Rests, Keeps
<1>6. CASE Tidies \/ Dies
  BY <1>0, <1>1, <1>6 DEF Tidies, Dies, Crash
<1> QED
  BY <1>1, <1>4, <1>5, <1>6 DEF LegacyMove

(***************************************************************************)
(* The verdict is given with the DEL, for the entry and the key that the   *)
(* request holds by then.                                                  *)
(***************************************************************************)
LEMMA VerdictSteps ==
  ASSUME LegacyType, LegacyMove, NEW v \in Verifies, Evaluated(v)'
  PROVE  \/ Evaluated(v) /\ outcome'[v] = outcome[v] /\ pc[v] \in Ended
         \/ /\ DelChallenge(v)
            /\ outcome'[v] = Verdict(v, found[v])
            /\ UNCHANGED <<body, found, rows, written>>
<1>0. v \in Requests
  BY DEF Requests
<1>1. CASE outcome'[v] = outcome[v]
  BY <1>0, <1>1, ReasonFacts DEF Evaluated, LegacyType, Reasons
<1>2. CASE OwnStep(v) /\ (Comes(v) \/ Limit(v)) /\ outcome'[v] # outcome[v]
  BY <1>0, <1>2, EarlySteps DEF Evaluated
<1>3. CASE OwnStep(v) /\ ~Comes(v) /\ ~Limit(v) /\ outcome'[v] # outcome[v]
  <2>1. ~Respond(v)
    BY <1>3 DEF Respond
  <2>2. GetChallenge(v) \/ EvaluateProof(v) \/ DelChallenge(v)
    BY <1>3, <2>1 DEF OwnStep
  <2>3. ~GetChallenge(v)
    BY <1>0, <1>3 DEF GetChallenge, Finish, Goto, LegacyType, Evaluated
  <2>4. ~EvaluateProof(v)
    BY <1>0, <1>3 DEF EvaluateProof, Finish, Goto, LegacyType, Evaluated, Spends
  <2>5. DelChallenge(v)
    BY <2>2, <2>3, <2>4
  <2> QED
    BY <1>0, <2>5 DEF DelChallenge, Finish, LegacyType
<1>4. ASSUME NEW q \in Requests, OwnStep(q), q # v
      PROVE  outcome'[v] = outcome[v]
  BY <1>0, <1>4, OthersRest DEF Rests, Keeps
<1>5. CASE Tidies \/ Dies
  BY <1>1, <1>5 DEF Tidies, Dies
<1> QED
  BY <1>1, <1>2, <1>3, <1>4, <1>5 DEF LegacyMove

(***************************************************************************)
(* A login stays authentic, and a new one is: the verdict was given for    *)
(* the very entry and a key of the user that is still in the table.        *)
(***************************************************************************)
LEMMA LoginKept ==
  ASSUME LegacyType, LegacyEntryInv, LegacyHoldInv, LoginIsAuthentic, LegacyMove
  PROVE  LoginIsAuthentic'
<1> SUFFICES ASSUME NEW v \in Verifies, Granted(v)'
             PROVE  Authentic(v)'
  BY DEF LoginIsAuthentic
<1> DEFINE c == body[v].challengeId
<1>0. v \in Requests /\ Evaluated(v)'
  BY DEF Requests, Granted, Evaluated
<1>1. CASE outcome'[v] = outcome[v] /\ pc[v] \in Ended
  <2>1. Authentic(v) /\ c \in Challenges /\ c \in written
    BY <1>1 DEF LoginIsAuthentic, Granted, Authentic, LegacyType
  <2>2. /\ c \in written' /\ body'[c] = body[c] /\ found'[c] = found[c]
    BY <2>1, AgreesKept
  <2>3. body'[v] = body[v] /\ found'[v] = found[v]
    BY <1>0, <1>1, EndedKeeps DEF Keeps
  <2>4. \E row \in RowsOf(body[v].username)' : row.publicKeyY = found[v]
    BY <2>1, <2>3, RowsStay DEF Authentic, RowsOf
  <2> QED
    BY <2>1, <2>2, <2>3, <2>4 DEF Authentic, RowsOf
<1>2. CASE /\ DelChallenge(v) /\ outcome'[v] = Verdict(v, found[v])
           /\ UNCHANGED <<body, found, rows, written>>
  <2>1. /\ Verdict(v, found[v]) = "ok"
        /\ pc[v] = "del"
    BY <1>2 DEF Granted, DelChallenge
  <2>2. /\ Agrees(v, c)
        /\ \E row \in RowsOf(body[v].username) : row.publicKeyY = found[v]
    BY <2>1 DEF LegacyHoldInv
  <2>3. held[v].challenge = <<body[c].clientR, found[c], body[c].username>>
    BY <2>2 DEF Agrees, CacheEntry, computeChallengeHex
  <2>4. Recomputed(v, found[v]) = held[v].challenge /\ ProofAccepted(v, found[v])
    BY <2>1 DEF Verdict
  <2>5. found[v] = found[c]
    BY <2>3, <2>4 DEF Recomputed, computeChallengeHex
  <2>6. ProofHolds(ValueOf[body[v].s], ValueOf[body[v].clientR], ValueOf[found[v]],
                   DigestValue(<<body[c].clientR, found[c], body[c].username>>))
    BY <2>3, <2>4 DEF ProofAccepted, mustBigFromHex
  <2>7. Authentic(v)
    BY <2>2, <2>5, <2>6 DEF Authentic, Agrees
  <2> QED
    BY <1>2, <2>7 DEF Authentic, RowsOf
<1> QED
  BY <1>0, <1>1, <1>2, VerdictSteps

(***************************************************************************)
(* The challenge of an evaluation whose DEL did not fail stays away, and   *)
(* GET has nothing for a request that came after it.                       *)
(***************************************************************************)
LEMMA SpentKept ==
  ASSUME LegacyType, BeforeInv, LegacyEntryInv, LegacyHoldInv, SpentInv, LegacyMove
  PROVE  SpentInv'
<1>1. ASSUME NEW v \in Verifies, Evaluated(v)', v \notin faulted'
      PROVE  body'[v].challengeId \in written' /\ store'[body'[v].challengeId] = None
  <2> DEFINE c == body[v].challengeId
  <2>0. v \in Requests /\ v \notin faulted
    BY <1>1, FaultsGrow DEF Requests
  <2>1. CASE Evaluated(v) /\ pc[v] \in Ended
    <3>1. c \in Challenges /\ c \in written /\ store[c] = None
      BY <2>0, <2>1 DEF SpentInv, LegacyType
    <3>2. pc[c] \in Ended
      BY <3>1 DEF LegacyEntryInv
    <3>3. store'[c] = None /\ c \in written'
      BY <3>1, <3>2, CacheSteps DEF Ended
    <3> QED
      BY <2>0, <2>1, <3>3, EndedKeeps DEF Keeps
  <2>2. CASE DelChallenge(v) /\ UNCHANGED <<body, found, rows, written>>
    <3>1. pc[v] = "del" /\ c \in Challenges /\ c \in written
      BY <2>2, NamedChallenge
      DEF DelChallenge, LegacyHoldInv, Agrees, Early, Over
    <3>2. store' = [store EXCEPT ![c] = None]
      BY <1>1, <2>2 DEF DelChallenge, Fault
    <3> QED
      BY <2>2, <3>1, <3>2 DEF LegacyType
  <2> QED
    BY <1>1, <2>1, <2>2, VerdictSteps
<1>2. ASSUME NEW w \in Verifies, NEW v \in before'[w],
             Evaluated(v)', v \notin faulted',
             body'[v].challengeId = body'[w].challengeId
      PROVE  pc'[w] \notin {"check", "del"} /\ ~Evaluated(w)'
  <2>0. w \in Requests /\ v \notin faulted
    BY <1>2, FaultsGrow DEF Requests
  <2>1. CASE v \notin before[w]
    <3>1. OwnStep(w)
      BY <1>2, <2>0, <2>1, OthersRest DEF LegacyMove, Rests, Keeps, Tidies, Dies
    <3>2. /\ pc[w] = "idle"
          /\ pc'[w] \in {"incr", "expire", "done", "count", "lookup", "take"}
      BY <1>2, <2>0, <2>1, <3>1, EarlySteps, HandlerSteps
    <3>3. ~Evaluated(w)'
      BY <3>2, VerdictSteps DEF DelChallenge, Ended
    <3> QED
      BY <3>2, <3>3
  <2>2. CASE v \in before[w]
    <3>1. v \in Verifies /\ pc[v] \in Over /\ pc[w] # "idle"
      BY <2>0, <2>2 DEF BeforeInv, LegacyType, Requests
    <3>2. /\ Evaluated(v)
          /\ body'[v] = body[v] /\ body'[w] = body[w]
      <4>1. Keeps(v) /\ v \in Requests
        BY <3>1, EndedKeeps DEF Over, Ended, Requests
      <4> QED
        BY <1>2, <2>0, <3>1, <4>1, BodyKept DEF Keeps, Evaluated
    <3>3. pc[w] \notin {"check", "del"} /\ ~Evaluated(w)
      BY <1>2, <2>0, <2>2, <3>2 DEF SpentInv
    <3>4. store[body[w].challengeId] = None
      BY <1>2, <2>0, <3>1, <3>2 DEF SpentInv
    <3>5. ~Evaluated(w)'
      BY <3>3, VerdictSteps DEF DelChallenge
    <3>6. ASSUME pc'[w] \in {"check", "del"}
          PROVE  FALSE
      <4>1. OwnStep(w)
        BY <2>0, <3>3, <3>6, OthersRest
        DEF LegacyMove, Rests, Tidies, Dies, Crash
      <4>2. \/ pc'[w] = "check" /\ GetChallenge(w)
            \/ pc'[w] = "del" /\ EvaluateProof(w)
        BY <2>0, <3>6, <4>1, EarlySteps, HandlerSteps
      <4> QED
        BY <3>3, <3>4, <4>2, GetFacts, EvaluateFacts
    <3> QED
      BY <3>5, <3>6
  <2> QED
    BY <2>1, <2>2
<1> QED
  BY <1>1, <1>2 DEF SpentInv

-----------------------------------------------------------------------------
(* The counters.                                                           *)

(***************************************************************************)
(* A step of the limiter changes the counter of its route only, and leaves *)
(* it with an expiry, to be given one by its request, or with an excuse.   *)
(***************************************************************************)
LEMMA LimiterSteps ==
  ASSUME LegacyType, NEW q \in Requests, Limit(q), NEW k \in Routes
  PROVE  \/ counter'[k] = counter[k] /\ expiry'[k] = expiry[k] /\ k # RouteOf(q)
         \/ /\ k = RouteOf(q)
            /\ \/ counter'[k] = counter[k] + 1 /\ expiry'[k] = expiry[k]
                  /\ pc[q] = "incr" /\ (counter[k] = 0 => pc'[q] = "expire")
               \/ q \in unlimited'
               \/ counter'[k] > 0 => expiry'[k]
<1>1. CASE CallIncr(q)
  <2>1. PICK n \in Nat :
          /\ Incr(RouteOf(q), n)
          /\ \/ q \in unlimited'
             \/ n = 1 /\ (StartsWindow(counter[RouteOf(q)] + 1) => Goto(q, "expire"))
    <3>1. 1 .. Repeats \subseteq Nat /\ 0 .. Repeats \subseteq Nat
      OBVIOUS
    <3>2. CASE \E n \in 0 .. Repeats : Incr(RouteOf(q), n) /\ q \in unlimited'
      BY <3>1, <3>2, Zenon
    <3>3. CASE \E n \in 1 .. Repeats :
                 /\ Incr(RouteOf(q), n)
                 /\ \/ q \in unlimited'
                    \/ /\ n = 1
                       /\ StartsWindow(counter[RouteOf(q)] + n) => Goto(q, "expire")
      BY <3>1, <3>3
    <3> QED
      BY <1>1, <3>2, <3>3 DEF CallIncr
  <2>2. pc[q] = "incr"
    BY <1>1 DEF CallIncr
  <2>3. /\ counter' = [counter EXCEPT ![RouteOf(q)] = counter[RouteOf(q)] + n]
        /\ expiry' = expiry
    BY <2>1 DEF Incr
  <2>4. CASE k # RouteOf(q)
    BY <2>3, <2>4 DEF LegacyType
  <2>5. CASE k = RouteOf(q) /\ q \in unlimited'
    BY <2>5
  <2>6. CASE k = RouteOf(q) /\ n = 1 /\ (StartsWindow(counter[k] + 1) => Goto(q, "expire"))
    BY <2>2, <2>3, <2>6 DEF LegacyType, StartsWindow, Goto
  <2> QED
    BY <2>1, <2>4, <2>5, <2>6
<1>2. CASE CallExpire(q)
  <2>1. CASE Expire(RouteOf(q))
    <3> DEFINE some == counter[RouteOf(q)] > 0
    <3>1. counter' = counter /\ expiry' = [expiry EXCEPT ![RouteOf(q)] = some]
      BY <2>1 DEF Expire
    <3>2. k # RouteOf(q) => expiry'[k] = expiry[k]
      BY <3>1 DEF LegacyType
    <3>3. k = RouteOf(q) => expiry'[k] = (counter[k] > 0)
      BY <3>1, Zenon DEF LegacyType
    <3> QED
      BY <3>1, <3>2, <3>3
  <2>2. CASE UNCHANGED window /\ q \in unlimited'
    BY <2>2 DEF window
  <2> QED
    BY <1>2, <2>1, <2>2 DEF CallExpire
<1> QED
  BY <1>1, <1>2 DEF Limit

(***************************************************************************)
(* A counter without an expiry keeps its cause, or gets one.               *)
(***************************************************************************)
LEMMA CounterKept ==
  ASSUME LegacyType, StuckCounterHasACause, LegacyMove
  PROVE  StuckCounterHasACause'
<1> SUFFICES ASSUME NEW k \in Routes, counter'[k] > 0, ~expiry'[k]
             PROVE  \E r \in Requests :
                      /\ RouteOf(r) = k
                      /\ r \in unlimited' \/ pc'[r] \in {"expire", "lost"}
  BY DEF StuckCounterHasACause, RouteOf
<1>a. counter[k] > 0 /\ ~expiry[k] =>
        \E r \in Requests : /\ RouteOf(r) = k
                            /\ r \in unlimited \/ pc[r] \in {"expire", "lost"}
  BY DEF StuckCounterHasACause
<1>1. CASE Tidies
  <2>1. pc' = pc /\ unlimited' = unlimited
    BY <1>1 DEF Tidies
  <2>2. counter'[k] = counter[k] /\ (expiry'[k] <=> expiry[k])
    <3>1. CASE UNCHANGED window
      BY <3>1 DEF window
    <3>2. ASSUME NEW j \in Routes, Lapse(j)
          PROVE  counter'[k] = counter[k] /\ (expiry'[k] <=> expiry[k])
      <4>1. j # k
        BY <3>2 DEF Lapse, LegacyType
      <4>2. counter'[k] = counter[k]
        BY <3>2, <4>1 DEF Lapse, LegacyType
      <4>3. expiry'[k] <=> expiry[k]
        BY <3>2, <4>1, Zenon DEF Lapse, LegacyType
      <4> QED
        BY <4>2, <4>3
    <3> QED
      BY <1>1, <3>1, <3>2 DEF Tidies
  <2> QED
    BY <1>a, <2>1, <2>2
<1>2. CASE Dies
  <2>1. /\ UNCHANGED <<counter, expiry, unlimited>>
        /\ \A r \in Requests : pc[r] \in {"expire", "lost"} => pc'[r] = "lost"
    BY <1>2 DEF Dies, window, Crash, InFlight
  <2> QED
    BY <1>a, <2>1
<1>3. ASSUME NEW q \in Requests, OwnStep(q)
      PROVE  \E r \in Requests :
               /\ RouteOf(r) = k
               /\ r \in unlimited' \/ pc'[r] \in {"expire", "lost"}
  <2>0. /\ unlimited \subseteq unlimited'
        /\ \A r \in Requests : r # q => pc'[r] = pc[r]
    BY <1>3, FaultsGrow, OthersRest DEF Rests
  <2>1. CASE pc[q] \notin {"expire", "lost"} /\ counter[k] > 0 /\ ~expiry[k]
    <3>1. PICK r \in Requests : /\ RouteOf(r) = k
                                /\ r \in unlimited \/ pc[r] \in {"expire", "lost"}
      BY <1>a, <2>1
    <3> QED
      BY <2>0, <2>1, <3>1
  <2>2. CASE ~Limit(q)
    <3>1. pc[q] \notin {"expire", "lost"} /\ UNCHANGED window
      <4>1. CASE Comes(q)
        BY <4>1 DEF Comes, Arrive, window
      <4>2. CASE ~Comes(q)
        BY <1>3, <2>2, <4>2, HandlerSteps DEF Early, Over
      <4> QED
        BY <4>1, <4>2
    <3> QED
      BY <2>1, <3>1 DEF window
  <2>3. CASE Limit(q) /\ k # RouteOf(q)
    <3>1. counter[k] > 0 /\ ~expiry[k]
      BY <2>3, LimiterSteps
    <3>2. PICK r \in Requests : /\ RouteOf(r) = k
                                /\ r \in unlimited \/ pc[r] \in {"expire", "lost"}
      BY <1>a, <3>1
    <3> QED
      BY <2>0, <2>3, <3>2
  <2>4. CASE Limit(q) /\ k = RouteOf(q)
    <3>1. \/ /\ counter'[k] = counter[k] + 1 /\ expiry'[k] = expiry[k]
             /\ pc[q] = "incr" /\ (counter[k] = 0 => pc'[q] = "expire")
          \/ q \in unlimited'
      BY <2>4, LimiterSteps
    <3>2. CASE q \in unlimited' \/ pc'[q] = "expire"
      BY <2>4, <3>2
    <3>3. CASE /\ counter[k] # 0 /\ expiry'[k] = expiry[k] /\ pc[q] = "incr"
      BY <2>1, <3>3 DEF LegacyType
    <3> QED
      BY <3>1, <3>2, <3>3
  <2> QED
    BY <2>2, <2>3, <2>4
<1> QED
  BY <1>1, <1>2, <1>3 DEF LegacyMove

-----------------------------------------------------------------------------

(***************************************************************************)
(* The invariant holds initially, and every step keeps it.                 *)
(***************************************************************************)
LEMMA LegacyInitInv == LegacyInit => LegacyInv
<1> SUFFICES ASSUME LegacyInit PROVE LegacyInv
  OBVIOUS
<1> USE DEF LegacyInit, Init, InitWindow
<1>0. Registers \cup Verifies \cup Challenges \subseteq Requests
  BY DEF Requests
<1>1. LegacyType
  BY <1>0, ReasonFacts DEF LegacyType, LegacyLabels, Early, Ended, Over
<1>2. BeforeInv /\ LegacyRowInv /\ SecondRowInv
  BY <1>0 DEF BeforeInv, LegacyRowInv, SecondRowInv
<1>3. LegacyEntryInv /\ LegacyHoldInv
  BY <1>0 DEF LegacyEntryInv, LegacyHoldInv
<1>4. LoginIsAuthentic /\ SpentInv
  BY <1>0, ReasonFacts DEF LoginIsAuthentic, Granted, SpentInv, Evaluated, Reasons
<1>5. StuckCounterHasACause
  BY DEF StuckCounterHasACause
<1> QED
  BY <1>1, <1>2, <1>3, <1>4, <1>5 DEF LegacyInv

(***************************************************************************)
(* The invariant is kept by every step.                                    *)
(***************************************************************************)
LEMMA LegacyNextInv == LegacyInv /\ [LegacyNext]_legacyVars => LegacyInv'
<1> SUFFICES ASSUME LegacyInv, [LegacyNext]_legacyVars PROVE LegacyInv'
  OBVIOUS
<1>1. LegacyMove
  BY LegacySteps DEF LegacyMove
<1> QED
  BY <1>1, MoveType, BeforeKept, RowKept, SecondRowKept, EntryKept, HoldKept,
     LoginKept, SpentKept, CounterKept
  DEF LegacyInv

(***************************************************************************)
(* The invariant of the first version.                                     *)
(***************************************************************************)
THEOREM LegacyInvariance == LegacySpec => []LegacyInv
  BY LegacyInitInv, LegacyNextInv, PTL DEF LegacySpec

(***************************************************************************)
(* A counter that will never expire comes from a failure only: of INCR or  *)
(* EXPIRE, of a repeated INCR, or of the request between the two calls.    *)
(***************************************************************************)
THEOREM StuckCountersAreFailures == LegacySpec => []StuckCounterHasACause
<1>1. LegacyInv => StuckCounterHasACause
  BY DEF LegacyInv
<1> QED
  BY <1>1, LegacyInvariance, PTL

(***************************************************************************)
(* GET and a DEL of its own let a challenge be evaluated twice only by     *)
(* requests that overlap, or after a DEL that failed.                      *)
(***************************************************************************)
THEOREM ReplaysOverlap == LegacySpec => []NoSequentialReplay
<1>1. LegacyInv => NoSequentialReplay
  BY DEF LegacyInv, SpentInv, NoSequentialReplay
<1> QED
  BY <1>1, LegacyInvariance, PTL

(***************************************************************************)
(* A username gets a second row only by registrations that overlap, or by  *)
(* a /dev/proof that took a failed count for a zero.                       *)
(***************************************************************************)
THEOREM SecondRowsOverlap == LegacySpec => []SecondRowHasACause
<1>1. LegacyInv => SecondRowHasACause
  BY DEF LegacyInv, SecondRowInv, SecondRowHasACause, AddedARow
<1> QED
  BY <1>1, LegacyInvariance, PTL

(***************************************************************************)
(* The first version, too, lets in only who answered a challenge that was  *)
(* issued for the user and the commitment, with a key the user registered. *)
(***************************************************************************)
THEOREM LegacyLoginIsAuthentic == LegacySpec => []LoginIsAuthentic
<1>1. LegacyInv => LoginIsAuthentic
  BY DEF LegacyInv
<1> QED
  BY <1>1, LegacyInvariance, PTL

=============================================================================
