-------------------------------- MODULE Legacy --------------------------------
(***************************************************************************)
(* The first version of the service, one file that is kept beside the new  *)
(* one (old/main_back.go): the same tables, keys and equation, but Verify  *)
(* reads the challenge with GET and removes it with a DEL of its own, once *)
(* the equation was evaluated, and /dev/proof registers without a limit.   *)
(* What it shares with the new version is taken from AuthService; the new  *)
(* version's middleware of the fixed window is this one's, word for word.  *)
(***************************************************************************)
EXTENDS AuthProperties, FixedWindow, FiniteSets

CONSTANTS
  DevProofs,    \* the requests to /dev/proof, which are registrations too
  DevBodies,    \* the users and the keys the server draws for them
  MaxFailures   \* bound: the requests some call of which fails

ASSUME DevAssumption == DevProofs \subseteq Registers /\ MaxFailures \in Nat

VARIABLES
  (* History. *)
  before,       \* the requests to its endpoint that were over when one came
  unlimited     \* the requests whose INCR or EXPIRE failed, or ran twice

limiter == <<window, before, unlimited>>
legacyVars == <<vars, limiter>>

LegacyInit ==
  /\ Init
  /\ InitWindow
  /\ before = [r \in Requests |-> {}]
  /\ unlimited = {}

(* /dev/proof has no limiter; nor has, to bound a run, a route not in Routes *)
RouteOf(r) == CASE r \in DevProofs             -> "dev"
                [] r \in Registers \ DevProofs -> "register"
                [] r \in Challenges            -> "challenge"
                [] r \in Verifies              -> "verify"

(* The requests of its kind that are over: none matters to a challenge.    *)
OverBefore(r) ==
  {q \in Requests : /\ pc[q] \in {"done", "lost"}
                    /\ {q, r} \subseteq Registers \/ {q, r} \subseteq Verifies}

Reply(r, reason) ==
  /\ Goto(r, "done")
  /\ outcome' = [outcome EXCEPT ![r] = reason]

(***************************************************************************)
(* The handler proper.  Those of register, verify and /dev/proof refuse    *)
(* empty fields; that of challenge does not.                               *)
(***************************************************************************)
Enter(r, b) ==
  \/ /\ r \in Challenges \/ WellFormed(b)
     /\ Goto(r, CASE r \in Registers -> "count" [] r \in Challenges -> "lookup"
                  [] r \in Verifies -> "take")
     /\ UNCHANGED outcome
  \/ /\ r \notin Challenges /\ ~WellFormed(b)
     /\ Reply(r, "bad_request")

Arrive(r, b) ==
  /\ pc[r] = "idle"
  /\ body' = [body EXCEPT ![r] = b]
  /\ before' = [before EXCEPT ![r] = OverBefore(r)]
  /\ \/ RouteOf(r) \in Routes /\ Goto(r, "incr") /\ UNCHANGED outcome
     \/ RouteOf(r) \notin Routes /\ Enter(r, b)
  /\ UNCHANGED <<backend, found, held, audit, history, window, unlimited>>

(* TTL, called for the header of the refusal, changes nothing.             *)
Decide(r, count) ==
  \/ OverLimit(RouteOf(r), count) /\ Reply(r, "too_many_requests")
  \/ ~OverLimit(RouteOf(r), count) /\ Enter(r, body[r])

(* INCR: once, or again after a lost reply, or an error in the end.        *)
CallIncr(r) ==
  /\ pc[r] = "incr"
  /\ \/ \E n \in 1 .. Repeats :
          LET count == counter[RouteOf(r)] + n IN
          /\ Incr(RouteOf(r), n)
          /\ unlimited' = IF n = 1 THEN unlimited ELSE unlimited \cup {r}
          /\ \/ StartsWindow(count) /\ Goto(r, "expire") /\ UNCHANGED outcome
             \/ ~StartsWindow(count) /\ Decide(r, count)
     \/ /\ \E n \in 0 .. Repeats : Incr(RouteOf(r), n)
        /\ unlimited' = unlimited \cup {r}
        /\ Reply(r, "rate_limit_error")
  /\ UNCHANGED <<body, backend, found, held, audit, history, before>>

(* EXPIRE: its error is ignored.                                           *)
CallExpire(r) ==
  /\ pc[r] = "expire"
  /\ \/ Expire(RouteOf(r)) /\ UNCHANGED unlimited
     \/ UNCHANGED window /\ unlimited' = unlimited \cup {r}
  /\ Decide(r, 1)
  /\ UNCHANGED <<body, backend, found, held, audit, history, before>>

Limit(r) == CallIncr(r) \/ CallExpire(r)

-----------------------------------------------------------------------------

LegacyRegister(r) ==
  \/ \E b \in RegisterBodies : Arrive(r, b)
  \/ Limit(r)
  \/ (CountByUsername(r) \/ InsertUser(r) \/ CommitUser(r)) /\ UNCHANGED limiter

LegacyChallenge(c) ==
  \/ \E b \in ChallengeBodies : Arrive(c, b)
  \/ Limit(c)
  \/ (LookupForChallenge(c) \/ CacheChallenge(c)) /\ UNCHANGED limiter

(***************************************************************************)
(* /dev/proof: the error of the count is ignored, and the count stays 0.   *)
(***************************************************************************)
DevCount(d) ==
  /\ pc[d] = "count"
  /\ \/ UsernameFree(body[d].username) /\ Goto(d, "create")
        /\ UNCHANGED <<outcome, faulted>>
     \/ ~UsernameFree(body[d].username) /\ Finish(d, "username_exists")
        /\ UNCHANGED faulted
     \/ Goto(d, "create") /\ Fault(d) /\ UNCHANGED outcome
  /\ UNCHANGED <<body, backend, found, held, audit, written, consumer, limiter>>

DevProof(d) ==
  \/ \E b \in DevBodies : Arrive(d, b)
  \/ DevCount(d)
  \/ (InsertUser(d) \/ CommitUser(d)) /\ UNCHANGED limiter

(* GET.                                                                    *)
GetChallenge(v) ==
  /\ pc[v] = "take"
  /\ LET entry == store[body[v].challengeId] IN
     \/ /\ entry # None
        /\ held' = [held EXCEPT ![v] = entry]
        /\ \/ Matches(entry, body[v]) /\ Goto(v, "check") /\ UNCHANGED outcome
           \/ ~Matches(entry, body[v]) /\ Finish(v, "challenge_mismatch")
        /\ UNCHANGED faulted
     \/ /\ entry = None
        /\ Finish(v, "challenge_not_found")
        /\ UNCHANGED <<held, faulted>>
     \/ /\ Finish(v, "challenge_not_found")
        /\ Fault(v)
        /\ UNCHANGED held
  /\ UNCHANGED <<body, backend, found, audit, written, consumer, limiter>>

(* Mutant: the challenge kept after a wrong answer.                        *)
SpentOnlyByLogin(verdict) == verdict = "ok"

(* The verdicts that spend the challenge: those of the equation.           *)
Spends(verdict) == verdict \in {"ok", "invalid_proof"}

(* The key is read, and the proof checked.                                 *)
EvaluateProof(v) ==
  /\ pc[v] = "check"
  /\ \/ \E row \in rows :
          LET verdict == Verdict(v, row.publicKeyY) IN
          /\ IsFirst(row, body[v].username)
          /\ found' = [found EXCEPT ![v] = row.publicKeyY]
          /\ \/ Spends(verdict) /\ Goto(v, "del") /\ UNCHANGED outcome
             \/ ~Spends(verdict) /\ Finish(v, verdict)
          /\ UNCHANGED faulted
     \/ /\ RowsOf(body[v].username) = {}
        /\ Finish(v, "invalid_credential")
        /\ UNCHANGED <<found, faulted>>
     \/ /\ Finish(v, "invalid_credential")
        /\ Fault(v)
        /\ UNCHANGED found
  /\ UNCHANGED <<body, backend, held, audit, written, consumer, limiter>>

(* DEL: its error is ignored too.                                          *)
DelChallenge(v) ==
  LET deleted == [store EXCEPT ![body[v].challengeId] = None] IN
  /\ pc[v] = "del"
  /\ \/ store' = deleted /\ UNCHANGED faulted
     \/ store' \in {store, deleted} /\ Fault(v)
  /\ Finish(v, Verdict(v, found[v]))
  /\ UNCHANGED <<body, rows, nextId, rowId, found, held, audit, written,
                 consumer, limiter>>

LegacyVerify(v) ==
  \/ \E b \in VerifyBodies : IdKnown(b) /\ Arrive(v, b)
  \/ Limit(v)
  \/ GetChallenge(v)
  \/ EvaluateProof(v)
  \/ DelChallenge(v)

(* The response; there is no audit.                                        *)
Respond(r) ==
  /\ pc[r] = "return"
  /\ Goto(r, "done")
  /\ UNCHANGED <<body, outcome, backend, found, held, audit, history, limiter>>

LegacyStep ==
  \/ \E r \in Registers \ DevProofs : LegacyRegister(r)
  \/ \E d \in DevProofs : DevProof(d)
  \/ \E c \in Challenges : LegacyChallenge(c)
  \/ \E v \in Verifies : LegacyVerify(v)
  \/ \E r \in Requests : Respond(r)
  \/ (Crash \/ Quiescent \/ \E c \in Challenges : ExpireChallenge(c))
     /\ UNCHANGED limiter
  \/ \E k \in Routes : Lapse(k) /\ UNCHANGED <<vars, before, unlimited>>

LegacyNext ==
  LegacyStep /\ Cardinality(faulted' \cup unlimited') <= MaxFailures

LegacySpec == LegacyInit /\ [][LegacyNext]_legacyVars

-----------------------------------------------------------------------------

Evaluated(v) == outcome[v] \in {"ok", "invalid_proof"}

(***************************************************************************)
(* A challenge is evaluated twice only by requests that overlap, or after  *)
(* a DEL that failed: a request that comes when another one with the same  *)
(* id was evaluated and is over finds nothing to answer (GET, DEL).        *)
(***************************************************************************)
NoSequentialReplay ==
  \A v, w \in Verifies :
    /\ v \in before[w]
    /\ Evaluated(v) /\ Evaluated(w)
    /\ body[v].challengeId = body[w].challengeId
    => v \in faulted

AddedARow(r) == body[r] # None /\ rowId[r] # 0 /\ RowFor(r) \in rows

(***************************************************************************)
(* A username gets a second row only by registrations that overlap, or by  *)
(* a /dev/proof whose count failed, which takes the failure for a zero.    *)
(***************************************************************************)
SecondRowHasACause ==
  \A q, r \in Registers :
    /\ q \in before[r]
    /\ AddedARow(q) /\ AddedARow(r)
    /\ body[q].username = body[r].username
    => r \in DevProofs \cap faulted

(***************************************************************************)
(* A counter that will never expire, and so will refuse its address for    *)
(* ever, comes from a failure only: an INCR or EXPIRE that failed, an INCR *)
(* that go-redis repeated (the caller then sees the count 2 and leaves the *)
(* expiry to nobody), or a request lost between the two calls.             *)
(***************************************************************************)
StuckCounterHasACause ==
  \A k \in Routes : counter[k] > 0 /\ ~expiry[k] =>
    \E r \in Requests : /\ RouteOf(r) = k
                        /\ r \in unlimited \/ pc[r] \in {"expire", "lost"}

=============================================================================
