----------------------------- MODULE AuthService -----------------------------
(***************************************************************************)
(* The authentication core: the handlers of POST /register, /challenge and *)
(* /verify (AuthController and AuthService), running concurrently over the *)
(* user table in PostgreSQL and the challenge cache in Redis.              *)
(*                                                                         *)
(* Each HTTP request is a process that runs once.  Its steps are the calls *)
(* the handler makes to a store; what it computes between two calls is     *)
(* part of the step before.  A call may fail, and may fail after it took   *)
(* effect (the reply is lost: connection reset, timeout, client gone).     *)
(* The server may crash between any two steps.                             *)
(***************************************************************************)
EXTENDS Schnorr

CONSTANTS
  Registers, Challenges, Verifies,   \* the requests to each of the endpoints
  RegisterBodies, ChallengeBodies, VerifyBodies,  \* the bodies clients send
  Usernames,
  FakeY,          \* the all-zero key hashed for a username nobody registered
  ChallengeTTL,   \* application.yaml: zkp.challenge_ttl_seconds
  Blank,          \* an empty or missing field
  None

Requests == Registers \cup Challenges \cup Verifies

RegisterRequest == [username   : Usernames \cup {Blank},
                    publicKeyY : Texts \cup {Blank},
                    salt       : {Blank, "salt"}]   \* stored, never used
ChallengeRequest == [username : Usernames \cup {Blank},
                     clientR  : Texts \cup {Blank}]
VerifyRequest == [challengeId : Challenges \cup {Blank},
                  s           : Texts \cup {Blank},
                  clientR     : Texts \cup {Blank},
                  username    : Usernames \cup {Blank}]

ASSUME RequestAssumption ==
  /\ Registers \cap Challenges = {}
  /\ Registers \cap Verifies = {}
  /\ Challenges \cap Verifies = {}
ASSUME BodyAssumption ==
  /\ RegisterBodies \subseteq RegisterRequest
  /\ ChallengeBodies \subseteq ChallengeRequest
  /\ VerifyBodies \subseteq VerifyRequest
(***************************************************************************)
(* The controllers refuse a body with an empty field before they call the  *)
(* service, whose own check of the same fields is then never taken.        *)
(***************************************************************************)
WellFormed(b) == \A f \in DOMAIN b : b[f] # Blank

UserCredentials == [id : Nat, username : Usernames, publicKeyY : Texts]

ChallengeCache == [username  : Usernames,
                   clientR   : Texts,
                   challenge : Texts \X Texts \X Usernames]

(***************************************************************************)
(* Audit reasons of the service ("ok" stands for a nil error); the last    *)
(* one is the controllers' own refusal, which never reaches the service.   *)
(***************************************************************************)
Reasons == {"ok",
            "count_error", "username_exists", "db_error",
            "cache_write_failed",
            "challenge_not_found", "challenge_mismatch", "invalid_credential",
            "challenge_invalid", "invalid_s", "invalid_clientR",
            "invalid_publicKeyY", "invalid_proof", "token_issue_failed",
            "bad_request"}

ASSUME ValueAssumption ==
  /\ FakeY \in Texts
  /\ Blank \notin Usernames \cup Texts \cup Challenges
  /\ None \notin RegisterBodies \cup ChallengeBodies \cup VerifyBodies
  /\ None \notin Usernames \cup Texts \cup Verifies \cup Reasons
  /\ None \notin ChallengeCache
  /\ ChallengeTTL \in Int

(* Mutant: a message of the service that the switch does not know.         *)
StatusOfUnmapped(reason) ==
  CASE reason = "ok" -> 200
    [] reason \in {"bad_request", "invalid_s", "invalid_clientR"} -> 400
    [] reason \in {"challenge_not_found", "challenge_mismatch",
                   "invalid_credential", "challenge_invalid",
                   "invalid_proof"} -> 401
    [] reason = "username_exists" -> 409
    [] OTHER -> 500

(***************************************************************************)
(* The HTTP status of each outcome: MapServiceErrorToCode and the switches *)
(* of the controllers around it.                                           *)
(***************************************************************************)
StatusOf(reason) ==
  CASE reason = "ok" -> 200
    [] reason \in {"bad_request", "invalid_s", "invalid_clientR",
                   "invalid_publicKeyY"} -> 400
    [] reason \in {"challenge_not_found", "challenge_mismatch",
                   "invalid_credential", "challenge_invalid",
                   "invalid_proof"} -> 401
    [] reason = "username_exists" -> 409
    [] OTHER -> 500

-----------------------------------------------------------------------------

VARIABLES
  pc,        \* the next store call of each request
  body,      \* the bound body of a request the controller let through
  outcome,   \* the reason the service returned with, once it is known
  rows,      \* the committed rows of user_credentials
  nextId,    \* its primary-key sequence
  rowId,     \* the key INSERT drew for each request, still uncommitted
  store,     \* Redis: "zkp:challenge:" + id; the id is the issuing request's
  found,     \* the publicKeyY the handler of a request read from the table
  held,      \* the challenge the handler of a verify request took
  audit      \* the events handed to the audit publisher

(* History: what happened, for the properties only.                        *)
VARIABLES
  written,   \* the challenges a SET ever stored
  consumer,  \* the verify request whose script removed each challenge
  faulted    \* the requests a store call of which failed

backend == <<rows, nextId, rowId, store>>
history == <<written, consumer, faulted>>
vars == <<pc, body, outcome, rows, nextId, rowId, store, found, held, audit,
          written, consumer, faulted>>

Init ==
  /\ pc = [r \in Requests |-> "idle"]
  /\ body = [r \in Requests |-> None]
  /\ outcome = [r \in Requests |-> None]
  /\ rows = {}
  /\ nextId = 1
  /\ rowId = [r \in Registers |-> 0]
  /\ store = [c \in Challenges |-> None]
  /\ found = [r \in Requests |-> None]
  /\ held = [v \in Verifies |-> None]
  /\ audit = {}
  /\ written = {}
  /\ consumer = [c \in Challenges |-> None]
  /\ faulted = {}

Goto(r, label) == pc' = [pc EXCEPT ![r] = label]

(* The service method returns; its deferred publish comes next.            *)
Finish(r, reason) ==
  /\ Goto(r, "return")
  /\ outcome' = [outcome EXCEPT ![r] = reason]

Fault(r) == faulted' = faulted \cup {r}

RowsOf(u) == {row \in rows : row.username = u}

(* Mutant: Last for First.                                                 *)
IsLast(row, u) ==
  /\ row \in RowsOf(u)
  /\ \A other \in RowsOf(u) : row.id >= other.id

(* The row FindByUsername returns: gorm's First orders by primary key.     *)
IsFirst(row, u) ==
  /\ row \in RowsOf(u)
  /\ \A other \in RowsOf(u) : row.id <= other.id

-----------------------------------------------------------------------------

(***************************************************************************)
(* The controller binds the body b and calls the service, or refuses it.   *)
(***************************************************************************)
Receive(r, b, firstCall) ==
  /\ pc[r] = "idle"
  /\ \/ /\ WellFormed(b)
        /\ body' = [body EXCEPT ![r] = b]
        /\ Goto(r, firstCall)
        /\ UNCHANGED outcome
     \/ /\ ~WellFormed(b)
        /\ Goto(r, "done")
        /\ outcome' = [outcome EXCEPT ![r] = "bad_request"]
        /\ UNCHANGED body
  /\ UNCHANGED <<backend, found, held, audit, history>>

(* Mutant: the count compared with the wrong bound (count > 1).            *)
UsernameFreeOffByOne(u) == \A row, other \in RowsOf(u) : row = other

UsernameFree(u) == RowsOf(u) = {}

(***************************************************************************)
(* Register: CountByUsername, then Create.  Nothing but this check keeps a *)
(* username unique: the column has no unique index.                        *)
(***************************************************************************)
CountByUsername(r) ==
  /\ pc[r] = "count"
  /\ \/ /\ UsernameFree(body[r].username)
        /\ Goto(r, "create")
        /\ UNCHANGED <<outcome, faulted>>
     \/ /\ ~UsernameFree(body[r].username)
        /\ Finish(r, "username_exists")
        /\ UNCHANGED faulted
     \/ /\ Finish(r, "count_error")
        /\ Fault(r)
  /\ UNCHANGED <<body, backend, found, held, audit, written, consumer>>

(***************************************************************************)
(* gorm's Create runs INSERT in a transaction of its own: the primary key  *)
(* is drawn by the INSERT, the row is seen by others at the COMMIT.        *)
(***************************************************************************)
InsertUser(r) ==
  /\ pc[r] = "create"
  /\ \/ /\ rowId' = [rowId EXCEPT ![r] = nextId]
        /\ nextId' = nextId + 1
        /\ Goto(r, "commit")
        /\ UNCHANGED <<outcome, faulted>>
     \/ /\ Finish(r, "db_error")
        /\ Fault(r)
        /\ UNCHANGED <<rowId, nextId>>
  /\ UNCHANGED <<body, rows, store, found, held, audit, written, consumer>>

RowFor(r) == [id         |-> rowId[r],
              username   |-> body[r].username,
              publicKeyY |-> body[r].publicKeyY]

CommitUser(r) ==
  /\ pc[r] = "commit"
  /\ \/ /\ rows' = rows \cup {RowFor(r)}
        /\ Finish(r, "ok")
        /\ UNCHANGED faulted
     \/ /\ rows' \in {rows, rows \cup {RowFor(r)}}
        /\ Finish(r, "db_error")
        /\ Fault(r)
  /\ UNCHANGED <<body, nextId, rowId, store, found, held, audit,
                 written, consumer>>

(* Mutant: the fake key forgotten, the zero value of the row hashed.       *)
ZeroValueKey == Blank

KeyOfNobody == FakeY

(***************************************************************************)
(* Challenge: a failed lookup, whatever its cause, is taken to mean that   *)
(* nobody has the username, and a challenge is made with the fake key.     *)
(***************************************************************************)
LookupForChallenge(c) ==
  /\ pc[c] = "lookup"
  /\ \/ /\ \E row \in rows :
             /\ IsFirst(row, body[c].username)
             /\ found' = [found EXCEPT ![c] = row.publicKeyY]
        /\ UNCHANGED faulted
     \/ /\ RowsOf(body[c].username) = {}
        /\ found' = [found EXCEPT ![c] = KeyOfNobody]
        /\ UNCHANGED faulted
     \/ /\ found' = [found EXCEPT ![c] = KeyOfNobody]
        /\ Fault(c)
  /\ Goto(c, "cache")
  /\ UNCHANGED <<body, outcome, backend, held, audit, written, consumer>>

CacheEntry(c) ==
  [username  |-> body[c].username,
   clientR   |-> body[c].clientR,
   challenge |-> computeChallengeHex(body[c].clientR, found[c],
                                     body[c].username)]

SetChallenge(c) ==
  /\ store' = [store EXCEPT ![c] = CacheEntry(c)]
  /\ written' = written \cup {c}

CacheChallenge(c) ==
  /\ pc[c] = "cache"
  /\ \/ /\ SetChallenge(c)
        /\ Finish(c, "ok")
        /\ UNCHANGED faulted
     \/ /\ SetChallenge(c) \/ UNCHANGED <<store, written>>
        /\ Finish(c, "cache_write_failed")
        /\ Fault(c)
  /\ UNCHANGED <<body, rows, nextId, rowId, found, held, audit, consumer>>

(* Mutant: the expiry set by a second call, made once the SET succeeded.   *)
ExpireAcknowledged(c) ==
  /\ ChallengeTTL > 0
  /\ store[c] # None
  /\ outcome[c] = "ok"
  /\ store' = [store EXCEPT ![c] = None]
  /\ UNCHANGED <<pc, body, outcome, rows, nextId, rowId, found, held, audit,
                 history>>

(***************************************************************************)
(* Redis drops the entry at some time after the SET; a time-to-live that   *)
(* is not positive makes go-redis send a SET without expiry.               *)
(***************************************************************************)
ExpireChallenge(c) ==
  /\ ChallengeTTL > 0
  /\ store[c] # None
  /\ store' = [store EXCEPT ![c] = None]
  /\ UNCHANGED <<pc, body, outcome, rows, nextId, rowId, found, held, audit,
                 history>>

(* Mutant: GET without DEL.                                                *)
ReadChallenge(v) ==
  LET c == body[v].challengeId IN
  /\ store[c] # None
  /\ consumer' = [consumer EXCEPT ![c] = v]
  /\ UNCHANGED store

(***************************************************************************)
(* Verify, first call: getAndDeleteChallengeScript reads and removes the   *)
(* entry in one step.  The entry is gone whatever becomes of the request.  *)
(***************************************************************************)
RemoveChallenge(v) ==
  LET c == body[v].challengeId IN
  /\ store[c] # None
  /\ store' = [store EXCEPT ![c] = None]
  /\ consumer' = [consumer EXCEPT ![c] = v]

Matches(entry, b) == entry.username = b.username /\ entry.clientR = b.clientR

TakeChallenge(v) ==
  /\ pc[v] = "take"
  /\ LET entry == store[body[v].challengeId] IN
     \/ /\ RemoveChallenge(v)
        /\ held' = [held EXCEPT ![v] = entry]
        /\ \/ /\ Matches(entry, body[v])
              /\ Goto(v, "check")
              /\ UNCHANGED outcome
           \/ /\ ~Matches(entry, body[v])
              /\ Finish(v, "challenge_mismatch")
        /\ UNCHANGED faulted
     \/ /\ entry = None
        /\ Finish(v, "challenge_not_found")
        /\ UNCHANGED <<store, consumer, held, faulted>>
     \/ /\ RemoveChallenge(v) \/ UNCHANGED <<store, consumer>>
        /\ Finish(v, "challenge_not_found")
        /\ Fault(v)
        /\ UNCHANGED held
  /\ UNCHANGED <<body, rows, nextId, rowId, found, audit, written>>

(* Mutant: the cached digest trusted, whatever key the user has now.       *)
TrustedChallenge(v, y) == held[v].challenge

(* Mutant: commitment and key exchanged in the equation.                   *)
ProofAcceptedSwapped(v, y) ==
  ProofHolds(mustBigFromHex(body[v].s), mustBigFromHex(y),
             mustBigFromHex(body[v].clientR), DigestValue(held[v].challenge))

(***************************************************************************)
(* What Verify returns for the key y it found: its checks in their order.  *)
(***************************************************************************)
Recomputed(v, y) == computeChallengeHex(body[v].clientR, y, body[v].username)

ProofAccepted(v, y) ==
  ProofHolds(mustBigFromHex(body[v].s), mustBigFromHex(body[v].clientR),
             mustBigFromHex(y), DigestValue(held[v].challenge))

Verdict(v, y) ==
  IF Recomputed(v, y) # held[v].challenge THEN "challenge_invalid"
  ELSE IF ~IsNumber(body[v].s)            THEN "invalid_s"
  ELSE IF ~IsNumber(body[v].clientR)      THEN "invalid_clientR"
  ELSE IF ~IsNumber(y)                    THEN "invalid_publicKeyY"
  ELSE IF ProofAccepted(v, y)             THEN "ok"
  ELSE "invalid_proof"

(* Verify, second call: the key is read again, and the proof checked.      *)
CheckProof(v) ==
  /\ pc[v] = "check"
  /\ \/ \E row \in rows :
          /\ IsFirst(row, body[v].username)
          /\ found' = [found EXCEPT ![v] = row.publicKeyY]
          /\ \/ /\ Finish(v, Verdict(v, row.publicKeyY))
                /\ UNCHANGED faulted
             \/ /\ Verdict(v, row.publicKeyY) = "ok"
                /\ Finish(v, "token_issue_failed")
                /\ Fault(v)
     \/ /\ RowsOf(body[v].username) = {}
        /\ Finish(v, "invalid_credential")
        /\ UNCHANGED <<found, faulted>>
     \/ /\ Finish(v, "invalid_credential")
        /\ Fault(v)
        /\ UNCHANGED found
  /\ UNCHANGED <<body, backend, held, audit, written, consumer>>

(* Mutant: the error shadowed, so that the deferred publish sees nil.      *)
EventOfShadowedError(r) == [request |-> r, success |-> TRUE,
                            reason  |-> outcome[r]]

(* Mutant: a publish that waits for room in a queue of one nobody drains.  *)
ReturnBlocking(r) ==
  /\ pc[r] = "return"
  /\ audit = {}
  /\ Goto(r, "done")
  /\ audit' = {[request |-> r, success |-> outcome[r] = "ok",
                reason  |-> outcome[r]]}
  /\ UNCHANGED <<body, outcome, backend, found, held, history>>

(***************************************************************************)
(* The deferred publish, then the controller's response.                   *)
(***************************************************************************)
EventOf(r) == [request |-> r,
               success |-> outcome[r] = "ok",
               reason  |-> outcome[r]]

Return(r) ==
  /\ pc[r] = "return"
  /\ audit' = audit \cup {EventOf(r)}
  /\ Goto(r, "done")
  /\ UNCHANGED <<body, outcome, backend, found, held, history>>

InFlight == {r \in Requests : pc[r] \notin {"idle", "done", "lost"}}

(***************************************************************************)
(* The server dies and is restarted: every request in flight is lost, and  *)
(* with it its open transaction.                                           *)
(***************************************************************************)
Crash ==
  /\ InFlight # {}
  /\ pc' = [r \in Requests |-> IF r \in InFlight THEN "lost" ELSE pc[r]]
  /\ UNCHANGED <<body, outcome, backend, found, held, audit, history>>

(* The server is idle: no client need ever send another request.           *)
Quiescent ==
  /\ InFlight = {}
  /\ UNCHANGED vars

-----------------------------------------------------------------------------

(***************************************************************************)
(* A challenge id is a random UUID drawn by the handler: a client knows it *)
(* only from the response, and may then send it, or share it, any number   *)
(* of times.                                                               *)
(***************************************************************************)
Answered(c) == pc[c] = "done" /\ outcome[c] = "ok"

IdKnown(b) == b.challengeId # Blank => Answered(b.challengeId)

Register(r)  == \/ \E b \in RegisterBodies : Receive(r, b, "count")
                \/ CountByUsername(r)
                \/ InsertUser(r)
                \/ CommitUser(r)

Challenge(c) == \/ \E b \in ChallengeBodies : Receive(c, b, "lookup")
                \/ LookupForChallenge(c)
                \/ CacheChallenge(c)

Verify(v)    == \/ \E b \in VerifyBodies : IdKnown(b) /\ Receive(v, b, "take")
                \/ TakeChallenge(v)
                \/ CheckProof(v)

Next ==
  \/ \E r \in Registers  : Register(r)
  \/ \E c \in Challenges : Challenge(c) \/ ExpireChallenge(c)
  \/ \E v \in Verifies   : Verify(v)
  \/ \E r \in Requests   : Return(r)
  \/ Crash
  \/ Quiescent

Spec == Init /\ [][Next]_vars

(***************************************************************************)
(* A handler that was called runs to its end: each call to a store returns *)
(* or fails (go-redis and the connection pool time out), and the goroutine *)
(* is scheduled.  Redis reclaims an entry whose time has come.  Clients    *)
(* need not send anything, and the server need not crash.                  *)
(***************************************************************************)
Steps(r) ==
  \/ r \in Registers  /\ (CountByUsername(r) \/ InsertUser(r) \/ CommitUser(r))
  \/ r \in Challenges /\ (LookupForChallenge(r) \/ CacheChallenge(r))
  \/ r \in Verifies   /\ (TakeChallenge(r) \/ CheckProof(r))
  \/ Return(r)

Fairness ==
  /\ \A r \in Requests : WF_vars(Steps(r))
  /\ \A c \in Challenges : WF_vars(ExpireChallenge(c))

FairSpec == Spec /\ Fairness

=============================================================================
