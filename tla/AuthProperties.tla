--------------------------- MODULE AuthProperties ---------------------------
(***************************************************************************)
(* What the authentication core must guarantee, whatever the interleaving  *)
(* of requests, the failures of the stores and the crashes of the server.  *)
(***************************************************************************)
EXTENDS AuthService

Labels == {"idle", "count", "create", "commit", "lookup", "cache",
           "take", "check", "return", "done", "lost"}

Bodies == RegisterBodies \cup ChallengeBodies \cup VerifyBodies

(***************************************************************************)
(* The state is well typed: above all, every cached challenge hashes a key *)
(* text, a real one or the fake one, and the handler that took an entry    *)
(* holds a whole entry.                                                    *)
(***************************************************************************)
TypeOK ==
  /\ pc \in [Requests -> Labels]
  /\ body \in [Requests -> Bodies \cup {None}]
  /\ outcome \in [Requests -> Reasons \cup {None}]
  /\ rows \subseteq UserCredentials
  /\ nextId \in Nat \ {0}
  /\ rowId \in [Registers -> Nat]
  /\ store \in [Challenges -> ChallengeCache \cup {None}]
  /\ found \in [Requests -> Texts \cup {None}]
  /\ held \in [Verifies -> ChallengeCache \cup {None}]
  /\ audit \subseteq [request : Requests, success : BOOLEAN, reason : Reasons]
  /\ written \subseteq Challenges
  /\ consumer \in [Challenges -> Verifies \cup {None}]
  /\ faulted \subseteq Requests

Granted(v) == outcome[v] = "ok"

(***************************************************************************)
(* A challenge buys one login: however many verify requests carry its id,  *)
(* concurrently or after a crash or a lost reply, at most one succeeds     *)
(* (Verify takes the challenge with one atomic script before it checks).   *)
(***************************************************************************)
AtMostOneGrant ==
  \A v, w \in Verifies :
    /\ Granted(v)
    /\ Granted(w)
    /\ body[v].challengeId = body[w].challengeId
    => v = w

Authentic(v) ==
  LET c == body[v].challengeId IN
  /\ c \in written
  /\ body[c].username = body[v].username
  /\ body[c].clientR = body[v].clientR
  /\ found[c] = found[v]
  /\ \E row \in RowsOf(body[v].username) : row.publicKeyY = found[v]
  /\ ProofHolds(ValueOf[body[v].s], ValueOf[body[v].clientR],
                ValueOf[found[v]],
                DigestValue(<<body[c].clientR, found[c], body[c].username>>))

(***************************************************************************)
(* A login is authentic: it is for the user and the commitment of the very *)
(* challenge it names, that challenge was made with the key the user still *)
(* resolved to when the proof was checked, somebody registered that key,   *)
(* and the verification equation holds for them.                           *)
(***************************************************************************)
LoginIsAuthentic == \A v \in Verifies : Granted(v) => Authentic(v)

(***************************************************************************)
(* A login is authentic, and its request is the one whose script removed   *)
(* the challenge from Redis.                                               *)
(***************************************************************************)
GrantIsAuthentic ==
  \A v \in Verifies :
    Granted(v) => consumer[body[v].challengeId] = v /\ Authentic(v)

(***************************************************************************)
(* The fake key denotes zero, so that its powers are zero for any digest   *)
(* but zero; no power of the generator is, which is coprime to P.          *)
(***************************************************************************)
ASSUME FakeAssumption ==
  /\ \A s \in Texts : IsNumber(s) => ModExp(G, ValueOf[s], P) # 0
  /\ \A r \in Texts, u \in Usernames :
       ModExp(ValueOf[FakeY], DigestValue(<<r, FakeY, u>>), P) = 0

(***************************************************************************)
(* A challenge made with the fake key (nobody had the username yet, or the *)
(* table could not be read) never lets anyone in, not even somebody who    *)
(* registered the all-zero text as a key.                                  *)
(***************************************************************************)
FakeChallengeNeverGranted ==
  \A v \in Verifies :
    Granted(v) => found[body[v].challengeId] # FakeY

(* The request answers the challenge it names as an honest client does.    *)
AnswersCorrectly(v) ==
  LET c == body[v].challengeId IN
  /\ body[v] # None
  /\ c \in written
  /\ body[c].username = body[v].username
  /\ body[c].clientR = body[v].clientR
  /\ IsNumber(body[v].s) /\ IsNumber(body[v].clientR) /\ IsNumber(found[c])
  /\ ProofHolds(ValueOf[body[v].s], ValueOf[body[v].clientR],
                ValueOf[found[c]], DigestValue(CacheEntry(c).challenge))

(***************************************************************************)
(* A correct proof is refused only for cause: another request consumed the *)
(* challenge, it expired, a store failed during this request, or an older  *)
(* row of the same username was committed in between and replaced the key. *)
(***************************************************************************)
RefusedOnlyForCause ==
  \A v \in Verifies :
    /\ outcome[v] \notin {None, "ok", "bad_request"}
    /\ AnswersCorrectly(v)
    =>
    LET c == body[v].challengeId IN
    \/ v \in faulted
    \/ consumer[c] \notin {v, None}
    \/ consumer[c] = None /\ store[c] = None /\ ChallengeTTL > 0
    \/ /\ found[v] \notin {found[c], None}
       /\ \E old, new \in RowsOf(body[v].username) :
            /\ old.publicKeyY = found[v]
            /\ new.publicKeyY = found[c]
            /\ old.id < new.id

(* Requests that got past the controller and were answered.                *)
Served == {r \in Requests : pc[r] = "done" /\ body[r] # None}

(***************************************************************************)
(* The audit trail is true to the stores.  Every request that reached the  *)
(* service and was answered has an event.  A row is accounted for by the   *)
(* event of its registration, a success or a db_error; a refused register  *)
(* request left no row unless the database failed during it; a login that  *)
(* was answered left a success event, the only one for its challenge.      *)
(***************************************************************************)
AuditTellsTheTruth ==
  /\ \A r \in Served : \E e \in audit : e.request = r
  /\ \A e \in audit :
       e.request \in Registers =>
         /\ e.success => RowFor(e.request) \in rows
         /\ RowFor(e.request) \in rows => e.reason \in {"ok", "db_error"}
         /\ RowFor(e.request) \in rows /\ ~e.success => e.request \in faulted
  /\ \A c \in Challenges :
       \A e, f \in {a \in audit : /\ a.request \in Verifies
                                  /\ body[a.request].challengeId = c
                                  /\ a.success} :
         e = f /\ consumer[c] = e.request

(* The key a username resolves to, and the id of its row.                  *)
FirstIds(u) == {row.id : row \in {x \in rows : IsFirst(x, u)}}

(***************************************************************************)
(* The key of a username is stable but for one case: it changes only when  *)
(* a row with a smaller id is committed late (its INSERT drew the id       *)
(* before), and never disappears.                                          *)
(***************************************************************************)
KeyOnlyYieldsToOlderRow ==
  [][ \A u \in Usernames : \A i \in FirstIds(u) :
        \E j \in FirstIds(u)' : j <= i /\ (j < i => \E r \in Registers :
                                             pc[r] = "commit" /\ rowId[r] = j)
    ]_vars

(***************************************************************************)
(* Registrations that do not overlap keep usernames unique: a request that *)
(* arrives when its username is taken never adds a row.                    *)
(***************************************************************************)
Taken(u) == RowsOf(u) # {}

AddedRow(r, u) == body[r] # None /\ body[r].username = u /\ RowFor(r) \in rows

LateRegistrationAddsNothing ==
  \A r \in Registers, u \in Usernames :
    [](pc[r] = "idle" /\ Taken(u) => []~AddedRow(r, u))

(***************************************************************************)
(* Every request that reached the service is answered, unless the server   *)
(* crashed under it.                                                       *)
(***************************************************************************)
EveryRequestIsAnswered ==
  \A r \in Requests : r \in InFlight ~> pc[r] \in {"done", "lost"}

(***************************************************************************)
(* No challenge stays in Redis for ever, not even one whose handler got an *)
(* error for its SET, or crashed before it could tell the client.          *)
(***************************************************************************)
ChallengesDoNotLinger ==
  \A c \in Challenges : store[c] # None ~> store[c] = None

-----------------------------------------------------------------------------
(* What the code's own texts promise, and the code does not keep.          *)

(***************************************************************************)
(* "username already exists": no two accounts share a username.  The check *)
(* (CountByUsername) and the insertion are two calls, and the column has   *)
(* no unique index.                                                        *)
(***************************************************************************)
UniqueUsername ==
  \A row, other \in rows : row.username = other.username => row = other

(***************************************************************************)
(* The server takes the blame only for the stores: a request is answered   *)
(* with a server error only if one of its calls failed, whatever nonsense  *)
(* its body, or the key somebody registered, may be.  The reverse does not *)
(* hold: a failed call of verify is answered 401, as if the client had     *)
(* made a mistake (MapServiceErrorToCode).                                 *)
(***************************************************************************)
ServerErrorNeedsAFault ==
  \A r \in Requests :
    outcome[r] # None /\ StatusOf(outcome[r]) >= 500 => r \in faulted

-----------------------------------------------------------------------------

(***************************************************************************)
(* The core implements OneTimeLogin: a challenge is open while Redis holds *)
(* it, taken while its consumer checks the proof, and spent afterwards.    *)
(***************************************************************************)
PhaseOf(c) ==
  IF c \notin written            THEN "unissued"
  ELSE IF store[c] # None        THEN "open"
  ELSE IF consumer[c] = None     THEN "lapsed"
  ELSE IF pc[consumer[c]] = "check" THEN "taken"
  ELSE "spent"

PhaseMap == [c \in Challenges |-> PhaseOf(c)]

OwnerMap ==
  [c \in Challenges |-> IF c \in written THEN body[c].username ELSE None]

LoginMap ==
  [v \in Verifies |-> IF Granted(v) THEN body[v].username ELSE None]

Abstract == INSTANCE OneTimeLogin WITH
  Ids <- Challenges, Attempt <- Verifies, User <- Usernames, Nobody <- None,
  phase <- PhaseMap, owner <- OwnerMap, taker <- consumer, login <- LoginMap

ImplementsOneTimeLogin == Abstract!Spec

=============================================================================
