-------------------------- MODULE AuthServiceProofs --------------------------
(***************************************************************************)
(* Proofs about the authentication core, for any number of requests, users *)
(* and texts, any group and any digest function.                           *)
(***************************************************************************)
EXTENDS AuthProperties, TLAPS

(***************************************************************************)
(* The control of each handler: the labels it goes through, the requests   *)
(* it lets through, and when its outcome is known.                         *)
(***************************************************************************)
RegisterLabels  == {"idle", "count", "create", "commit", "return", "done", "lost"}
ChallengeLabels == {"idle", "lookup", "cache", "return", "done", "lost"}
VerifyLabels    == {"idle", "take", "check", "return", "done", "lost"}

Control ==
  /\ \A r \in Registers :
       /\ pc[r] \in RegisterLabels
       /\ body[r] # None =>
            body[r] \in [username : Usernames, publicKeyY : Texts, salt : {"salt"}]
  /\ \A c \in Challenges :
       /\ pc[c] \in ChallengeLabels
       /\ body[c] # None => body[c] \in [username : Usernames, clientR : Texts]
       /\ pc[c] = "cache" => found[c] # None
  /\ \A v \in Verifies :
       /\ pc[v] \in VerifyLabels
       /\ body[v] # None =>
            body[v] \in [challengeId : Challenges, s : Texts, clientR : Texts,
                         username : Usernames]
  /\ \A r \in Requests :
       /\ pc[r] = "idle" => body[r] = None /\ outcome[r] = None
       /\ body[r] = None => pc[r] \in {"idle", "done"}
       /\ pc[r] = "return" => outcome[r] # None
       /\ outcome[r] = "ok" => pc[r] \in {"return", "done", "lost"}

TypeInv == TypeOK /\ Control

USE RequestAssumption, ValueAssumption, BodyAssumption

-----------------------------------------------------------------------------

(***************************************************************************)
(* A body the controllers let through has no empty field.                  *)
(***************************************************************************)
LEMMA WellFormedBodies ==
  /\ \A b \in RegisterBodies : WellFormed(b) =>
       b \in [username : Usernames, publicKeyY : Texts, salt : {"salt"}]
  /\ \A b \in ChallengeBodies : WellFormed(b) =>
       b \in [username : Usernames, clientR : Texts]
  /\ \A b \in VerifyBodies : WellFormed(b) =>
       b \in [challengeId : Challenges, s : Texts, clientR : Texts,
              username : Usernames]
  BY DEF WellFormed, RegisterRequest, ChallengeRequest, VerifyRequest

(***************************************************************************)
(* The outcomes named in the handlers are audit reasons, and None is none  *)
(* of them.                                                                *)
(***************************************************************************)
LEMMA ReasonFacts ==
  /\ None # "ok" /\ None \notin Reasons
  /\ {"ok", "count_error", "username_exists", "db_error", "cache_write_failed",
      "challenge_not_found", "challenge_mismatch", "invalid_credential",
      "token_issue_failed", "bad_request"} \subseteq Reasons
  BY DEF Reasons

(***************************************************************************)
(* Initially no request was received and the stores are empty: the types   *)
(* and the control hold.                                                   *)
(***************************************************************************)
LEMMA InitTypeInv == Init => TypeInv
<1> SUFFICES ASSUME Init PROVE TypeInv
  OBVIOUS
<1>1. TypeOK
  BY DEF Init, TypeOK, Requests, Labels
<1>2. Control
  BY ReasonFacts DEF Init, Control, Requests, RegisterLabels, ChallengeLabels,
                     VerifyLabels
<1> QED
  BY <1>1, <1>2 DEF TypeInv

-----------------------------------------------------------------------------
(* Each action preserves the types and the control.                        *)

(***************************************************************************)
(* Binding a request body (the head of each controller method) preserves   *)
(* them.                                                                   *)
(***************************************************************************)
LEMMA ReceiveTypeInv ==
  ASSUME TypeInv, NEW r \in Requests, NEW b, NEW label, Receive(r, b, label),
         \/ r \in Registers /\ b \in RegisterBodies /\ label = "count"
         \/ r \in Challenges /\ b \in ChallengeBodies /\ label = "lookup"
         \/ r \in Verifies /\ b \in VerifyBodies /\ label = "take"
  PROVE  TypeInv'
<1>1. CASE WellFormed(b)
  <2>1. TypeOK'
    BY <1>1 DEF Receive, TypeInv, TypeOK, Goto, backend, history, Labels, Bodies
  <2>2. Control'
    BY <1>1, WellFormedBodies, ReasonFacts
    DEF Receive, TypeInv, TypeOK, Control, Goto, backend, history, Requests,
        RegisterLabels, ChallengeLabels, VerifyLabels
  <2> QED
    BY <2>1, <2>2 DEF TypeInv
<1>2. CASE ~WellFormed(b)
  <2>1. TypeOK'
    BY <1>2, ReasonFacts
    DEF Receive, TypeInv, TypeOK, Goto, backend, history, Labels
  <2>2. Control'
    BY <1>2, ReasonFacts
    DEF Receive, TypeInv, TypeOK, Control, Goto, backend, history, Requests,
        RegisterLabels, ChallengeLabels, VerifyLabels
  <2> QED
    BY <2>1, <2>2 DEF TypeInv
<1> QED
  BY <1>1, <1>2

(***************************************************************************)
(* So does every store call of Register,                                   *)
(***************************************************************************)
LEMMA RegisterTypeInv ==
  ASSUME TypeInv, NEW r \in Registers,
         CountByUsername(r) \/ InsertUser(r) \/ CommitUser(r)
  PROVE  TypeInv'
<1>1. CASE CountByUsername(r)
  <2>1. TypeOK'
    BY <1>1, ReasonFacts DEF CountByUsername, TypeInv, TypeOK, Goto, Finish, Fault,
                             backend, Labels, Requests
  <2>2. Control'
    BY <1>1, ReasonFacts
    DEF CountByUsername, TypeInv, TypeOK, Control, Goto, Finish, backend, Requests,
        RegisterLabels, ChallengeLabels, VerifyLabels
  <2> QED
    BY <2>1, <2>2 DEF TypeInv
<1>2. CASE InsertUser(r)
  <2>1. TypeOK'
    BY <1>2, ReasonFacts DEF InsertUser, TypeInv, TypeOK, Goto, Finish, Fault,
                             Labels, Requests
  <2>2. Control'
    BY <1>2, ReasonFacts
    DEF InsertUser, TypeInv, TypeOK, Control, Goto, Finish, Requests,
        RegisterLabels, ChallengeLabels, VerifyLabels
  <2> QED
    BY <2>1, <2>2 DEF TypeInv
<1>3. CASE CommitUser(r)
  <2>1. RowFor(r) \in UserCredentials
    BY <1>3 DEF CommitUser, TypeInv, TypeOK, Control, Requests, RowFor,
                UserCredentials
  <2>2. TypeOK'
    BY <1>3, <2>1, ReasonFacts DEF CommitUser, TypeInv, TypeOK, Goto, Finish, Fault,
                                   Labels, Requests
  <2>3. Control'
    BY <1>3, ReasonFacts
    DEF CommitUser, TypeInv, TypeOK, Control, Goto, Finish, Requests,
        RegisterLabels, ChallengeLabels, VerifyLabels
  <2> QED
    BY <2>2, <2>3 DEF TypeInv
<1> QED
  BY <1>1, <1>2, <1>3

(***************************************************************************)
(* every store call of Challenge and the expiry of a challenge,            *)
(***************************************************************************)
LEMMA ChallengeTypeInv ==
  ASSUME TypeInv, NEW c \in Challenges,
         LookupForChallenge(c) \/ CacheChallenge(c) \/ ExpireChallenge(c)
  PROVE  TypeInv'
<1>1. CASE LookupForChallenge(c)
  <2>1. PICK y \in Texts : found' = [found EXCEPT ![c] = y]
    BY <1>1 DEF LookupForChallenge, IsFirst, RowsOf, TypeInv, TypeOK,
                UserCredentials, KeyOfNobody
  <2>2. faulted' \subseteq Requests
    BY <1>1 DEF LookupForChallenge, TypeInv, TypeOK, Fault, Requests
  <2>3. TypeOK'
    BY <1>1, <2>1, <2>2 DEF LookupForChallenge, TypeInv, TypeOK, Goto, backend,
                            Labels
  <2>4. Control'
    BY <1>1, <2>1, ReasonFacts
    DEF LookupForChallenge, TypeInv, TypeOK, Control, Goto, backend, Requests,
        RegisterLabels, ChallengeLabels, VerifyLabels
  <2> QED
    BY <2>3, <2>4 DEF TypeInv
<1>2. CASE CacheChallenge(c)
  <2>1. CacheEntry(c) \in ChallengeCache
    BY <1>2 DEF CacheChallenge, TypeInv, TypeOK, Control, Requests, CacheEntry,
                ChallengeCache, computeChallengeHex
  <2>2. TypeOK'
    BY <1>2, <2>1, ReasonFacts
    DEF CacheChallenge, SetChallenge, TypeInv, TypeOK, Goto, Finish, Fault, Labels,
        Requests
  <2>3. Control'
    BY <1>2, ReasonFacts
    DEF CacheChallenge, TypeInv, TypeOK, Control, Goto, Finish, Requests,
        RegisterLabels, ChallengeLabels, VerifyLabels
  <2> QED
    BY <2>2, <2>3 DEF TypeInv
<1>3. CASE ExpireChallenge(c)
  BY <1>3 DEF ExpireChallenge, TypeInv, TypeOK, Control, history
<1> QED
  BY <1>1, <1>2, <1>3

(***************************************************************************)
(* and, since what Verify returns is one of its audit reasons,             *)
(***************************************************************************)
LEMMA VerdictIsReason ==
  ASSUME NEW v, NEW y
  PROVE  Verdict(v, y) \in Reasons
  BY DEF Verdict, Reasons

(***************************************************************************)
(* every store call of Verify,                                             *)
(***************************************************************************)
LEMMA VerifyTypeInv ==
  ASSUME TypeInv, NEW v \in Verifies, TakeChallenge(v) \/ CheckProof(v)
  PROVE  TypeInv'
<1>1. CASE TakeChallenge(v)
  <2> DEFINE c == body[v].challengeId
  <2>1. c \in Challenges
    BY <1>1 DEF TakeChallenge, TypeInv, Control, Requests
  <2>2. /\ store' \in [Challenges -> ChallengeCache \cup {None}]
        /\ consumer' \in [Challenges -> Verifies \cup {None}]
    BY <1>1, <2>1 DEF TakeChallenge, RemoveChallenge, TypeInv, TypeOK
  <2>3. held' \in [Verifies -> ChallengeCache \cup {None}]
    BY <1>1, <2>1 DEF TakeChallenge, TypeInv, TypeOK
  <2>4. /\ pc' \in [Requests -> Labels]
        /\ outcome' \in [Requests -> Reasons \cup {None}]
        /\ faulted' \subseteq Requests
    BY <1>1, ReasonFacts DEF TakeChallenge, TypeInv, TypeOK, Goto, Finish, Fault,
                             Labels, Requests
  <2>5. TypeOK'
    BY <1>1, <2>2, <2>3, <2>4 DEF TakeChallenge, TypeInv, TypeOK
  <2>6. Control'
    BY <1>1, ReasonFacts
    DEF TakeChallenge, TypeInv, TypeOK, Control, Goto, Finish, Requests,
        RegisterLabels, ChallengeLabels, VerifyLabels
  <2> QED
    BY <2>5, <2>6 DEF TypeInv
<1>2. CASE CheckProof(v)
  <2>1. /\ pc[v] = "check"
        /\ pc' = [pc EXCEPT ![v] = "return"]
        /\ \E reason \in Reasons : outcome' = [outcome EXCEPT ![v] = reason]
    BY <1>2, ReasonFacts, VerdictIsReason DEF CheckProof, Finish, Goto
  <2>2. /\ found' \in [Requests -> Texts \cup {None}]
        /\ \A r \in Requests : r # v => found'[r] = found[r]
        /\ faulted' \subseteq Requests
    BY <1>2 DEF CheckProof, IsFirst, RowsOf, UserCredentials, TypeInv, TypeOK, Fault,
                Requests
  <2>3. TypeOK'
    BY <1>2, <2>1, <2>2 DEF CheckProof, TypeInv, TypeOK, backend, Labels, Requests
  <2>4. Control'
    BY <1>2, <2>1, <2>2, ReasonFacts
    DEF CheckProof, TypeInv, TypeOK, Control, backend, Requests,
        RegisterLabels, ChallengeLabels, VerifyLabels
  <2> QED
    BY <2>3, <2>4 DEF TypeInv
<1> QED
  BY <1>1, <1>2

(***************************************************************************)
(* and the answers, crashes and idling of the server.                      *)
(***************************************************************************)
LEMMA ServerTypeInv ==
  ASSUME TypeInv,
         (\E r \in Requests : Return(r)) \/ Crash \/ UNCHANGED vars
  PROVE  TypeInv'
<1>1. CASE \E r \in Requests : Return(r)
  <2> PICK r \in Requests : Return(r)
    BY <1>1
  <2>1. EventOf(r) \in [request : Requests, success : BOOLEAN, reason : Reasons]
    BY DEF Return, TypeInv, TypeOK, Control, EventOf
  <2>2. TypeOK'
    BY <2>1 DEF Return, TypeInv, TypeOK, Goto, backend, history, Labels
  <2>3. Control'
    BY DEF Return, TypeInv, TypeOK, Control, Goto, backend, history, Requests,
           RegisterLabels, ChallengeLabels, VerifyLabels
  <2> QED
    BY <2>2, <2>3 DEF TypeInv
<1>2. CASE Crash
  <2>1. TypeOK'
    BY <1>2 DEF Crash, TypeInv, TypeOK, backend, history, Labels
  <2>2. Control'
    BY <1>2 DEF Crash, InFlight, TypeInv, TypeOK, Control, backend, history, Requests,
                RegisterLabels, ChallengeLabels, VerifyLabels
  <2> QED
    BY <2>1, <2>2 DEF TypeInv
<1>3. CASE UNCHANGED vars
  BY <1>3 DEF vars, TypeInv, TypeOK, Control
<1> QED
  BY <1>1, <1>2, <1>3

(***************************************************************************)
(* Hence every step preserves the types and the control.                   *)
(***************************************************************************)
LEMMA NextTypeInv == TypeInv /\ [Next]_vars => TypeInv'
<1> SUFFICES ASSUME TypeInv, [Next]_vars PROVE TypeInv'
  OBVIOUS
<1> QED
  BY ReceiveTypeInv, RegisterTypeInv, ChallengeTypeInv, VerifyTypeInv,
     ServerTypeInv
  DEF Next, Register, Challenge, Verify, Quiescent, Requests

(***************************************************************************)
(* In every run the state has its types, and each handler is where its     *)
(* control flow allows it to be.                                           *)
(***************************************************************************)
THEOREM TypeInvariance == Spec => []TypeInv
  BY InitTypeInv, NextTypeInv, PTL DEF Spec

(***************************************************************************)
(* The state is well typed in every run of the core.                       *)
(***************************************************************************)
THEOREM TypeCorrect == Spec => []TypeOK
  BY TypeInvariance, PTL DEF TypeInv

-----------------------------------------------------------------------------

(***************************************************************************)
(* The life of a challenge.  Once written, the request it came from is     *)
(* past the SET, so that what it was made of no longer changes; while      *)
(* Redis holds it nobody has consumed it; and its consumer named it and is *)
(* past the taking of it.                                                  *)
(***************************************************************************)
ChallengeInv ==
  \A c \in Challenges :
    /\ c \in written => /\ body[c] # None
                       /\ found[c] # None
                       /\ pc[c] \in {"return", "done", "lost"}
    /\ store[c] # None => /\ c \in written
                         /\ consumer[c] = None
                         /\ store[c] = CacheEntry(c)
    /\ consumer[c] # None => /\ c \in written
                            /\ store[c] = None
                            /\ body[consumer[c]] # None
                            /\ body[consumer[c]].challengeId = c
                            /\ pc[consumer[c]] \in {"check", "return", "done",
                                                    "lost"}

(***************************************************************************)
(* A verify request that checks a proof, or has accepted one, is the       *)
(* consumer of the challenge it names, agrees with the request the         *)
(* challenge was made for, and holds the entry as it was written.          *)
(***************************************************************************)
Holds(v) ==
  LET c == body[v].challengeId IN
  /\ body[v] # None
  /\ consumer[c] = v
  /\ body[c].username = body[v].username
  /\ body[c].clientR = body[v].clientR
  /\ held[v] = CacheEntry(c)

HolderInv == \A v \in Verifies : pc[v] = "check" \/ Granted(v) => Holds(v)

Inv == TypeInv /\ ChallengeInv /\ HolderInv /\ GrantIsAuthentic

(***************************************************************************)
(* What such a request names is a challenge that was written, and a user.  *)
(***************************************************************************)
LEMMA HolderFacts ==
  ASSUME Inv, NEW v \in Verifies, pc[v] = "check" \/ Granted(v)
  PROVE  /\ body[v].challengeId \in Challenges
         /\ body[v].challengeId \in written
         /\ body[v].username \in Usernames
  BY DEF Inv, TypeInv, Control, ChallengeInv, HolderInv, Holds

(***************************************************************************)
(* Initially there is no challenge and no login: the invariant holds.      *)
(***************************************************************************)
LEMMA InitInv == Init => Inv
<1> SUFFICES ASSUME Init PROVE Inv
  OBVIOUS
<1> QED
  BY InitTypeInv, ReasonFacts
  DEF Inv, Init, ChallengeInv, HolderInv, GrantIsAuthentic, Authentic, Granted, Requests

(***************************************************************************)
(* A step that leaves the challenges alone, the requests that are past     *)
(* their first call alone, and grants nothing, preserves the invariant.    *)
(***************************************************************************)
LEMMA FrameInv ==
  ASSUME Inv, TypeInv',
         UNCHANGED <<store, held, written, consumer>>,
         rows \subseteq rows',
         \A r \in Requests : body[r] # None => body'[r] = body[r],
         \A c \in written : /\ found'[c] = found[c]
                            /\ pc'[c] \in {"return", "done", "lost"},
         \A v \in Verifies :
           /\ pc'[v] = "check" => pc[v] = "check"
           /\ pc[v] \in {"check", "return", "done", "lost"} =>
                pc'[v] \in {"check", "return", "done", "lost"}
           /\ Granted(v)' => Granted(v) /\ found'[v] = found[v]
  PROVE  Inv'
<1>1. \A c \in written : body'[c] = body[c] /\ CacheEntry(c)' = CacheEntry(c)
  BY DEF Inv, TypeInv, TypeOK, ChallengeInv, CacheEntry, Requests
<1>2. ChallengeInv'
  BY <1>1 DEF Inv, TypeInv, TypeOK, ChallengeInv, Requests
<1>3. HolderInv'
  <2> SUFFICES ASSUME NEW v \in Verifies, pc'[v] = "check" \/ Granted(v)'
               PROVE  Holds(v)'
    BY DEF HolderInv
  <2>1. pc[v] = "check" \/ Granted(v)
    OBVIOUS
  <2>2. Holds(v) /\ body'[v] = body[v] /\ body[v].challengeId \in written
    BY <2>1, HolderFacts DEF Inv, HolderInv, Holds, Requests
  <2> QED
    BY <2>2, <1>1 DEF Holds
<1>4. GrantIsAuthentic'
  <2> SUFFICES ASSUME NEW v \in Verifies, Granted(v)'
               PROVE  LET c == body'[v].challengeId IN
                      /\ c \in written'
                      /\ consumer'[c] = v
                      /\ body'[c].username = body'[v].username
                      /\ body'[c].clientR = body'[v].clientR
                      /\ found'[c] = found'[v]
                      /\ \E row \in RowsOf(body[v].username)' :
                            row.publicKeyY = found'[v]
                      /\ ProofHolds(ValueOf[body'[v].s], ValueOf[body'[v].clientR],
                            ValueOf[found'[v]],
                            DigestValue(<<body'[c].clientR, found'[c],
                                          body'[c].username>>))
    BY DEF GrantIsAuthentic, Authentic
  <2>1. Granted(v) /\ found'[v] = found[v]
    OBVIOUS
  <2>2. body[v].challengeId \in written /\ body'[v] = body[v]
    BY <2>1, HolderFacts DEF Inv, HolderInv, Holds, Requests
  <2>3. RowsOf(body[v].username) \subseteq RowsOf(body[v].username)'
    BY <2>2 DEF RowsOf
  <2> QED
    BY <2>1, <2>2, <2>3, <1>1 DEF Inv, GrantIsAuthentic, Authentic
<1> QED
  BY <1>2, <1>3, <1>4 DEF Inv

(***************************************************************************)
(* The steps FrameInv speaks of: everything but the steps that touch Redis *)
(* and the one that checks a proof.                                        *)
(***************************************************************************)
LEMMA FramedSteps ==
  ASSUME Inv, TypeInv',
         \/ \E r \in Requests : \E b, label :
              Receive(r, b, label) /\ label # "check"
         \/ \E r \in Registers :
              CountByUsername(r) \/ InsertUser(r) \/ CommitUser(r)
         \/ \E c \in Challenges : LookupForChallenge(c)
         \/ \E r \in Requests : Return(r)
         \/ Crash
         \/ UNCHANGED vars
  PROVE  Inv'
<1> USE DEF Granted, backend, history, Goto, Finish, Requests
<1>1. CASE \E r \in Requests : \E b, label : Receive(r, b, label) /\ label # "check"
  <2> PICK r \in Requests : \E b, label : Receive(r, b, label) /\ label # "check"
    BY <1>1
  <2> PICK b, label : Receive(r, b, label) /\ label # "check"
    OBVIOUS
  <2>1. pc[r] = "idle" /\ body[r] = None /\ outcome[r] = None
    BY DEF Receive, Inv, TypeInv, Control
  <2>2. \A q \in Requests : q # r => /\ pc'[q] = pc[q]
                                    /\ body'[q] = body[q]
                                    /\ outcome'[q] = outcome[q]
    BY DEF Receive, Inv, TypeInv, TypeOK
  <2>3. pc'[r] # "check" /\ outcome'[r] # "ok"
    BY <2>1, ReasonFacts DEF Receive, Inv, TypeInv, TypeOK
  <2>4. r \notin written
    BY <2>1 DEF Inv, ChallengeInv, TypeInv, TypeOK
  <2> QED
    BY <2>1, <2>2, <2>3, <2>4, FrameInv
    DEF Receive, Inv, TypeInv, TypeOK, ChallengeInv
<1>2. CASE \E r \in Registers :
             CountByUsername(r) \/ InsertUser(r) \/ CommitUser(r)
  <2> PICK r \in Registers : CountByUsername(r) \/ InsertUser(r) \/ CommitUser(r)
    BY <1>2
  <2>1. \A q \in Requests : q # r => /\ pc'[q] = pc[q]
                                    /\ outcome'[q] = outcome[q]
    BY DEF CountByUsername, InsertUser, CommitUser, Inv, TypeInv, TypeOK
  <2>2. /\ UNCHANGED <<body, found, held, store, written, consumer>>
        /\ rows \subseteq rows'
    BY DEF CountByUsername, InsertUser, CommitUser
  <2>3. r \notin Verifies /\ r \notin Challenges
    OBVIOUS
  <2> QED
    BY <2>1, <2>2, <2>3, FrameInv DEF Inv, TypeInv, TypeOK, ChallengeInv
<1>3. CASE \E c \in Challenges : LookupForChallenge(c)
  <2> PICK c \in Challenges : LookupForChallenge(c)
    BY <1>3
  <2>1. \A q \in Requests : q # c => pc'[q] = pc[q] /\ found'[q] = found[q]
    BY DEF LookupForChallenge, Inv, TypeInv, TypeOK
  <2>2. c \notin written
    BY DEF LookupForChallenge, Inv, ChallengeInv
  <2> QED
    BY <2>1, <2>2, FrameInv
    DEF LookupForChallenge, Inv, TypeInv, TypeOK, ChallengeInv
<1>4. CASE \E r \in Requests : Return(r)
  <2> PICK r \in Requests : Return(r)
    BY <1>4
  <2>1. \A q \in Requests : pc'[q] = IF q = r THEN "done" ELSE pc[q]
    BY DEF Return, Inv, TypeInv, TypeOK
  <2> QED
    BY <2>1, FrameInv DEF Return, Inv, TypeInv, TypeOK, ChallengeInv
<1>5. CASE Crash
  <2>1. \A q \in Requests : pc'[q] = pc[q] \/ pc'[q] = "lost"
    BY <1>5 DEF Crash
  <2> QED
    BY <1>5, <2>1, FrameInv DEF Crash, Inv, TypeInv, TypeOK, ChallengeInv
<1>6. CASE UNCHANGED vars
  BY <1>6, FrameInv DEF vars, Inv, TypeInv, TypeOK, ChallengeInv
<1> QED
  BY <1>1, <1>2, <1>3, <1>4, <1>5, <1>6

(***************************************************************************)
(* An expired challenge was not consumed, and nobody holds it yet.         *)
(***************************************************************************)
LEMMA ExpireChallengeInv ==
  ASSUME Inv, TypeInv', NEW c \in Challenges, ExpireChallenge(c)
  PROVE  Inv'
<1> USE DEF ExpireChallenge, history, Granted
<1>1. ChallengeInv'
  BY DEF Inv, TypeInv, TypeOK, ChallengeInv, CacheEntry
<1>2. HolderInv'
  BY DEF Inv, HolderInv, Holds, CacheEntry
<1>3. GrantIsAuthentic'
  BY DEF Inv, GrantIsAuthentic, Authentic, RowsOf
<1> QED
  BY <1>1, <1>2, <1>3 DEF Inv

(***************************************************************************)
(* A challenge comes into being with the entry made of its request,        *)
(* whether or not the SET was acknowledged; nobody can have named it       *)
(* before.                                                                 *)
(***************************************************************************)
LEMMA CacheChallengeInv ==
  ASSUME Inv, TypeInv', NEW c \in Challenges, CacheChallenge(c)
  PROVE  Inv'
<1> USE DEF CacheChallenge, SetChallenge, Finish, Goto, Granted, Requests
<1>1. c \notin written /\ consumer[c] = None /\ body[c] # None /\ found[c] # None
  BY DEF Inv, TypeInv, TypeOK, Control, ChallengeInv
<1>2. /\ \A q \in Requests : q # c => pc'[q] = pc[q] /\ outcome'[q] = outcome[q]
      /\ pc'[c] = "return"
      /\ UNCHANGED <<body, rows, found, held, consumer>>
      /\ written \subseteq written' /\ written' \subseteq written \cup {c}
      /\ \A d \in Challenges : d # c => store'[d] = store[d]
      /\ store'[c] # None => store'[c] = CacheEntry(c) /\ c \in written'
  BY <1>1 DEF Inv, TypeInv, TypeOK, ChallengeInv
<1>3. ChallengeInv'
  BY <1>1, <1>2 DEF Inv, TypeInv, TypeOK, ChallengeInv, CacheEntry
<1>4. HolderInv'
  BY <1>2 DEF Inv, HolderInv, Holds, CacheEntry
<1>5. GrantIsAuthentic'
  BY <1>2 DEF Inv, GrantIsAuthentic, Authentic, RowsOf
<1> QED
  BY <1>3, <1>4, <1>5 DEF Inv

(***************************************************************************)
(* What a take amounts to.  Redis still had the entry and the request is   *)
(* now its consumer, or neither the store nor the consumers changed; only  *)
(* in the first case can the request go on to check the proof.             *)
(***************************************************************************)
LEMMA TakeFacts ==
  ASSUME Inv, NEW v \in Verifies, TakeChallenge(v)
  PROVE  LET c == body[v].challengeId IN
         /\ c \in Challenges /\ body[v] # None /\ pc[v] = "take"
         /\ \/ /\ store[c] = CacheEntry(c) /\ store[c] # None /\ c \in written
               /\ consumer[c] = None
               /\ store' = [store EXCEPT ![c] = None]
               /\ consumer' = [consumer EXCEPT ![c] = v]
            \/ UNCHANGED <<store, consumer>> /\ pc'[v] = "return"
         /\ pc'[v] \in {"check", "return"}
         /\ pc'[v] = "check" => Matches(store[c], body[v]) /\ held'[v] = store[c]
         /\ outcome'[v] # "ok"
         /\ \A q \in Requests : q # v => pc'[q] = pc[q] /\ outcome'[q] = outcome[q]
         /\ \A w \in Verifies : w # v => held'[w] = held[w]
<1> DEFINE c == body[v].challengeId
<1>1. c \in Challenges /\ body[v] # None /\ pc[v] = "take" /\ outcome[v] # "ok"
  BY DEF TakeChallenge, Inv, TypeInv, Control, Requests
<1>2. ASSUME store[c] # None
      PROVE  store[c] = CacheEntry(c) /\ c \in written /\ consumer[c] = None
  BY <1>1, <1>2 DEF Inv, ChallengeInv
<1>3. /\ pc'[v] \in {"check", "return"}
      /\ pc'[v] = "check" => /\ Matches(store[c], body[v])
                             /\ held'[v] = store[c]
                             /\ RemoveChallenge(v)
      /\ outcome'[v] # "ok"
      /\ \A q \in Requests : q # v => pc'[q] = pc[q] /\ outcome'[q] = outcome[q]
      /\ \A w \in Verifies : w # v => held'[w] = held[w]
      /\ RemoveChallenge(v) \/ UNCHANGED <<store, consumer>>
  BY <1>1 DEF TakeChallenge, Finish, Goto, Inv, TypeInv, TypeOK, Requests
<1>4. RemoveChallenge(v) => /\ store[c] # None
                           /\ store' = [store EXCEPT ![c] = None]
                           /\ consumer' = [consumer EXCEPT ![c] = v]
  BY DEF RemoveChallenge
<1> QED
  BY <1>1, <1>2, <1>3, <1>4

(***************************************************************************)
(* The script removes the challenge as it is read, so that its reader      *)
(* becomes its one consumer; a reader whose reply was lost holds nothing.  *)
(***************************************************************************)
LEMMA TakeChallengeInv ==
  ASSUME Inv, TypeInv', NEW v \in Verifies, TakeChallenge(v)
  PROVE  Inv'
<1> DEFINE c == body[v].challengeId
<1>1. UNCHANGED <<body, rows, found, written>>
  BY DEF TakeChallenge
<1>2. \A d \in Challenges : CacheEntry(d)' = CacheEntry(d)
  BY <1>1 DEF CacheEntry
<1>3. ChallengeInv'
  BY <1>1, <1>2, TakeFacts DEF Inv, TypeInv, TypeOK, ChallengeInv, Requests
<1>4. HolderInv'
  <2> SUFFICES ASSUME NEW w \in Verifies, pc'[w] = "check" \/ Granted(w)'
               PROVE  Holds(w)'
    BY DEF HolderInv
  <2>1. CASE w = v
    <3>1. pc'[v] = "check"
      BY <2>1, TakeFacts DEF Granted
    <3>2. /\ body'[v] = body[v] /\ body[v] # None /\ c \in Challenges
          /\ consumer'[c] = v /\ held'[v] = CacheEntry(c)
          /\ Matches(CacheEntry(c), body[v])
      BY <1>1, <3>1, TakeFacts DEF Inv, TypeInv, TypeOK
    <3> QED
      BY <1>1, <1>2, <2>1, <3>2 DEF Holds, Matches, CacheEntry
  <2>2. CASE w # v
    <3>1. Holds(w)
      BY <2>2, TakeFacts DEF Inv, HolderInv, Granted, Requests
    <3>2. body[w].challengeId \in Challenges /\ consumer'[body[w].challengeId] = w
      BY <2>2, <3>1, TakeFacts, HolderFacts
      DEF Inv, TypeInv, TypeOK, Control, Holds, Requests
    <3> QED
      BY <1>1, <1>2, <2>2, <3>1, <3>2, TakeFacts DEF Holds
  <2> QED
    BY <2>1, <2>2
<1>5. GrantIsAuthentic'
  <2>1. \A w \in Verifies : Granted(w)' => Granted(w) /\ Holds(w)'
    BY <1>4, TakeFacts DEF Granted, HolderInv, Requests
  <2> QED
    BY <1>1, <2>1 DEF Inv, GrantIsAuthentic, Authentic, RowsOf, Holds
<1> QED
  BY <1>3, <1>4, <1>5 DEF Inv

(***************************************************************************)
(* The checks of Verify: acceptance means that the key found now is the    *)
(* key the challenge was made with, and that the equation holds for it.    *)
(***************************************************************************)
LEMMA AcceptanceFacts ==
  ASSUME Inv, NEW v \in Verifies, pc[v] = "check", NEW y,
         Verdict(v, y) = "ok"
  PROVE  LET c == body[v].challengeId IN
         /\ y = found[c]
         /\ ProofHolds(ValueOf[body[v].s], ValueOf[body[v].clientR], ValueOf[y],
                       DigestValue(<<body[c].clientR, found[c],
                                     body[c].username>>))
<1> DEFINE c == body[v].challengeId
<1>1. held[v] = CacheEntry(c)
  BY DEF Inv, HolderInv, Holds
<1>2. held[v].challenge = <<body[c].clientR, found[c], body[c].username>>
  BY <1>1 DEF CacheEntry, computeChallengeHex
<1>3. Recomputed(v, y) = held[v].challenge /\ ProofAccepted(v, y)
  BY DEF Verdict
<1>4. y = found[c]
  BY <1>2, <1>3 DEF Recomputed, computeChallengeHex
<1> QED
  BY <1>2, <1>3, <1>4 DEF ProofAccepted, mustBigFromHex

(***************************************************************************)
(* The one step that grants: the verdict was reached for the first row of  *)
(* the user, whose key made the challenge.                                 *)
(***************************************************************************)
LEMMA CheckProofInv ==
  ASSUME Inv, TypeInv', NEW v \in Verifies, CheckProof(v)
  PROVE  Inv'
<1> DEFINE c == body[v].challengeId
<1>1. /\ pc[v] = "check" /\ pc'[v] = "return"
      /\ \A q \in Requests : q # v => pc'[q] = pc[q] /\ outcome'[q] = outcome[q]
                                    /\ found'[q] = found[q]
      /\ UNCHANGED <<body, rows, store, held, written, consumer>>
  BY DEF CheckProof, Finish, Goto, backend, Inv, TypeInv, TypeOK, Requests
<1>2. \A d \in Challenges : CacheEntry(d)' = CacheEntry(d)
  BY <1>1 DEF CacheEntry, Requests
<1>3. ChallengeInv'
  BY <1>1, <1>2 DEF Inv, ChallengeInv, TypeInv, TypeOK, Requests
<1>4. HolderInv'
  <2>1. \A w \in Verifies : pc'[w] = "check" \/ Granted(w)' => Holds(w)
    BY <1>1 DEF Inv, HolderInv, Granted, Requests
  <2>2. \A w \in Verifies : Holds(w) /\ (pc[w] = "check" \/ Granted(w)) =>
           body[w].challengeId \in Challenges
    BY HolderFacts
  <2> QED
    BY <1>1, <1>2, <2>1, <2>2 DEF HolderInv, Holds, Granted, Requests
<1>5. GrantIsAuthentic'
  <2>1. ASSUME NEW w \in Verifies, Granted(w), w # v
        PROVE  /\ found'[w] = found[w]
               /\ found'[body[w].challengeId] = found[body[w].challengeId]
    BY <1>1, <2>1, HolderFacts DEF Requests
  <2>2. ASSUME Granted(v)'
        PROVE  /\ c \in Challenges /\ c \in written
               /\ \E row \in RowsOf(body[v].username) : row.publicKeyY = found'[v]
               /\ found'[v] = found[c] /\ found'[c] = found[c]
               /\ ProofHolds(ValueOf[body[v].s], ValueOf[body[v].clientR],
                    ValueOf[found'[v]],
                    DigestValue(<<body[c].clientR, found[c], body[c].username>>))
    <3>1. outcome'[v] = "ok"
      BY <2>2 DEF Granted
    <3>2. PICK row \in rows : /\ IsFirst(row, body[v].username)
                              /\ found' = [found EXCEPT ![v] = row.publicKeyY]
                              /\ Verdict(v, row.publicKeyY) = "ok"
      BY <3>1, ReasonFacts DEF CheckProof, Finish, Inv, TypeInv, TypeOK, Requests
    <3>3. found'[v] = row.publicKeyY
      BY <3>2 DEF Inv, TypeInv, TypeOK, Requests
    <3>4. c \in Challenges /\ c \in written /\ found'[c] = found[c]
      BY <1>1, HolderFacts DEF Requests
    <3> QED
      BY <1>1, <3>2, <3>3, <3>4, AcceptanceFacts DEF IsFirst
  <2>3. Holds(v)
    BY <1>1 DEF Inv, HolderInv
  <2>4. \A w \in Verifies : w # v => (Granted(w)' <=> Granted(w))
    BY <1>1 DEF Granted, Requests
  <2> QED
    BY <1>1, <2>1, <2>2, <2>3, <2>4 DEF Inv, GrantIsAuthentic, Authentic, RowsOf, Holds
<1> QED
  BY <1>3, <1>4, <1>5 DEF Inv

(***************************************************************************)
(* Every step preserves the invariant.                                     *)
(***************************************************************************)
LEMMA NextInv == Inv /\ [Next]_vars => Inv'
<1> SUFFICES ASSUME Inv, [Next]_vars PROVE Inv'
  OBVIOUS
<1>1. TypeInv'
  BY NextTypeInv DEF Inv
<1>2. \A c \in Challenges : CacheChallenge(c) => Inv'
  BY <1>1, CacheChallengeInv
<1>3. \A c \in Challenges : ExpireChallenge(c) => Inv'
  BY <1>1, ExpireChallengeInv
<1>4. \A v \in Verifies : TakeChallenge(v) => Inv'
  BY <1>1, TakeChallengeInv
<1>5. \A v \in Verifies : CheckProof(v) => Inv'
  BY <1>1, CheckProofInv
<1> QED
  BY <1>1, <1>2, <1>3, <1>4, <1>5, FramedSteps
  DEF Next, Register, Challenge, Verify, Quiescent, Requests

(***************************************************************************)
(* The inductive invariant of the authentication core holds in every run.  *)
(***************************************************************************)
THEOREM Invariance == Spec => []Inv
  BY InitInv, NextInv, PTL DEF Spec

(***************************************************************************)
(* No challenge is ever worth two logins.                                  *)
(***************************************************************************)
THEOREM OneGrantPerChallenge == Spec => []AtMostOneGrant
<1>1. Inv => AtMostOneGrant
  BY DEF Inv, HolderInv, Holds, AtMostOneGrant
<1> QED
  BY <1>1, Invariance, PTL

(***************************************************************************)
(* Every login is authentic.                                               *)
(***************************************************************************)
THEOREM GrantsAreAuthentic == Spec => []GrantIsAuthentic
<1>1. Inv => GrantIsAuthentic
  BY DEF Inv
<1> QED
  BY <1>1, Invariance, PTL

-----------------------------------------------------------------------------
(* The core implements OneTimeLogin: every step maps to a step or stutters.*)

(***************************************************************************)
(* The initial states are abstract initial states: no challenge is issued. *)
(***************************************************************************)
LEMMA InitRefines == Init => Abstract!Init
  BY ReasonFacts DEF Init, Abstract!Init, PhaseMap, PhaseOf, OwnerMap, LoginMap,
                     Granted, Requests

(***************************************************************************)
(* A step that leaves the challenges, their consumers and the logins alone *)
(* is an abstract stutter.                                                 *)
(***************************************************************************)
LEMMA StutteringSteps ==
  ASSUME Inv, UNCHANGED <<store, written, consumer>>,
         \A r \in Requests : body[r] # None => body'[r] = body[r],
         \A v \in Verifies : /\ pc'[v] = "check" <=> pc[v] = "check"
                             /\ Granted(v)' <=> Granted(v)
  PROVE  UNCHANGED Abstract!vars
<1>1. PhaseMap' = PhaseMap
  <2> SUFFICES ASSUME NEW c \in Challenges PROVE PhaseOf(c)' = PhaseOf(c)
    BY DEF PhaseMap
  <2> QED
    BY DEF PhaseOf, Inv, TypeInv, TypeOK
<1>2. OwnerMap' = OwnerMap
  BY DEF OwnerMap, Inv, ChallengeInv, Requests
<1>3. LoginMap' = LoginMap
  BY DEF LoginMap, Inv, HolderInv, Holds, Requests
<1> QED
  BY <1>1, <1>2, <1>3 DEF Abstract!vars

(***************************************************************************)
(* Such are the binding of a body, every step of Register, the lookup of   *)
(* Challenge, the answers and idling.                                      *)
(***************************************************************************)
LEMMA QuietSteps ==
  ASSUME Inv,
         \/ \E r \in Requests : \E b, label : Receive(r, b, label) /\ label # "check"
         \/ \E r \in Registers :
              CountByUsername(r) \/ InsertUser(r) \/ CommitUser(r)
         \/ \E c \in Challenges : LookupForChallenge(c)
         \/ \E r \in Requests : Return(r)
         \/ UNCHANGED vars
  PROVE  UNCHANGED Abstract!vars
<1> USE DEF Granted, backend, history, Goto, Finish, Requests
<1>1. CASE \E r \in Requests : \E b, label : Receive(r, b, label) /\ label # "check"
  <2> PICK r \in Requests : \E b, label : Receive(r, b, label) /\ label # "check"
    BY <1>1
  <2> PICK b, label : Receive(r, b, label) /\ label # "check"
    OBVIOUS
  <2>1. pc[r] = "idle" /\ body[r] = None /\ outcome[r] = None
    BY DEF Receive, Inv, TypeInv, Control
  <2>2. \A q \in Requests : q # r => /\ pc'[q] = pc[q]
                                    /\ body'[q] = body[q]
                                    /\ outcome'[q] = outcome[q]
    BY DEF Receive, Inv, TypeInv, TypeOK
  <2>3. pc'[r] # "check" /\ outcome'[r] # "ok"
    BY <2>1, ReasonFacts DEF Receive, Inv, TypeInv, TypeOK
  <2> QED
    BY <2>1, <2>2, <2>3, ReasonFacts, StutteringSteps DEF Receive
<1>2. CASE \E r \in Registers :
             CountByUsername(r) \/ InsertUser(r) \/ CommitUser(r)
  <2> PICK r \in Registers : CountByUsername(r) \/ InsertUser(r) \/ CommitUser(r)
    BY <1>2
  <2>1. \A q \in Requests : q # r => /\ pc'[q] = pc[q]
                                    /\ outcome'[q] = outcome[q]
    BY DEF CountByUsername, InsertUser, CommitUser, Inv, TypeInv, TypeOK
  <2>2. UNCHANGED <<body, store, written, consumer>>
    BY DEF CountByUsername, InsertUser, CommitUser
  <2> QED
    BY <2>1, <2>2, StutteringSteps
<1>3. CASE \E c \in Challenges : LookupForChallenge(c)
  BY <1>3, StutteringSteps DEF LookupForChallenge, Inv, TypeInv, TypeOK
<1>4. CASE \E r \in Requests : Return(r)
  BY <1>4, StutteringSteps DEF Return, Inv, TypeInv, TypeOK
<1>5. CASE UNCHANGED vars
  BY <1>5, StutteringSteps DEF vars
<1> QED
  BY <1>1, <1>2, <1>3, <1>4, <1>5

(***************************************************************************)
(* A crash refuses all the attempts it cuts short in the middle of their   *)
(* check.                                                                  *)
(***************************************************************************)
LEMMA CrashRefuses ==
  ASSUME Inv, Crash
  PROVE  Abstract!Next
<1> DEFINE C == {c \in Challenges : PhaseOf(c) = "taken"}
<1>1. UNCHANGED <<body, outcome, store, written, consumer>>
  BY DEF Crash, backend, history
<1>2. \A v \in Verifies : pc'[v] # "check"
  BY DEF Crash, InFlight, Inv, TypeInv, TypeOK, Requests
<1>3. PhaseMap' = [c \in Challenges |-> IF c \in C THEN "spent" ELSE PhaseMap[c]]
  <2> SUFFICES ASSUME NEW c \in Challenges
               PROVE  PhaseOf(c)' = IF c \in C THEN "spent" ELSE PhaseOf(c)
    BY DEF PhaseMap
  <2> QED
    BY <1>1, <1>2 DEF PhaseOf, Inv, TypeInv, TypeOK
<1>4. UNCHANGED <<OwnerMap, consumer, LoginMap>>
  BY <1>1 DEF OwnerMap, LoginMap, Granted
<1>5. \A c \in C : PhaseMap[c] = "taken"
  BY DEF PhaseMap
<1>6. Abstract!Refuse(C)
  BY <1>3, <1>4, <1>5 DEF Abstract!Refuse
<1> QED
  BY <1>6 DEF Abstract!Next

(***************************************************************************)
(* An expiry is a lapse.                                                   *)
(***************************************************************************)
LEMMA ExpiryLapses ==
  ASSUME Inv, NEW c \in Challenges, ExpireChallenge(c)
  PROVE  Abstract!Next
<1>1. PhaseOf(c) = "open" /\ PhaseOf(c)' = "lapsed"
  BY DEF ExpireChallenge, history, PhaseOf, Inv, TypeInv, TypeOK, ChallengeInv
<1>2. \A d \in Challenges : d # c => PhaseOf(d)' = PhaseOf(d)
  BY DEF ExpireChallenge, history, PhaseOf, Inv, TypeInv, TypeOK
<1>3. PhaseMap' = [PhaseMap EXCEPT ![c] = "lapsed"]
  BY <1>1, <1>2 DEF PhaseMap
<1>4. UNCHANGED <<OwnerMap, consumer, LoginMap>>
  BY DEF ExpireChallenge, history, OwnerMap, LoginMap, Granted
<1>5. PhaseMap[c] = "open"
  BY <1>1 DEF PhaseMap
<1>6. Abstract!Lapse(c)
  BY <1>3, <1>4, <1>5 DEF Abstract!Lapse
<1> QED
  BY <1>6 DEF Abstract!Next

(***************************************************************************)
(* A SET that took effect issues the challenge, acknowledged or not; one   *)
(* that did not is a stutter.                                              *)
(***************************************************************************)
LEMMA SetIssues ==
  ASSUME Inv, Inv', NEW c \in Challenges, CacheChallenge(c)
  PROVE  Abstract!Next \/ UNCHANGED Abstract!vars
<1>1. /\ c \notin written /\ store[c] = None
      /\ body[c] # None /\ body[c].username \in Usernames
  BY DEF CacheChallenge, Inv, TypeInv, TypeOK, Control, ChallengeInv, Requests
<1>2. /\ \A q \in Requests : q # c => pc'[q] = pc[q] /\ outcome'[q] = outcome[q]
      /\ UNCHANGED <<body, consumer>>
  BY DEF CacheChallenge, Finish, Goto, Inv, TypeInv, TypeOK, Requests
<1>3. CASE UNCHANGED <<store, written>>
  BY <1>2, <1>3, StutteringSteps DEF Granted, Requests
<1>4. CASE SetChallenge(c)
  <2> CacheEntry(c) \in ChallengeCache
    BY DEF CacheChallenge, Inv, TypeInv, TypeOK, Control, Requests, CacheEntry,
           ChallengeCache, computeChallengeHex
  <2>1. store'[c] # None /\ written' = written \cup {c}
    BY <1>4 DEF SetChallenge, Inv, TypeInv, TypeOK
  <2>2. PhaseOf(c) = "unissued" /\ PhaseOf(c)' = "open"
    BY <1>1, <2>1 DEF PhaseOf
  <2>3. \A d \in Challenges : d # c => PhaseOf(d)' = PhaseOf(d)
    BY <1>2, <1>4, <2>1 DEF SetChallenge, PhaseOf, Inv, TypeInv, TypeOK, Requests
  <2>4. PhaseMap' = [PhaseMap EXCEPT ![c] = "open"] /\ PhaseMap[c] = "unissued"
    BY <2>2, <2>3 DEF PhaseMap
  <2>5. OwnerMap' = [OwnerMap EXCEPT ![c] = body[c].username]
    BY <1>2, <2>1 DEF OwnerMap
  <2>6. LoginMap' = LoginMap
    BY <1>2 DEF LoginMap, Granted, Requests
  <2>7. Abstract!Issue(c, body[c].username)
    BY <1>2, <2>4, <2>5, <2>6 DEF Abstract!Issue
  <2> QED
    BY <1>1, <2>7 DEF Abstract!Next
<1> QED
  BY <1>3, <1>4 DEF CacheChallenge

(***************************************************************************)
(* The script takes the challenge, and the attempt fails at once on a      *)
(* mismatch or a lost reply.                                               *)
(***************************************************************************)
LEMMA TakeTakes ==
  ASSUME Inv, NEW v \in Verifies, TakeChallenge(v)
  PROVE  Abstract!Next \/ UNCHANGED Abstract!vars
<1> DEFINE c == body[v].challengeId
<1>1. /\ c \in Challenges /\ pc[v] = "take" /\ ~Granted(v) /\ ~Granted(v)'
      /\ UNCHANGED <<body, written>>
      /\ \A w \in Verifies : w # v => pc'[w] = pc[w] /\ outcome'[w] = outcome[w]
  BY TakeFacts DEF TakeChallenge, Granted, Inv, TypeInv, Control, Requests
<1>2. \A d \in Challenges : consumer[d] # v
  BY <1>1 DEF Inv, ChallengeInv
<1>3. CASE UNCHANGED <<store, consumer>> /\ pc'[v] = "return"
  BY <1>1, <1>3, StutteringSteps DEF Granted
<1>4. CASE /\ store[c] # None /\ c \in written
           /\ store' = [store EXCEPT ![c] = None]
           /\ consumer' = [consumer EXCEPT ![c] = v]
  <2> DEFINE next == IF pc'[v] = "check" THEN "taken" ELSE "spent"
  <2>1. PhaseOf(c) = "open"
    BY <1>4 DEF PhaseOf
  <2>2. store'[c] = None /\ consumer'[c] = v
    BY <1>1, <1>4 DEF Inv, TypeInv, TypeOK
  <2>3. PhaseOf(c)' = next
    BY <1>1, <1>4, <2>2 DEF PhaseOf
  <2>4. \A d \in Challenges : d # c => PhaseOf(d)' = PhaseOf(d)
    BY <1>1, <1>2, <1>4 DEF PhaseOf, Inv, TypeInv, TypeOK
  <2>5. PhaseMap' = [PhaseMap EXCEPT ![c] = next] /\ PhaseMap[c] = "open"
    BY <1>1, <2>1, <2>3, <2>4 DEF PhaseMap
  <2>6. UNCHANGED <<OwnerMap, LoginMap>>
    BY <1>1 DEF OwnerMap, LoginMap, Granted
  <2>7. Abstract!Take(c, v, next)
    BY <1>2, <1>4, <2>5, <2>6 DEF Abstract!Take
  <2> QED
    BY <1>1, <2>7 DEF Abstract!Next
<1> QED
  BY <1>3, <1>4, TakeFacts

(***************************************************************************)
(* Checking the proof grants or refuses.                                   *)
(***************************************************************************)
LEMMA CheckDecides ==
  ASSUME Inv, NEW v \in Verifies, CheckProof(v)
  PROVE  Abstract!Next
<1> PICK c \in Challenges : c = body[v].challengeId
  BY HolderFacts DEF CheckProof
<1>1. /\ pc[v] = "check" /\ pc'[v] = "return" /\ ~Granted(v)
      /\ \A q \in Requests : q # v => pc'[q] = pc[q] /\ outcome'[q] = outcome[q]
      /\ UNCHANGED <<body, rows, store, held, written, consumer>>
  BY DEF CheckProof, Finish, Goto, backend, Granted, Inv, TypeInv, TypeOK, Control,
         Requests
<1>2. /\ c \in Challenges /\ c \in written /\ consumer[c] = v /\ store[c] = None
      /\ body[c].username = body[v].username
  BY <1>1, HolderFacts DEF Inv, HolderInv, Holds, ChallengeInv
<1>3. PhaseOf(c) = "taken" /\ PhaseOf(c)' = "spent"
  BY <1>1, <1>2 DEF PhaseOf
<1>4. \A d \in Challenges : d # c => PhaseOf(d)' = PhaseOf(d)
  <2> SUFFICES ASSUME NEW d \in Challenges, d # c PROVE PhaseOf(d)' = PhaseOf(d)
    OBVIOUS
  <2>1. consumer[d] # v
    BY DEF Inv, ChallengeInv
  <2> QED
    BY <1>1, <2>1 DEF PhaseOf, Inv, TypeInv, TypeOK, Requests
<1>5. PhaseMap' = [PhaseMap EXCEPT ![c] = "spent"] /\ PhaseMap[c] = "taken"
  BY <1>3, <1>4 DEF PhaseMap
<1>6. OwnerMap' = OwnerMap /\ OwnerMap[c] = body[v].username
  BY <1>1, <1>2 DEF OwnerMap
<1>7. \A w \in Verifies : w # v => (Granted(w)' <=> Granted(w))
  BY <1>1 DEF Granted, Requests
<1>8. CASE Granted(v)'
  <2>1. LoginMap' = [LoginMap EXCEPT ![v] = body[v].username]
    BY <1>1, <1>7, <1>8 DEF LoginMap
  <2>2. Abstract!Grant(c)
    BY <1>1, <1>2, <1>5, <1>6, <2>1 DEF Abstract!Grant
  <2> QED
    BY <1>2, <2>2 DEF Abstract!Next
<1>9. CASE ~Granted(v)'
  <2>1. LoginMap' = LoginMap
    BY <1>1, <1>7, <1>9 DEF LoginMap
  <2>2. PhaseMap' = [d \in Challenges |-> IF d \in {c} THEN "spent"
                                         ELSE PhaseMap[d]]
    BY <1>5 DEF PhaseMap
  <2>3. Abstract!Refuse({c})
    BY <1>1, <1>5, <1>6, <2>1, <2>2 DEF Abstract!Refuse
  <2> QED
    BY <1>2, <2>3 DEF Abstract!Next
<1> QED
  BY <1>8, <1>9

(***************************************************************************)
(* Every step of the core is an abstract step or a stutter.                *)
(***************************************************************************)
LEMMA NextRefines ==
  Inv /\ Inv' /\ [Next]_vars => [Abstract!Next]_(Abstract!vars)
<1> SUFFICES ASSUME Inv, Inv', [Next]_vars
             PROVE  Abstract!Next \/ UNCHANGED Abstract!vars
  OBVIOUS
<1>1. \A c \in Challenges : CacheChallenge(c) =>
        Abstract!Next \/ UNCHANGED Abstract!vars
  BY SetIssues
<1>2. \A c \in Challenges : ExpireChallenge(c) => Abstract!Next
  BY ExpiryLapses
<1>3. \A v \in Verifies : TakeChallenge(v) =>
        Abstract!Next \/ UNCHANGED Abstract!vars
  BY TakeTakes
<1>4. \A v \in Verifies : CheckProof(v) => Abstract!Next
  BY CheckDecides
<1> QED
  BY <1>1, <1>2, <1>3, <1>4, QuietSteps, CrashRefuses
  DEF Next, Register, Challenge, Verify, Quiescent, Requests

(***************************************************************************)
(* Whatever the stores and the server do, the core is a one-time login.    *)
(***************************************************************************)
THEOREM CoreRefinesOneTimeLogin == Spec => ImplementsOneTimeLogin
  BY InitRefines, NextRefines, Invariance, PTL
  DEF Spec, ImplementsOneTimeLogin, Abstract!Spec

=============================================================================
