-------------------------- MODULE DurableLoginProofs --------------------------
(***************************************************************************)
(* Proofs about the authentication core over a Redis that crashes, for any *)
(* number of requests and of crashes.                                      *)
(***************************************************************************)
EXTENDS DurableLogin, AuthOutcomeProofs

USE RequestAssumption, ValueAssumption, BodyAssumption

-----------------------------------------------------------------------------
(* The invariant.  That of the core does not hold here: an entry that was  *)
(* consumed may be back.                                                   *)

(***************************************************************************)
(* Whatever Redis holds or has on disk of a challenge is the entry its     *)
(* request wrote, of what no longer changes.                               *)
(***************************************************************************)
WrittenInv ==
  \A c \in Challenges :
    /\ c \in written => /\ body[c] # None
                        /\ found[c] # None
                        /\ pc[c] \in {"return", "done", "lost"}
    /\ store[c] # None => c \in written /\ store[c] = CacheEntry(c)
    /\ disk[c] # None => c \in written /\ disk[c] = CacheEntry(c)

(***************************************************************************)
(* A verify request that checks a proof, or has accepted one, took the     *)
(* challenge it names, and agrees with it.  Until Redis crashes, nobody    *)
(* else can take it.                                                       *)
(***************************************************************************)
Took(v) == pc[v] = "check" \/ Granted(v)

TookEntry(v, c) ==
  /\ c \in written
  /\ body[c].username = body[v].username
  /\ body[c].clientR = body[v].clientR
  /\ held[v] = CacheEntry(c)
  /\ takenIn[v] <= epoch
  /\ takenIn[v] = epoch => store[c] = None

TookInv ==
  /\ \A v \in Verifies :
       Took(v) => body[v] # None /\ TookEntry(v, body[v].challengeId)
  /\ \A v, w \in Verifies :
       /\ v # w /\ Took(v) /\ Took(w)
       /\ body[v].challengeId = body[w].challengeId
       => takenIn[v] # takenIn[w]

DurableType ==
  /\ disk \in [Challenges -> ChallengeCache \cup {None}]
  /\ epoch \in Nat
  /\ takenIn \in [Verifies -> Nat]

DurableInv ==
  TypeInv /\ AnswerInv /\ DurableType /\ WrittenInv /\ TookInv /\ LoginIsAuthentic

-----------------------------------------------------------------------------
(* Steps of the core.                                                      *)

(***************************************************************************)
(* An entry is held by whoever takes it.                                   *)
(***************************************************************************)
LEMMA TakeSteps ==
  ASSUME TypeInv, [Next]_vars, NEW v \in Verifies,
         held'[v] # held[v] \/ (pc'[v] = "check" /\ pc[v] # "check")
  PROVE  TakeChallenge(v)
<1> USE DEF TypeInv, TypeOK, Goto, Finish, Requests
<1>1. ASSUME NEW q \in Requests, NEW b, NEW label, Receive(q, b, label),
             label # "check"
      PROVE  FALSE
  <2>1. held' = held /\ pc'[q] # "check" /\ (v # q => pc'[v] = pc[v])
    BY <1>1 DEF Receive
  <2> QED
    BY <2>1
<1>2. ~ \E q \in Registers : CountByUsername(q) \/ InsertUser(q) \/ CommitUser(q)
  BY DEF CountByUsername, InsertUser, CommitUser
<1>3. ~ \E c \in Challenges :
          LookupForChallenge(c) \/ CacheChallenge(c) \/ ExpireChallenge(c)
  BY DEF LookupForChallenge, CacheChallenge, ExpireChallenge
<1>4. ASSUME NEW w \in Verifies, TakeChallenge(w)
      PROVE  w = v
  <2>1. /\ held' = [held EXCEPT ![w] = held'[w]]
        /\ pc' = [pc EXCEPT ![w] = pc'[w]]
    BY <1>4 DEF TakeChallenge
  <2> QED
    BY <2>1
<1>5. ~ \E w \in Verifies : CheckProof(w)
  BY DEF CheckProof
<1>6. ~ \E q \in Requests : Return(q)
  BY DEF Return
<1>7. ~Crash /\ ~UNCHANGED vars
  BY DEF Crash, vars
<1> QED
  BY <1>1, <1>2, <1>3, <1>4, <1>5, <1>6, <1>7
  DEF Next, Register, Challenge, Verify, Quiescent

(***************************************************************************)
(* What a written challenge was made of stays.                             *)
(***************************************************************************)
LEMMA EntryStays ==
  ASSUME TypeInv, AnswerInv, WrittenInv, [Next]_vars, NEW c \in written
  PROVE  /\ c \in Challenges /\ c \in written'
         /\ body'[c] = body[c] /\ body[c] # None
         /\ found'[c] = found[c] /\ found[c] # None
         /\ CacheEntry(c)' = CacheEntry(c)
<1>1. /\ Kept /\ c \in Challenges /\ c \in Requests
      /\ body[c] # None /\ found[c] # None /\ pc[c] \in {"return", "done", "lost"}
  BY NextKeeps DEF WrittenInv, TypeInv, TypeOK, Requests
<1>2. found'[c] = found[c]
  BY <1>1, FoundSteps DEF LookupForChallenge, CheckProof
<1> QED
  BY <1>1, <1>2 DEF Kept, CacheEntry

(***************************************************************************)
(* What Redis holds of a challenge after a step of the core it held        *)
(* before, or its request has just written it.                             *)
(***************************************************************************)
LEMMA EntrySteps ==
  ASSUME TypeInv, [Next]_vars, NEW c \in Challenges
  PROVE  \/ store'[c] = None
         \/ store'[c] = store[c]
         \/ CacheChallenge(c) /\ store'[c] = CacheEntry(c) /\ c \in written'
<1> USE DEF TypeInv, TypeOK
<1>1. ASSUME NEW d \in Challenges, CacheChallenge(d)
      PROVE  \/ store'[c] = store[c]
             \/ c = d /\ store'[c] = CacheEntry(c) /\ c \in written'
  BY <1>1 DEF CacheChallenge, SetChallenge
<1>2. ASSUME NEW d \in Challenges, ExpireChallenge(d)
      PROVE  store'[c] \in {None, store[c]}
  BY <1>2 DEF ExpireChallenge
<1>3. ASSUME NEW v \in Verifies, TakeChallenge(v)
      PROVE  store'[c] \in {None, store[c]}
  BY <1>3 DEF TakeChallenge, RemoveChallenge
<1> QED
  BY <1>1, <1>2, <1>3, StoreSteps

(***************************************************************************)
(* A challenge is written by its request.                                  *)
(***************************************************************************)
LEMMA WriteSteps ==
  ASSUME TypeInv, [Next]_vars, NEW c \in written', c \notin written
  PROVE  c \in Challenges /\ CacheChallenge(c)
<1>1. ASSUME NEW d \in Challenges, CacheChallenge(d)
      PROVE  c = d
  BY <1>1 DEF CacheChallenge, SetChallenge
<1>2. ~ \E d \in Challenges : ExpireChallenge(d)
  BY DEF ExpireChallenge, history
<1>3. ~ \E v \in Verifies : TakeChallenge(v)
  BY DEF TakeChallenge
<1> QED
  BY <1>1, <1>2, <1>3, StoreSteps

(***************************************************************************)
(* A request that is over, but for its answer, stays so.                   *)
(***************************************************************************)
LEMMA EndStays ==
  ASSUME TypeInv, [Next]_vars, NEW r \in Requests,
         pc[r] \in {"return", "done", "lost"}
  PROVE  pc'[r] \in {"return", "done", "lost"}
<1> USE DEF TypeInv, TypeOK, Goto, Finish, Requests
<1>1. ASSUME NEW q \in Requests, NEW b, NEW label, Receive(q, b, label)
      PROVE  pc'[r] = pc[r]
  BY <1>1 DEF Receive
<1>2. ASSUME NEW q \in Registers, CountByUsername(q) \/ InsertUser(q) \/ CommitUser(q)
      PROVE  pc'[r] = pc[r]
  BY <1>2 DEF CountByUsername, InsertUser, CommitUser
<1>3. ASSUME NEW c \in Challenges,
             LookupForChallenge(c) \/ CacheChallenge(c) \/ ExpireChallenge(c)
      PROVE  pc'[r] = pc[r]
  BY <1>3 DEF LookupForChallenge, CacheChallenge, ExpireChallenge
<1>4. ASSUME NEW v \in Verifies, TakeChallenge(v) \/ CheckProof(v)
      PROVE  pc'[r] = pc[r]
  <2>1. pc' = [pc EXCEPT ![v] = pc'[v]] /\ pc[v] \in {"take", "check"}
    BY <1>4 DEF TakeChallenge, CheckProof
  <2> QED
    BY <2>1
<1>5. ASSUME NEW q \in Requests, Return(q)
      PROVE  pc'[r] \in {"return", "done", "lost"}
  BY <1>5 DEF Return
<1>6. CASE Crash
  BY <1>6 DEF Crash
<1>7. CASE UNCHANGED vars
  BY <1>7 DEF vars
<1> QED
  BY <1>1, <1>2, <1>3, <1>4, <1>5, <1>6, <1>7
  DEF Next, Register, Challenge, Verify, Quiescent

(***************************************************************************)
(* A take that goes on to check the proof: the entry was there, agrees     *)
(* with the request, and is gone.                                          *)
(***************************************************************************)
LEMMA TakeGets ==
  ASSUME TypeInv, NEW v \in Verifies, TakeChallenge(v), pc'[v] = "check"
  PROVE  LET c == body[v].challengeId IN
         /\ c \in Challenges /\ body[v] # None /\ body' = body /\ pc[v] = "take"
         /\ store[c] # None /\ store'[c] = None
         /\ held'[v] = store[c] /\ Matches(store[c], body[v])
<1>1. v \in Requests /\ pc[v] = "take" /\ body[v] # None /\ body' = body
  BY DEF TakeChallenge, TypeInv, Control, Requests
<1>2. body[v].challengeId \in Challenges
  BY <1>1 DEF TypeInv, Control
<1>3. PICK entry : entry = store[body[v].challengeId]
  OBVIOUS
<1>4. RemoveChallenge(v) /\ held' = [held EXCEPT ![v] = entry] /\ Matches(entry, body[v])
  BY <1>1, <1>3 DEF TakeChallenge, Goto, Finish, TypeInv, TypeOK
<1> QED
  BY <1>1, <1>2, <1>3, <1>4 DEF RemoveChallenge, TypeInv, TypeOK

-----------------------------------------------------------------------------
(* The parts of the invariant are preserved by the steps of the core, of   *)
(* the clock and of the flush.                                             *)

(***************************************************************************)
(* Such a step: what is on disk of a challenge after it was there before,  *)
(* is in memory, or is nothing.                                            *)
(***************************************************************************)
UpStep ==
  /\ [Next]_vars
  /\ epoch' = epoch
  /\ takenIn' = [v \in Verifies |->
                   IF pc[v] = "take" /\ pc'[v] # "take" THEN epoch
                                                        ELSE takenIn[v]]
  /\ disk' \in [Challenges -> ChallengeCache \cup {None}]
  /\ \A c \in Challenges : disk'[c] \in {None, disk[c], store[c]}

(***************************************************************************)
(* While Redis is up, a step of the core keeps every entry what its        *)
(* request wrote.                                                          *)
(***************************************************************************)
LEMMA UpWritten ==
  ASSUME DurableInv, UpStep
  PROVE  WrittenInv'
<1> SUFFICES ASSUME NEW c \in Challenges
             PROVE  /\ c \in written' => /\ body'[c] # None
                                         /\ found'[c] # None
                                         /\ pc'[c] \in {"return", "done", "lost"}
                    /\ store'[c] # None => c \in written' /\ store'[c] = CacheEntry(c)'
                    /\ disk'[c] # None => c \in written' /\ disk'[c] = CacheEntry(c)'
  BY DEF WrittenInv
<1>1. TypeInv /\ AnswerInv /\ WrittenInv /\ [Next]_vars /\ c \in Requests
  BY DEF DurableInv, UpStep, Requests
<1>2. CASE c \in written
  <2>1. /\ c \in written' /\ body'[c] # None /\ found'[c] # None
        /\ CacheEntry(c)' = CacheEntry(c)
    BY <1>1, <1>2, EntryStays
  <2>2. pc[c] \in {"return", "done", "lost"}
    BY <1>1, <1>2 DEF WrittenInv
  <2>3. pc'[c] \in {"return", "done", "lost"}
    BY <1>1, <2>2, EndStays
  <2>4. ~CacheChallenge(c)
    BY <2>2 DEF CacheChallenge
  <2>5. store'[c] \in {None, store[c]}
    BY <1>1, <2>4, EntrySteps
  <2>6. disk'[c] \in {None, disk[c], store[c]}
    BY DEF UpStep
  <2> QED
    BY <1>1, <2>1, <2>3, <2>5, <2>6 DEF WrittenInv
<1>3. CASE c \notin written
  <2>1. store[c] = None /\ disk[c] = None
    BY <1>1, <1>3 DEF WrittenInv
  <2>2. disk'[c] = None
    BY <2>1 DEF UpStep
  <2>3. CASE CacheChallenge(c)
    <3>1. /\ pc[c] = "cache" /\ pc'[c] = "return" /\ UNCHANGED <<body, found>>
      BY <1>1, <2>3 DEF CacheChallenge, Finish, Goto, TypeInv, TypeOK
    <3>2. body[c] # None /\ found[c] # None /\ CacheEntry(c)' = CacheEntry(c)
      BY <1>1, <3>1 DEF TypeInv, Control, CacheEntry
    <3> QED
      BY <1>1, <2>1, <2>2, <3>1, <3>2, EntrySteps
  <2>4. CASE ~CacheChallenge(c)
    <3>1. c \notin written'
      BY <1>1, <1>3, <2>4, WriteSteps
    <3>2. store'[c] = None
      BY <1>1, <2>1, <2>4, EntrySteps
    <3> QED
      BY <2>2, <3>1, <3>2
  <2> QED
    BY <2>3, <2>4
<1> QED
  BY <1>2, <1>3

(***************************************************************************)
(* Who took a challenge took it before, or takes it now.                   *)
(***************************************************************************)
LEMMA TookBefore ==
  ASSUME DurableInv, UpStep, NEW v \in Verifies, Took(v)', ~Took(v)
  PROVE  TakeChallenge(v) /\ pc'[v] = "check"
<1>1. TypeInv /\ [Next]_vars /\ v \in Requests
  BY DEF DurableInv, UpStep, Requests
<1>2. CASE pc'[v] = "check"
  BY <1>1, <1>2, TakeSteps DEF Took
<1>3. CASE Granted(v)'
  <2>1. TakeChallenge(v) \/ CheckProof(v)
    BY <1>1, <1>3, OutcomeSteps DEF Took, Granted, Requests
  <2>2. ~CheckProof(v)
    BY DEF CheckProof, Took
  <2>3. outcome'[v] # "ok"
    BY <1>1, <2>1, <2>2 DEF Took, Granted, TakeChallenge, Finish, TypeInv, TypeOK
  <2> QED
    BY <1>3, <2>3 DEF Granted
<1> QED
  BY <1>2, <1>3 DEF Took

(***************************************************************************)
(* An earlier taker keeps what it has, and no step but a crash of Redis    *)
(* brings the challenge back.                                              *)
(***************************************************************************)
LEMMA TakerKeeps ==
  ASSUME DurableInv, UpStep, NEW v \in Verifies, Took(v)
  PROVE  /\ body'[v] = body[v] /\ body[v] # None
         /\ takenIn'[v] = takenIn[v]
         /\ TookEntry(v, body[v].challengeId)'
<1>1. /\ TypeInv /\ AnswerInv /\ WrittenInv /\ [Next]_vars
      /\ v \in Requests /\ Kept
  BY NextKeeps DEF DurableInv, UpStep, Requests
<1>2. PICK c : c = body[v].challengeId
  OBVIOUS
<1>3. body[v] # None /\ TookEntry(v, c)
  BY <1>2 DEF DurableInv, TookInv
<1>4. body'[v] = body[v]
  BY <1>1, <1>3 DEF Kept
<1>5. pc[v] # "take"
  BY <1>1 DEF Took, Granted, TypeInv, Control
<1>6. takenIn'[v] = takenIn[v] /\ epoch' = epoch
  BY <1>5 DEF UpStep
<1>7. held'[v] = held[v]
  BY <1>1, <1>5, TakeSteps DEF TakeChallenge
<1>8. /\ c \in Challenges /\ c \in written' /\ body'[c] = body[c]
      /\ CacheEntry(c)' = CacheEntry(c)
  BY <1>1, <1>3, EntryStays DEF TookEntry
<1>9. store[c] = None => store'[c] = None
  <2>1. pc[c] # "cache"
    BY <1>1, <1>3, <1>8 DEF TookEntry, WrittenInv
  <2> QED
    BY <1>1, <1>8, <2>1, EntrySteps DEF CacheChallenge
<1>10. TookEntry(v, c)'
  BY <1>3, <1>4, <1>6, <1>7, <1>8, <1>9 DEF TookEntry
<1> QED
  BY <1>2, <1>3, <1>4, <1>6, <1>10

(***************************************************************************)
(* While Redis is up, a challenge is taken once.                           *)
(***************************************************************************)
LEMMA UpTook ==
  ASSUME DurableInv, UpStep
  PROVE  TookInv'
<1>1. TypeInv /\ [Next]_vars
  BY DEF DurableInv, UpStep
<1>2. ASSUME NEW v \in Verifies, Took(v)', ~Took(v)
      PROVE  LET c == body[v].challengeId IN
             /\ body'[v] = body[v] /\ body[v] # None
             /\ takenIn'[v] = epoch /\ store[c] # None
             /\ TookEntry(v, c)'
  <2>1. PICK c : c = body[v].challengeId
    OBVIOUS
  <2>2. TakeChallenge(v) /\ pc'[v] = "check"
    BY <1>2, TookBefore
  <2>3. /\ c \in Challenges /\ body[v] # None /\ body' = body /\ pc[v] = "take"
        /\ store[c] # None /\ store'[c] = None
        /\ held'[v] = store[c] /\ Matches(store[c], body[v])
    BY <1>1, <2>1, <2>2, TakeGets
  <2>4. c \in written /\ store[c] = CacheEntry(c)
    BY <2>3 DEF DurableInv, WrittenInv
  <2>5. takenIn'[v] = epoch /\ epoch' = epoch /\ epoch \in Nat
    BY <2>2, <2>3 DEF UpStep, DurableInv, DurableType
  <2>6. c \in written' /\ CacheEntry(c)' = CacheEntry(c)
    BY <2>4, <1>1, EntryStays DEF DurableInv
  <2>7. body[c].username = body[v].username /\ body[c].clientR = body[v].clientR
    BY <2>3, <2>4 DEF Matches, CacheEntry
  <2>8. TookEntry(v, c)'
    BY <2>3, <2>4, <2>5, <2>6, <2>7 DEF TookEntry
  <2> QED
    BY <2>1, <2>3, <2>5, <2>8
<1>3. ASSUME NEW v \in Verifies, Took(v)'
      PROVE  /\ body'[v] = body[v] /\ body[v] # None
             /\ TookEntry(v, body[v].challengeId)'
  BY <1>2, <1>3, TakerKeeps
<1>4. ASSUME NEW v \in Verifies, NEW w \in Verifies, v # w, Took(v)', Took(w)',
             body'[v].challengeId = body'[w].challengeId
      PROVE  takenIn'[v] # takenIn'[w]
  <2>1. body[v].challengeId = body[w].challengeId
    BY <1>3, <1>4
  <2>2. CASE Took(v) /\ Took(w)
    BY <1>4, <2>1, <2>2, TakerKeeps DEF DurableInv, TookInv
  <2>3. CASE Took(v) /\ ~Took(w)
    BY <1>2, <1>4, <2>1, <2>3, TakerKeeps DEF DurableInv, TookInv, TookEntry
  <2>4. CASE ~Took(v) /\ Took(w)
    BY <1>2, <1>4, <2>1, <2>4, TakerKeeps DEF DurableInv, TookInv, TookEntry
  <2>5. CASE ~Took(v) /\ ~Took(w)
    <3>1. TakeChallenge(v) /\ TakeChallenge(w) /\ pc'[w] = "check"
      BY <1>4, <2>5, TookBefore
    <3>2. pc' = [pc EXCEPT ![v] = pc'[v]] /\ pc[w] = "take"
      BY <3>1 DEF TakeChallenge, Goto, Finish, TypeInv, TypeOK
    <3> QED
      BY <1>1, <1>4, <3>1, <3>2 DEF TypeInv, TypeOK, Requests
  <2> QED
    BY <2>2, <2>3, <2>4, <2>5
<1> QED
  BY <1>3, <1>4 DEF TookInv

(***************************************************************************)
(* A login is granted by the equation, for the key the challenge was made  *)
(* with, and stays what it was granted for.                                *)
(***************************************************************************)
LEMMA UpLogin ==
  ASSUME DurableInv, UpStep
  PROVE  LoginIsAuthentic'
<1> SUFFICES ASSUME NEW v \in Verifies, Granted(v)'
             PROVE  Authentic(v)'
  BY DEF LoginIsAuthentic
<1>1. /\ TypeInv /\ AnswerInv /\ WrittenInv /\ [Next]_vars
      /\ v \in Requests /\ Kept
  BY NextKeeps DEF DurableInv, UpStep, Requests
<1>2. PICK c : c = body[v].challengeId
  OBVIOUS
<1>3. Granted(v) \/ CheckProof(v)
  <2>1. CASE outcome'[v] = outcome[v]
    BY <2>1 DEF Granted
  <2>2. CASE outcome'[v] # outcome[v]
    BY <1>1, <2>2, OutcomeSteps DEF Granted, Requests, TakeChallenge, Finish,
       TypeInv, TypeOK, Control
  <2> QED
    BY <2>1, <2>2
<1>4. Took(v) /\ body[v] # None /\ TookEntry(v, c)
  BY <1>2, <1>3 DEF Took, CheckProof, DurableInv, TookInv
<1>5. /\ body'[v] = body[v] /\ c \in Challenges /\ c \in written'
      /\ body'[c] = body[c] /\ found'[c] = found[c]
  BY <1>1, <1>4, EntryStays DEF Kept, TookEntry
<1>6. RowsOf(body[v].username) \subseteq RowsOf(body[v].username)'
  BY <1>1, <1>5 DEF RowsOf, Kept
<1>7. CASE Granted(v)
  <2>1. Authentic(v)
    BY <1>7 DEF DurableInv, LoginIsAuthentic
  <2>2. found'[v] = found[v]
    BY <1>1, <1>7, FoundSteps, ReasonFacts DEF Granted, AnswerInv, LookupForChallenge, CheckProof
  <2> QED
    BY <1>2, <1>5, <1>6, <2>1, <2>2 DEF Authentic, RowsOf
<1>8. CASE ~Granted(v) /\ CheckProof(v)
  <2>1. PICK row \in rows : /\ IsFirst(row, body[v].username)
                            /\ found' = [found EXCEPT ![v] = row.publicKeyY]
                            /\ Verdict(v, row.publicKeyY) = "ok"
    BY <1>1, <1>8, ReasonFacts DEF CheckProof, Finish, Granted, TypeInv, TypeOK
  <2>2. PICK y : y = row.publicKeyY
    OBVIOUS
  <2>3. held[v].challenge = <<body[v].clientR, found[c], body[v].username>>
    BY <1>4 DEF TookEntry, CacheEntry, computeChallengeHex
  <2>4. Recomputed(v, y) = held[v].challenge /\ ProofAccepted(v, y)
    BY <2>1, <2>2 DEF Verdict
  <2>5. y = found[c]
    BY <2>3, <2>4 DEF Recomputed, computeChallengeHex
  <2>6. ProofHolds(ValueOf[body[v].s], ValueOf[body[v].clientR], ValueOf[y],
                   DigestValue(<<body[v].clientR, found[c], body[v].username>>))
    BY <2>3, <2>4 DEF ProofAccepted, mustBigFromHex
  <2>7. found'[v] = y /\ row \in RowsOf(body[v].username)
    BY <1>1, <2>1, <2>2 DEF IsFirst, TypeInv, TypeOK
  <2>8. body[c].username = body[v].username /\ body[c].clientR = body[v].clientR
    BY <1>4 DEF TookEntry
  <2> QED
    BY <1>2, <1>5, <1>6, <2>2, <2>5, <2>6, <2>7, <2>8 DEF Authentic
<1> QED
  BY <1>3, <1>7, <1>8

(***************************************************************************)
(* While Redis is up, every step of the core keeps the invariant.          *)
(***************************************************************************)
LEMMA UpInv ==
  ASSUME DurableInv, UpStep
  PROVE  DurableInv'
<1>1. TypeInv' /\ AnswerInv'
  BY NextTypeInv, NextKeeps DEF DurableInv, UpStep
<1>2. DurableType'
  BY DEF DurableInv, DurableType, UpStep
<1> QED
  BY <1>1, <1>2, UpWritten, UpTook, UpLogin DEF DurableInv

-----------------------------------------------------------------------------

(***************************************************************************)
(* A crash of Redis brings entries back, of challenges that were written.  *)
(* Those who took them before did so in an earlier epoch.                  *)
(***************************************************************************)
LEMMA RedisCrashInv ==
  ASSUME DurableInv, RedisCrash
  PROVE  DurableInv'
<1>1. /\ UNCHANGED <<pc, body, outcome, rows, nextId, rowId, found, held, audit,
                     written, consumer, faulted, disk, takenIn>>
      /\ epoch' = epoch + 1 /\ store' = disk
  BY DEF RedisCrash, history
<1>2. TypeInv'
  BY <1>1 DEF DurableInv, DurableType, TypeInv, TypeOK, Control
<1>3. AnswerInv' /\ DurableType'
  BY <1>1 DEF DurableInv, DurableType, AnswerInv
<1>4. \A c \in Challenges : CacheEntry(c)' = CacheEntry(c)
  BY <1>1 DEF CacheEntry
<1>5. WrittenInv'
  BY <1>1, <1>4 DEF DurableInv, WrittenInv
<1>6. TookInv'
  <2>1. \A v \in Verifies : Took(v)' <=> Took(v)
    BY <1>1 DEF Took, Granted
  <2>2. ASSUME NEW v \in Verifies, Took(v)
        PROVE  body'[v] # None /\ TookEntry(v, body[v].challengeId)'
    <3>1. PICK c : c = body[v].challengeId
      OBVIOUS
    <3>2. body[v] # None /\ TookEntry(v, c)
      BY <2>2, <3>1 DEF DurableInv, TookInv
    <3>3. takenIn[v] \in Nat /\ epoch \in Nat
      BY DEF DurableInv, DurableType
    <3>4. CacheEntry(c)' = CacheEntry(c)
      BY <1>1 DEF CacheEntry
    <3>5. TookEntry(v, c)'
      BY <1>1, <3>2, <3>3, <3>4 DEF TookEntry
    <3> QED
      BY <1>1, <3>1, <3>2, <3>5
  <2>3. \A v, w \in Verifies :
          /\ v # w /\ Took(v) /\ Took(w)
          /\ body[v].challengeId = body[w].challengeId
          => takenIn[v] # takenIn[w]
    BY DEF DurableInv, TookInv
  <2> QED
    BY <1>1, <2>1, <2>2, <2>3 DEF TookInv
<1>7. LoginIsAuthentic'
  BY <1>1 DEF DurableInv, LoginIsAuthentic, Authentic, Granted, RowsOf
<1> QED
  BY <1>2, <1>3, <1>5, <1>6, <1>7 DEF DurableInv

(***************************************************************************)
(* The invariant holds in every run.                                       *)
(***************************************************************************)
THEOREM DurableInvariance == DurableSpec => []DurableInv
<1>1. DurableInit => DurableInv
  <2> SUFFICES ASSUME DurableInit PROVE DurableInv
    OBVIOUS
  <2>1. TypeInv /\ AnswerInv
    BY InitTypeInv, InitOutcome DEF DurableInit, OutcomeInv
  <2>2. \A r \in Requests : pc[r] = "idle" /\ outcome[r] = None
    BY DEF DurableInit, Init
  <2>3. \A c \in Challenges : store[c] = None /\ disk[c] = None /\ c \notin written
    BY DEF DurableInit, Init
  <2>4. DurableType
    BY DEF DurableInit, DurableType
  <2>5. WrittenInv
    BY <2>3 DEF WrittenInv
  <2>6. TookInv /\ LoginIsAuthentic
    BY <2>2, ReasonFacts DEF TookInv, Took, LoginIsAuthentic, Granted, Requests
  <2> QED
    BY <2>1, <2>4, <2>5, <2>6 DEF DurableInv
<1>2. DurableInv /\ [DurableNext]_durableVars => DurableInv'
  <2> SUFFICES ASSUME DurableInv, [DurableNext]_durableVars PROVE DurableInv'
    OBVIOUS
  <2>1. DurableType
    BY DEF DurableInv
  <2>2. CASE CoreStep
    <3>1. Next
      BY <2>2 DEF CoreStep, Next
    <3> QED
      BY <2>1, <2>2, <3>1, UpInv DEF CoreStep, UpStep, DurableType
  <2>3. ASSUME [Next]_vars, UNCHANGED <<pc, epoch, takenIn>>,
               disk' \in [Challenges -> ChallengeCache \cup {None}],
               \A c \in Challenges : disk'[c] \in {None, disk[c], store[c]}
        PROVE  DurableInv'
    <3>1. takenIn' = [v \in Verifies |->
                        IF pc[v] = "take" /\ pc'[v] # "take" THEN epoch
                                                             ELSE takenIn[v]]
      BY <2>1, <2>3 DEF DurableType
    <3> QED
      BY <2>3, <3>1, UpInv DEF UpStep
  <2>4. ASSUME NEW c \in Challenges, Lapse(c)
        PROVE  DurableInv'
    <3>1. [Next]_vars /\ pc' = pc
      BY <2>4 DEF Lapse, ExpireChallenge, Next, vars
    <3>2. /\ disk' = [disk EXCEPT ![c] = None] /\ UNCHANGED <<epoch, takenIn>>
      BY <2>4 DEF Lapse, Expired
    <3>3. /\ disk' \in [Challenges -> ChallengeCache \cup {None}]
          /\ \A d \in Challenges : disk'[d] \in {None, disk[d], store[d]}
      BY <2>1, <3>2 DEF DurableType
    <3> QED
      BY <2>3, <3>1, <3>2, <3>3
  <2>5. CASE Flush
    <3>1. [Next]_vars /\ disk' = store /\ UNCHANGED <<pc, epoch, takenIn>>
      BY <2>5 DEF Flush, vars
    <3>2. store \in [Challenges -> ChallengeCache \cup {None}]
      BY DEF DurableInv, TypeInv, TypeOK
    <3> QED
      BY <2>3, <3>1, <3>2
  <2>6. CASE UNCHANGED durableVars
    <3>1. [Next]_vars /\ UNCHANGED <<pc, disk, epoch, takenIn>>
      BY <2>6 DEF durableVars, durable, vars
    <3> QED
      BY <2>1, <2>3, <3>1 DEF DurableType
  <2> QED
    BY <2>2, <2>4, <2>5, <2>6, RedisCrashInv DEF DurableNext
<1> QED
  BY <1>1, <1>2, PTL DEF DurableSpec

(***************************************************************************)
(* Two logins with one challenge need a crash of Redis between them.       *)
(***************************************************************************)
THEOREM ReplayTakesACrash == DurableSpec => []ReplayNeedsRedisCrash
<1>1. DurableInv => ReplayNeedsRedisCrash
  BY DEF DurableInv, TookInv, Took, ReplayNeedsRedisCrash
<1> QED
  BY <1>1, DurableInvariance, PTL

(***************************************************************************)
(* Even the second login with a challenge is authentic.                    *)
(***************************************************************************)
THEOREM ReplayIsAuthentic == DurableSpec => []LoginIsAuthentic
<1>1. DurableInv => LoginIsAuthentic
  BY DEF DurableInv
<1> QED
  BY <1>1, DurableInvariance, PTL

=============================================================================
