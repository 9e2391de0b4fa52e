-------------------------- MODULE AuthOutcomeProofs --------------------------
(***************************************************************************)
(* More about the authentication core, for any number of requests, users   *)
(* and texts: its rows, its audit trail, what its answers are given for,   *)
(* and whose key a username resolves to.                                   *)
(***************************************************************************)
EXTENDS AuthServiceProofs

USE RequestAssumption, ValueAssumption, BodyAssumption

-----------------------------------------------------------------------------
(* The invariant, in parts.                                                *)

(***************************************************************************)
(* A request whose outcome is known is done, but for its answer.           *)
(***************************************************************************)
AnswerInv ==
  \A r \in Requests : outcome[r] # None => pc[r] \in {"return", "done", "lost"}

(***************************************************************************)
(* The register request a row comes from: its outcome is known, and it is  *)
(* an error only if its commit was not acknowledged.                       *)
(***************************************************************************)
IsOwner(r, row) ==
  /\ row = RowFor(r)
  /\ rowId[r] # 0
  /\ body[r] # None
  /\ outcome[r] = "ok" \/ (outcome[r] = "db_error" /\ r \in faulted)

(***************************************************************************)
(* The primary keys are drawn one by one, and every row has one of them.   *)
(***************************************************************************)
RowInv ==
  /\ \A r \in Registers :
       /\ rowId[r] < nextId
       /\ pc[r] \in {"idle", "count", "create"} => rowId[r] = 0
       /\ pc[r] = "commit" => rowId[r] # 0
       /\ outcome[r] = "ok" => RowFor(r) \in rows
  /\ \A r, q \in Registers : rowId[r] = rowId[q] /\ rowId[r] # 0 => r = q
  /\ \A row \in rows : \E r \in Registers : IsOwner(r, row)

(***************************************************************************)
(* The audit trail has the events of the requests that were answered, and  *)
(* no others.                                                              *)
(***************************************************************************)
AuditInv ==
  /\ \A r \in Served : EventOf(r) \in audit
  /\ \A e \in audit : /\ e = EventOf(e.request)
                      /\ e.request \in Requests
                      /\ pc[e.request] = "done"
                      /\ body[e.request] # None

(***************************************************************************)
(* A verify request names a challenge that was written; a challenge that   *)
(* is gone and that nobody consumed has expired; and its key is that of a  *)
(* row, or the fake one.                                                   *)
(***************************************************************************)
IssueInv ==
  /\ \A v \in Verifies : body[v] # None => body[v].challengeId \in written
  /\ \A c \in Challenges :
       /\ outcome[c] = "ok" => c \in written
       /\ c \in written /\ store[c] = None /\ consumer[c] = None => ChallengeTTL > 0
       /\ found[c] # None =>
            /\ body[c] # None
            /\ \/ found[c] = FakeY
               \/ \E row \in RowsOf(body[c].username) : row.publicKeyY = found[c]

(***************************************************************************)
(* What a login was granted for can be read as numbers.                    *)
(***************************************************************************)
NumberInv ==
  \A v \in Verifies :
    Granted(v) => IsNumber(body[v].s) /\ IsNumber(body[v].clientR)

OutcomeInv == AnswerInv /\ RowInv /\ AuditInv /\ IssueInv /\ NumberInv

-----------------------------------------------------------------------------
(* What no step takes back.                                                *)

(***************************************************************************)
(* A body, an outcome, a row, a written challenge, a fault and an event    *)
(* stay what they are.                                                     *)
(***************************************************************************)
Kept ==
  /\ \A r \in Requests : body[r] # None => body'[r] = body[r]
  /\ \A r \in Requests : outcome[r] # None => outcome'[r] = outcome[r]
  /\ rows \subseteq rows'
  /\ written \subseteq written'
  /\ faulted \subseteq faulted'
  /\ audit \subseteq audit'

(***************************************************************************)
(* No step takes back what the history says.                               *)
(***************************************************************************)
LEMMA NextKeeps ==
  ASSUME TypeInv, AnswerInv, [Next]_vars
  PROVE  Kept /\ AnswerInv'
<1> USE DEF Kept, AnswerInv, TypeInv, TypeOK, Control, Goto, Finish, Fault, Requests
<1>1. ASSUME NEW r \in Requests, NEW b, NEW label, Receive(r, b, label)
      PROVE  Kept /\ AnswerInv'
  <2>1. pc[r] = "idle" /\ body[r] = None /\ outcome[r] = None
    BY <1>1 DEF Receive
  <2> QED
    BY <1>1, <2>1 DEF Receive, backend, history
<1>2. ASSUME NEW r \in Registers, CountByUsername(r) \/ InsertUser(r) \/ CommitUser(r)
      PROVE  Kept /\ AnswerInv'
  BY <1>2 DEF CountByUsername, InsertUser, CommitUser, backend
<1>3. ASSUME NEW c \in Challenges,
             LookupForChallenge(c) \/ CacheChallenge(c) \/ ExpireChallenge(c)
      PROVE  Kept /\ AnswerInv'
  BY <1>3 DEF LookupForChallenge, CacheChallenge, ExpireChallenge, SetChallenge,
              backend, history
<1>4. ASSUME NEW v \in Verifies, TakeChallenge(v)
      PROVE  Kept /\ AnswerInv'
  BY <1>4 DEF TakeChallenge
<1>5. ASSUME NEW v \in Verifies, CheckProof(v)
      PROVE  Kept /\ AnswerInv'
  <2>1. /\ pc[v] = "check" /\ pc' = [pc EXCEPT ![v] = "return"]
        /\ \E reason : outcome' = [outcome EXCEPT ![v] = reason]
        /\ faulted \subseteq faulted'
        /\ UNCHANGED <<body, rows, written, audit>>
    BY <1>5 DEF CheckProof, backend
  <2> QED
    BY <2>1
<1>6. ASSUME NEW r \in Requests, Return(r)
      PROVE  Kept /\ AnswerInv'
  BY <1>6 DEF Return, backend, history
<1>7. CASE Crash
  BY <1>7 DEF Crash, backend, history
<1>8. CASE UNCHANGED vars
  BY <1>8 DEF vars
<1> QED
  BY <1>1, <1>2, <1>3, <1>4, <1>5, <1>6, <1>7, <1>8
  DEF Next, Register, Challenge, Verify, Quiescent

-----------------------------------------------------------------------------
(* Who changes what.                                                       *)

(***************************************************************************)
(* The outcome of a request is set by the controller that refuses its      *)
(* body, or by a step of its own handler.                                  *)
(***************************************************************************)
LEMMA OutcomeSteps ==
  ASSUME TypeInv, [Next]_vars, NEW r \in Requests, outcome'[r] # outcome[r]
  PROVE  \/ outcome'[r] = "bad_request" /\ pc[r] = "idle"
         \/ r \in Registers  /\ (CountByUsername(r) \/ InsertUser(r) \/ CommitUser(r))
         \/ r \in Challenges /\ CacheChallenge(r)
         \/ r \in Verifies   /\ (TakeChallenge(r) \/ CheckProof(r))
<1> USE DEF TypeInv, TypeOK, Finish, Requests
<1>1. ASSUME NEW q \in Requests, NEW b, NEW label, Receive(q, b, label)
      PROVE  outcome'[r] = "bad_request" /\ pc[r] = "idle"
  BY <1>1 DEF Receive
<1>2. ASSUME NEW q \in Registers, CountByUsername(q) \/ InsertUser(q) \/ CommitUser(q)
      PROVE  q = r
  BY <1>2 DEF CountByUsername, InsertUser, CommitUser
<1>3. ASSUME NEW c \in Challenges,
             LookupForChallenge(c) \/ CacheChallenge(c) \/ ExpireChallenge(c)
      PROVE  c = r /\ CacheChallenge(c)
  BY <1>3 DEF LookupForChallenge, CacheChallenge, ExpireChallenge
<1>4. ASSUME NEW v \in Verifies, TakeChallenge(v) \/ CheckProof(v)
      PROVE  v = r
  <2>1. outcome' = [outcome EXCEPT ![v] = outcome'[v]]
    BY <1>4 DEF TakeChallenge, CheckProof
  <2> QED
    BY <2>1
<1>5. ~ \E q \in Requests : Return(q)
  BY DEF Return
<1>6. ~Crash /\ ~UNCHANGED vars
  BY DEF Crash, vars
<1> QED
  BY <1>1, <1>2, <1>3, <1>4, <1>5, <1>6
  DEF Next, Register, Challenge, Verify, Quiescent

(***************************************************************************)
(* The body of a request is bound by its controller.                       *)
(***************************************************************************)
LEMMA BodySteps ==
  ASSUME TypeInv, [Next]_vars, NEW r \in Requests, body'[r] # body[r]
  PROVE  /\ pc[r] = "idle" /\ WellFormed(body'[r])
         /\ r \in Verifies => body'[r] \in VerifyBodies /\ IdKnown(body'[r])
<1> USE DEF TypeInv, TypeOK, Requests
<1>1. ASSUME NEW q \in Requests, NEW b, NEW label, Receive(q, b, label)
      PROVE  q = r /\ pc[r] = "idle" /\ body'[r] = b /\ WellFormed(b)
  BY <1>1 DEF Receive
<1>2. ~ \E q \in Registers : CountByUsername(q) \/ InsertUser(q) \/ CommitUser(q)
  BY DEF CountByUsername, InsertUser, CommitUser
<1>3. ~ \E c \in Challenges :
          LookupForChallenge(c) \/ CacheChallenge(c) \/ ExpireChallenge(c)
  BY DEF LookupForChallenge, CacheChallenge, ExpireChallenge
<1>4. ~ \E v \in Verifies : TakeChallenge(v) \/ CheckProof(v)
  BY DEF TakeChallenge, CheckProof
<1>5. ~ \E q \in Requests : Return(q)
  BY DEF Return
<1>6. ~Crash /\ ~UNCHANGED vars
  BY DEF Crash, vars
<1> QED
  BY <1>1, <1>2, <1>3, <1>4, <1>5, <1>6
  DEF Next, Register, Challenge, Verify, Quiescent

(***************************************************************************)
(* A key is read from the table by the lookup of a challenge request and   *)
(* by the check of a verify request.                                       *)
(***************************************************************************)
LEMMA FoundSteps ==
  ASSUME TypeInv, [Next]_vars, NEW r \in Requests, found'[r] # found[r]
  PROVE  \/ r \in Challenges /\ LookupForChallenge(r)
         \/ r \in Verifies /\ CheckProof(r)
<1> USE DEF TypeInv, TypeOK, Requests
<1>1. ~ \E q \in Requests : \E b, label : Receive(q, b, label)
  BY DEF Receive
<1>2. ~ \E q \in Registers : CountByUsername(q) \/ InsertUser(q) \/ CommitUser(q)
  BY DEF CountByUsername, InsertUser, CommitUser
<1>3. ASSUME NEW c \in Challenges,
             LookupForChallenge(c) \/ CacheChallenge(c) \/ ExpireChallenge(c)
      PROVE  c = r /\ LookupForChallenge(c)
  BY <1>3 DEF LookupForChallenge, CacheChallenge, ExpireChallenge
<1>4. ASSUME NEW v \in Verifies, TakeChallenge(v) \/ CheckProof(v)
      PROVE  v = r /\ CheckProof(v)
  BY <1>4 DEF TakeChallenge, CheckProof
<1>5. ~ \E q \in Requests : Return(q)
  BY DEF Return
<1>6. ~Crash /\ ~UNCHANGED vars
  BY DEF Crash, vars
<1> QED
  BY <1>1, <1>2, <1>3, <1>4, <1>5, <1>6
  DEF Next, Register, Challenge, Verify, Quiescent

(***************************************************************************)
(* An entry comes and goes, and is consumed, by the SET of its request, by *)
(* its expiry, and by the script of a verify request.                      *)
(***************************************************************************)
LEMMA StoreSteps ==
  ASSUME [Next]_vars,
         \A c \in Challenges : ~CacheChallenge(c) /\ ~ExpireChallenge(c),
         \A v \in Verifies : ~TakeChallenge(v)
  PROVE  UNCHANGED <<store, written, consumer>>
<1>1. ASSUME NEW q \in Requests, NEW b, NEW label, Receive(q, b, label)
      PROVE  UNCHANGED <<store, written, consumer>>
  BY <1>1 DEF Receive, backend, history
<1>2. ASSUME NEW q \in Registers, CountByUsername(q) \/ InsertUser(q) \/ CommitUser(q)
      PROVE  UNCHANGED <<store, written, consumer>>
  BY <1>2 DEF CountByUsername, InsertUser, CommitUser, backend
<1>3. ASSUME NEW c \in Challenges, LookupForChallenge(c)
      PROVE  UNCHANGED <<store, written, consumer>>
  BY <1>3 DEF LookupForChallenge, backend
<1>4. ASSUME NEW v \in Verifies, CheckProof(v)
      PROVE  UNCHANGED <<store, written, consumer>>
  BY <1>4 DEF CheckProof, backend
<1>5. ASSUME NEW q \in Requests, Return(q)
      PROVE  UNCHANGED <<store, written, consumer>>
  BY <1>5 DEF Return, backend, history
<1>6. CASE Crash \/ UNCHANGED vars
  BY <1>6 DEF Crash, vars, backend, history
<1> QED
  BY <1>1, <1>2, <1>3, <1>4, <1>5, <1>6
  DEF Next, Register, Challenge, Verify, Quiescent, Requests

(***************************************************************************)
(* The steps that answer nobody leave the audit trail and the requests     *)
(* that were answered alone.                                               *)
(***************************************************************************)
LEMMA QuietAudit ==
  ASSUME TypeInv, [Next]_vars, \A r \in Requests : ~Return(r)
  PROVE  /\ audit' = audit
         /\ \A r \in Requests :
              /\ pc[r] = "done" => pc'[r] = "done"
              /\ pc'[r] = "done" /\ body'[r] # None => pc[r] = "done" /\ body[r] # None
<1> USE DEF TypeInv, TypeOK, Control, Goto, Finish, Requests
<1>1. ASSUME NEW q \in Requests, NEW b, NEW label, Receive(q, b, label), label # "done"
      PROVE  /\ audit' = audit
             /\ \A r \in Requests :
                 /\ pc[r] = "done" => pc'[r] = "done"
                 /\ pc'[r] = "done" /\ body'[r] # None => pc[r] = "done" /\ body[r] # None
  <2>1. pc[q] = "idle" /\ body[q] = None /\ (pc'[q] = label \/ body'[q] = None)
    BY <1>1 DEF Receive
  <2>2. \A r \in Requests : r # q => pc'[r] = pc[r] /\ body'[r] = body[r]
    BY <1>1 DEF Receive
  <2> QED
    BY <1>1, <2>1, <2>2 DEF Receive
<1>2. ASSUME UNCHANGED <<audit, body>>, NEW q \in Requests,
             pc[q] # "done", pc'[q] # "done",
             \A r \in Requests : r # q => pc'[r] = pc[r]
      PROVE  /\ audit' = audit
             /\ \A r \in Requests :
                 /\ pc[r] = "done" => pc'[r] = "done"
                 /\ pc'[r] = "done" /\ body'[r] # None => pc[r] = "done" /\ body[r] # None
  <2>1. \A r \in Requests : (pc'[r] = "done") <=> (pc[r] = "done")
    BY <1>2
  <2> QED
    BY <1>2, <2>1
<1>3. ASSUME NEW q \in Registers, CountByUsername(q) \/ InsertUser(q) \/ CommitUser(q)
      PROVE  /\ UNCHANGED <<audit, body>> /\ pc[q] # "done" /\ pc'[q] # "done"
             /\ \A r \in Requests : r # q => pc'[r] = pc[r]
  BY <1>3 DEF CountByUsername, InsertUser, CommitUser
<1>4. ASSUME NEW c \in Challenges, LookupForChallenge(c) \/ CacheChallenge(c)
      PROVE  /\ UNCHANGED <<audit, body>> /\ pc[c] # "done" /\ pc'[c] # "done"
             /\ \A r \in Requests : r # c => pc'[r] = pc[r]
  BY <1>4 DEF LookupForChallenge, CacheChallenge
<1>5. ASSUME NEW v \in Verifies, TakeChallenge(v) \/ CheckProof(v)
      PROVE  /\ UNCHANGED <<audit, body>> /\ pc[v] # "done" /\ pc'[v] # "done"
             /\ \A r \in Requests : r # v => pc'[r] = pc[r]
  <2>1. /\ pc' = [pc EXCEPT ![v] = pc'[v]] /\ UNCHANGED <<audit, body>>
        /\ pc[v] # "done" /\ pc'[v] # "done"
    BY <1>5 DEF TakeChallenge, CheckProof
  <2> QED
    BY <2>1
<1>6. ASSUME Crash
      PROVE  /\ audit' = audit
             /\ \A r \in Requests :
                 /\ pc[r] = "done" => pc'[r] = "done"
                 /\ pc'[r] = "done" /\ body'[r] # None => pc[r] = "done" /\ body[r] # None
  BY <1>6 DEF Crash, InFlight
<1>7. CASE \E c \in Challenges : ExpireChallenge(c)
  BY <1>7 DEF ExpireChallenge
<1>8. CASE UNCHANGED vars
  BY <1>8 DEF vars
<1> QED
  BY <1>1, <1>2, <1>3, <1>4, <1>5, <1>6, <1>7, <1>8
  DEF Next, Register, Challenge, Verify, Quiescent

-----------------------------------------------------------------------------
(* Each part is preserved.                                                 *)

(***************************************************************************)
(* What a step that neither inserts nor commits does to the register       *)
(* request r.                                                              *)
(***************************************************************************)
LeavesRow(r) ==
  /\ pc'[r] \in {"idle", "count", "create"} => pc[r] \in {"idle", "count", "create"}
  /\ pc'[r] = "commit" => pc[r] = "commit"
  /\ outcome'[r] = "ok" => outcome[r] = "ok"

(***************************************************************************)
(* A row with the key a request drew is that request's row.                *)
(***************************************************************************)
LEMMA OwnRow ==
  ASSUME TypeInv, RowInv, NEW r \in Registers, RowFor(r) \in rows
  PROVE  IsOwner(r, RowFor(r))
<1>1. PICK q \in Registers : IsOwner(q, RowFor(r))
  BY DEF RowInv
<1>2. rowId[q] = rowId[r]
  BY <1>1 DEF IsOwner, RowFor
<1>3. q = r
  BY <1>1, <1>2 DEF IsOwner, RowInv
<1> QED
  BY <1>1, <1>3

(***************************************************************************)
(* A step that neither inserts nor commits leaves the rows their owners.   *)
(***************************************************************************)
LEMMA RowFrame ==
  ASSUME TypeInv, RowInv, Kept, UNCHANGED <<rows, nextId, rowId>>,
         \A r \in Registers : LeavesRow(r)
  PROVE  RowInv'
<1>1. ASSUME NEW r \in Registers, body[r] # None
      PROVE  RowFor(r)' = RowFor(r)
  BY <1>1 DEF RowFor, Kept, Requests
<1>2. ASSUME NEW row \in rows'
      PROVE  \E r \in Registers : IsOwner(r, row)'
  <2>1. PICK r \in Registers : IsOwner(r, row)
    BY <1>2 DEF RowInv
  <2>2. r \in Requests /\ RowFor(r)' = RowFor(r)
    BY <1>1, <2>1 DEF IsOwner, Requests
  <2>3. IsOwner(r, row)'
    BY <2>1, <2>2, ReasonFacts DEF IsOwner, Kept
  <2> QED
    BY <2>3
<1>3. \A r \in Registers :
        /\ rowId'[r] < nextId'
        /\ pc'[r] \in {"idle", "count", "create"} => rowId'[r] = 0
        /\ pc'[r] = "commit" => rowId'[r] # 0
        /\ outcome'[r] = "ok" => RowFor(r)' \in rows'
  BY <1>1, OwnRow DEF RowInv, LeavesRow, IsOwner
<1> QED
  BY <1>2, <1>3 DEF RowInv

(***************************************************************************)
(* An INSERT draws a key that no other registration has,                   *)
(***************************************************************************)
LEMMA InsertRow ==
  ASSUME TypeInv, RowInv, Kept, NEW r \in Registers, InsertUser(r)
  PROVE  RowInv'
<1>1. CASE UNCHANGED <<rowId, nextId>> /\ Finish(r, "db_error")
  <2>1. UNCHANGED <<rows, nextId, rowId>>
    BY <1>1 DEF InsertUser
  <2>2. \A q \in Registers : LeavesRow(q)
    BY <1>1 DEF LeavesRow, Finish, Goto, TypeInv, TypeOK, Control, Requests
  <2> QED
    BY <2>1, <2>2, RowFrame
<1>2. CASE /\ rowId' = [rowId EXCEPT ![r] = nextId]
           /\ nextId' = nextId + 1 /\ Goto(r, "commit") /\ UNCHANGED outcome
  <2>1. /\ UNCHANGED <<rows, body, outcome>> /\ rowId[r] = 0 /\ nextId \in Nat \ {0}
        /\ \A q \in Registers : rowId[q] \in Nat /\ rowId[q] < nextId
        /\ rowId'[r] = nextId /\ pc'[r] = "commit" /\ outcome[r] # "ok"
        /\ \A q \in Registers : q # r => rowId'[q] = rowId[q] /\ pc'[q] = pc[q]
    BY <1>2 DEF InsertUser, Goto, RowInv, TypeInv, TypeOK, Control, Requests
  <2>2. \A q \in Registers : q # r => RowFor(q)' = RowFor(q)
    BY <2>1 DEF RowFor
  <2>3. ASSUME NEW row \in rows'
        PROVE  \E q \in Registers : IsOwner(q, row)'
    <3>1. PICK q \in Registers : IsOwner(q, row)
      BY <2>1, <2>3 DEF RowInv
    <3>2. q # r /\ faulted \subseteq faulted'
      BY <2>1, <3>1 DEF IsOwner, Kept
    <3>3. IsOwner(q, row)'
      BY <2>1, <2>2, <3>1, <3>2 DEF IsOwner
    <3> QED
      BY <3>3
  <2>4. \A q \in Registers :
          /\ rowId'[q] < nextId'
          /\ pc'[q] \in {"idle", "count", "create"} => rowId'[q] = 0
          /\ pc'[q] = "commit" => rowId'[q] # 0
          /\ outcome'[q] = "ok" => RowFor(q)' \in rows'
    BY <1>2, <2>1, <2>2 DEF RowInv
  <2>5. \A q, p \in Registers : rowId'[q] = rowId'[p] /\ rowId'[q] # 0 => q = p
    BY <2>1 DEF RowInv
  <2> QED
    BY <2>3, <2>4, <2>5 DEF RowInv
<1> QED
  BY <1>1, <1>2 DEF InsertUser

(***************************************************************************)
(* a COMMIT adds the row of its own registration,                          *)
(***************************************************************************)
LEMMA CommitRow ==
  ASSUME TypeInv, RowInv, Kept, NEW r \in Registers, CommitUser(r)
  PROVE  RowInv'
<1>1. /\ UNCHANGED <<body, rowId, nextId>> /\ body[r] # None /\ rowId[r] # 0
      /\ pc'[r] = "return" /\ \A q \in Registers : q # r => pc'[q] = pc[q] /\ outcome'[q] = outcome[q]
      /\ rows' = rows \/ rows' = rows \cup {RowFor(r)}
      /\ \/ outcome'[r] = "ok" /\ RowFor(r) \in rows'
         \/ outcome'[r] = "db_error" /\ r \in faulted'
  BY DEF CommitUser, Finish, Goto, Fault, RowInv, TypeInv, TypeOK, Control, Requests
<1>2. \A q \in Registers : RowFor(q)' = RowFor(q)
  BY <1>1 DEF RowFor
<1>3. ASSUME NEW row \in rows'
      PROVE  \E q \in Registers : IsOwner(q, row)'
  <2>1. CASE row = RowFor(r)
    <3>1. IsOwner(r, row)'
      BY <1>1, <1>2, <2>1 DEF IsOwner
    <3> QED
      BY <3>1
  <2>2. CASE row # RowFor(r)
    <3>1. PICK q \in Registers : IsOwner(q, row)
      BY <1>1, <1>3, <2>2 DEF RowInv
    <3>2. q # r /\ faulted \subseteq faulted'
      BY <2>2, <3>1 DEF IsOwner, Kept
    <3>3. IsOwner(q, row)'
      BY <1>1, <1>2, <3>1, <3>2 DEF IsOwner
    <3> QED
      BY <3>3
  <2> QED
    BY <2>1, <2>2
<1>4. \A q \in Registers :
        /\ rowId'[q] < nextId'
        /\ pc'[q] \in {"idle", "count", "create"} => rowId'[q] = 0
        /\ pc'[q] = "commit" => rowId'[q] # 0
        /\ outcome'[q] = "ok" => RowFor(q)' \in rows'
  BY <1>1, <1>2, ReasonFacts DEF RowInv
<1> QED
  BY <1>1, <1>3, <1>4 DEF RowInv

(***************************************************************************)
(* The steps that neither insert nor commit, as RowFrame wants them.       *)
(***************************************************************************)
LEMMA QuietRows ==
  ASSUME TypeInv, AnswerInv, [Next]_vars,
         \A r \in Registers : ~InsertUser(r) /\ ~CommitUser(r)
  PROVE  UNCHANGED <<rows, nextId, rowId>> /\ \A r \in Registers : LeavesRow(r)
<1> USE ReasonFacts DEF TypeInv, TypeOK, Control, Goto, Finish, Requests, LeavesRow
<1>1. ASSUME NEW r \in Requests, NEW b, NEW label, Receive(r, b, label),
             label \in {"count", "lookup", "take"}
      PROVE  UNCHANGED <<rows, nextId, rowId>> /\ \A q \in Registers : LeavesRow(q)
  <2>1. /\ pc[r] = "idle" /\ pc'[r] # "commit" /\ outcome'[r] # "ok"
        /\ \A q \in Requests : q # r => pc'[q] = pc[q] /\ outcome'[q] = outcome[q]
        /\ UNCHANGED <<rows, nextId, rowId>>
    BY <1>1 DEF Receive, backend
  <2> QED
    BY <2>1
<1>2. ASSUME NEW r \in Registers, CountByUsername(r)
      PROVE  UNCHANGED <<rows, nextId, rowId>> /\ \A q \in Registers : LeavesRow(q)
  BY <1>2 DEF CountByUsername, backend
<1>3. ASSUME NEW c \in Challenges,
             LookupForChallenge(c) \/ CacheChallenge(c) \/ ExpireChallenge(c)
      PROVE  UNCHANGED <<rows, nextId, rowId>> /\ \A q \in Registers : LeavesRow(q)
  <2>1. c \notin Registers /\ Registers \subseteq Requests
    OBVIOUS
  <2>2. \A q \in Registers : pc'[q] = pc[q] /\ outcome'[q] = outcome[q]
    BY <1>3, <2>1 DEF LookupForChallenge, CacheChallenge, ExpireChallenge
  <2> QED
    BY <1>3, <2>2 DEF LookupForChallenge, CacheChallenge, ExpireChallenge, backend
<1>4. ASSUME NEW v \in Verifies, TakeChallenge(v) \/ CheckProof(v)
      PROVE  UNCHANGED <<rows, nextId, rowId>> /\ \A q \in Registers : LeavesRow(q)
  <2>1. /\ pc' = [pc EXCEPT ![v] = pc'[v]]
        /\ outcome' = [outcome EXCEPT ![v] = outcome'[v]]
        /\ UNCHANGED <<rows, nextId, rowId>>
    BY <1>4 DEF TakeChallenge, CheckProof, backend
  <2>2. \A q \in Registers : q # v /\ q \in Requests
    OBVIOUS
  <2>3. \A q \in Registers : pc'[q] = pc[q]
    BY <2>1, <2>2
  <2>4. \A q \in Registers : outcome'[q] = outcome[q]
    BY <2>1, <2>2
  <2> QED
    BY <2>1, <2>3, <2>4
<1>5. ASSUME NEW r \in Requests, Return(r)
      PROVE  UNCHANGED <<rows, nextId, rowId>> /\ \A q \in Registers : LeavesRow(q)
  BY <1>5 DEF Return, backend
<1>6. CASE Crash
  BY <1>6 DEF Crash, backend
<1>7. CASE UNCHANGED vars
  BY <1>7 DEF vars
<1> QED
  BY <1>1, <1>2, <1>3, <1>4, <1>5, <1>6, <1>7
  DEF Next, Register, Challenge, Verify, Quiescent

(***************************************************************************)
(* and every step keeps the rows and their owners in order.                *)
(***************************************************************************)
LEMMA NextRows ==
  ASSUME TypeInv, AnswerInv, RowInv, [Next]_vars
  PROVE  RowInv'
<1>1. Kept
  BY NextKeeps
<1> QED
  BY <1>1, InsertRow, CommitRow, RowFrame, QuietRows

(***************************************************************************)
(* An event is published by the return of its request, and neither then    *)
(* nor later does anything it says change.                                 *)
(***************************************************************************)
LEMMA NextAudit ==
  ASSUME TypeInv, AnswerInv, AuditInv, [Next]_vars
  PROVE  AuditInv'
<1>1. Kept
  BY NextKeeps
<1>2. \A r \in Requests : outcome[r] # None => EventOf(r)' = EventOf(r)
  BY <1>1 DEF EventOf, Kept
<1>3. \A e \in audit : outcome[e.request] # None
  BY ReasonFacts DEF AuditInv, EventOf, TypeInv, TypeOK
<1>4. \A r \in Served : outcome[r] # None
  BY <1>3 DEF AuditInv, EventOf, Served
<1>5. CASE \A r \in Requests : ~Return(r)
  <2>1. audit' = audit /\ Served' \subseteq Served
    BY <1>5, QuietAudit DEF Served
  <2>2. \A r \in Served' : EventOf(r)' \in audit'
    BY <1>2, <1>4, <2>1 DEF AuditInv, Served
  <2>3. ASSUME NEW e \in audit'
        PROVE  /\ e = EventOf(e.request)' /\ e.request \in Requests
               /\ pc'[e.request] = "done" /\ body'[e.request] # None
    <3>1. /\ e = EventOf(e.request) /\ e.request \in Requests
          /\ pc[e.request] = "done" /\ body[e.request] # None
      BY <2>1 DEF AuditInv
    <3> QED
      BY <1>1, <1>2, <1>3, <1>5, <2>1, <3>1, QuietAudit DEF Kept
  <2> QED
    BY <2>2, <2>3 DEF AuditInv
<1>6. ASSUME NEW q \in Requests, Return(q)
      PROVE  AuditInv'
  <2>1. /\ audit' = audit \cup {EventOf(q)} /\ UNCHANGED <<body, outcome>>
        /\ body[q] # None /\ pc'[q] = "done" /\ EventOf(q).request = q
        /\ \A r \in Requests : r # q => pc'[r] = pc[r]
    BY <1>6 DEF Return, Goto, EventOf, TypeInv, TypeOK, Control
  <2>2. \A r \in Requests : EventOf(r)' = EventOf(r)
    BY <2>1 DEF EventOf
  <2>3. \A r \in Served' : EventOf(r)' \in audit'
    BY <2>1, <2>2 DEF AuditInv, Served
  <2>4. ASSUME NEW e \in audit'
        PROVE  /\ e = EventOf(e.request)' /\ e.request \in Requests
               /\ pc'[e.request] = "done" /\ body'[e.request] # None
    <3>1. CASE e = EventOf(q)
      BY <2>1, <2>2, <3>1
    <3>2. CASE e \in audit
      <4>1. /\ e = EventOf(e.request) /\ e.request \in Requests
            /\ pc[e.request] = "done" /\ body[e.request] # None
        BY <3>2 DEF AuditInv
      <4> QED
        BY <2>1, <2>2, <4>1
    <3> QED
      BY <2>1, <3>1, <3>2
  <2> QED
    BY <2>3, <2>4 DEF AuditInv
<1> QED
  BY <1>5, <1>6

(***************************************************************************)
(* A client names a challenge it was told, which Redis had acknowledged.   *)
(***************************************************************************)
LEMMA NamedIsWritten ==
  ASSUME TypeInv, AnswerInv, IssueInv, [Next]_vars
  PROVE  \A v \in Verifies : body'[v] # None => body'[v].challengeId \in written'
<1> SUFFICES ASSUME NEW v \in Verifies, body'[v] # None
             PROVE  body'[v].challengeId \in written'
  OBVIOUS
<1>1. Kept /\ v \in Requests
  BY NextKeeps DEF Requests
<1>2. CASE body'[v] = body[v]
  BY <1>1, <1>2 DEF IssueInv, Kept
<1>3. CASE body'[v] # body[v]
  <2>1. WellFormed(body'[v]) /\ body'[v] \in VerifyBodies /\ IdKnown(body'[v])
    BY <1>1, <1>3, BodySteps
  <2>2. body'[v].challengeId \in Challenges
    BY <2>1, WellFormedBodies
  <2>3. outcome[body'[v].challengeId] = "ok"
    BY <2>1, <2>2 DEF IdKnown, Answered
  <2> QED
    BY <1>1, <2>2, <2>3 DEF IssueInv, Kept
<1> QED
  BY <1>2, <1>3

(***************************************************************************)
(* The key a challenge was made with is in the table, or fake.             *)
(***************************************************************************)
LEMMA FoundIsReal ==
  ASSUME TypeInv, AnswerInv, IssueInv, [Next]_vars
  PROVE  \A c \in Challenges : found'[c] # None =>
           /\ body'[c] # None
           /\ \/ found'[c] = FakeY
              \/ \E row \in RowsOf(body[c].username)' : row.publicKeyY = found'[c]
<1> SUFFICES ASSUME NEW c \in Challenges, found'[c] # None
             PROVE  /\ body'[c] # None
                    /\ \/ found'[c] = FakeY
                       \/ \E row \in RowsOf(body[c].username)' :
                             row.publicKeyY = found'[c]
  OBVIOUS
<1>1. Kept /\ c \in Requests
  BY NextKeeps DEF Requests
<1>2. CASE found'[c] = found[c]
  BY <1>1, <1>2 DEF IssueInv, Kept, RowsOf
<1>3. CASE found'[c] # found[c]
  <2>1. LookupForChallenge(c)
    BY <1>1, <1>3, FoundSteps
  <2>2. body[c] # None /\ body' = body /\ rows' = rows
    BY <1>1, <2>1 DEF LookupForChallenge, backend, TypeInv, Control
  <2>3. \/ found'[c] = FakeY
        \/ \E row \in RowsOf(body[c].username) : row.publicKeyY = found'[c]
    BY <1>1, <2>1 DEF LookupForChallenge, IsFirst, KeyOfNobody, TypeInv, TypeOK
  <2> QED
    BY <2>2, <2>3 DEF RowsOf
<1> QED
  BY <1>2, <1>3

(***************************************************************************)
(* An acknowledged SET was made; an entry goes by expiry or by a script.   *)
(***************************************************************************)
LEMMA NextIssue ==
  ASSUME TypeInv, ChallengeInv, AnswerInv, IssueInv, [Next]_vars
  PROVE  IssueInv'
<1>1. Kept
  BY NextKeeps
<1>2. ASSUME NEW c \in Challenges, outcome'[c] = "ok"
      PROVE  c \in written'
  <2>1. CASE outcome'[c] = outcome[c]
    BY <1>1, <1>2, <2>1 DEF IssueInv, Kept
  <2>2. CASE outcome'[c] # outcome[c]
    <3>1. CacheChallenge(c)
      BY <1>2, <2>2, OutcomeSteps DEF Requests
    <3> QED
      BY <1>2, <3>1 DEF CacheChallenge, SetChallenge, Finish, TypeInv, TypeOK, Requests
  <2> QED
    BY <2>1, <2>2
<1>3. ASSUME NEW c \in Challenges, c \in written', store'[c] = None, consumer'[c] = None
      PROVE  ChallengeTTL > 0
  <2>1. ASSUME NEW d \in Challenges, CacheChallenge(d)
        PROVE  ChallengeTTL > 0
    <3>1. consumer' = consumer /\ CacheEntry(d) # None
      <4>1. consumer' = consumer /\ pc[d] = "cache" /\ d \in Requests
        BY <2>1 DEF CacheChallenge, Requests
      <4>2. body[d] \in [username : Usernames, clientR : Texts] /\ found[d] \in Texts
        BY <4>1 DEF TypeInv, TypeOK, Control
      <4>3. CacheEntry(d) \in ChallengeCache
        BY <4>2 DEF CacheEntry, ChallengeCache, computeChallengeHex
      <4> QED
        BY <4>1, <4>3
    <3>2. CASE UNCHANGED <<store, written>>
      BY <1>3, <3>1, <3>2 DEF IssueInv
    <3>3. CASE SetChallenge(d)
      BY <1>3, <3>1, <3>3 DEF SetChallenge, IssueInv, TypeInv, TypeOK
    <3> QED
      BY <2>1, <3>2, <3>3 DEF CacheChallenge
  <2>2. ASSUME NEW d \in Challenges, ExpireChallenge(d)
        PROVE  ChallengeTTL > 0
    BY <2>2 DEF ExpireChallenge
  <2>3. ASSUME NEW v \in Verifies, TakeChallenge(v)
        PROVE  ChallengeTTL > 0
    <3>1. written' = written /\ v # None
      BY <2>3 DEF TakeChallenge
    <3>2. CASE UNCHANGED <<store, consumer>>
      BY <1>3, <3>1, <3>2 DEF IssueInv
    <3>3. CASE RemoveChallenge(v)
      BY <1>3, <3>1, <3>3 DEF RemoveChallenge, IssueInv, TypeInv, TypeOK
    <3> QED
      BY <2>3, <3>2, <3>3 DEF TakeChallenge
  <2> QED
    BY <1>3, <2>1, <2>2, <2>3, StoreSteps DEF IssueInv
<1> QED
  BY <1>2, <1>3, NamedIsWritten, FoundIsReal DEF IssueInv

(***************************************************************************)
(* A login is granted after both of its texts were parsed.                 *)
(***************************************************************************)
LEMMA NextNumber ==
  ASSUME Inv, AnswerInv, NumberInv, [Next]_vars
  PROVE  NumberInv'
<1> SUFFICES ASSUME NEW v \in Verifies, outcome'[v] = "ok"
             PROVE  IsNumber(body'[v].s) /\ IsNumber(body'[v].clientR)
  BY DEF NumberInv, Granted
<1>1. Kept /\ v \in Requests /\ TypeInv
  BY NextKeeps DEF Requests, Inv
<1>2. CASE outcome[v] = "ok"
  BY <1>1, <1>2 DEF NumberInv, Granted, Kept, Inv, HolderInv, Holds
<1>3. CASE outcome[v] # "ok"
  <2>1. TakeChallenge(v) \/ CheckProof(v)
    BY <1>1, <1>3, OutcomeSteps DEF Requests
  <2>2. CheckProof(v)
    BY <1>1, <2>1 DEF TakeChallenge, Finish, TypeInv, TypeOK, Control
  <2>3. body' = body /\ \E row \in rows : Verdict(v, row.publicKeyY) = "ok"
    BY <1>1, <2>2, ReasonFacts DEF CheckProof, Finish, TypeInv, TypeOK
  <2> QED
    BY <2>3 DEF Verdict
<1> QED
  BY <1>2, <1>3

-----------------------------------------------------------------------------
(* The invariant, and what it gives.                                       *)

(***************************************************************************)
(* Initially nothing was answered, and the table is empty.                 *)
(***************************************************************************)
LEMMA InitOutcome == Init => OutcomeInv
<1> SUFFICES ASSUME Init PROVE OutcomeInv
  OBVIOUS
<1>1. /\ \A r \in Requests : pc[r] = "idle" /\ body[r] = None /\ outcome[r] = None
                             /\ found[r] = None
      /\ \A r \in Registers : rowId[r] = 0 /\ r \in Requests
      /\ Challenges \subseteq Requests /\ Verifies \subseteq Requests
      /\ nextId = 1 /\ rows = {} /\ audit = {} /\ written = {} /\ None # "ok"
  BY ReasonFacts DEF Init, Requests
<1>2. AnswerInv /\ RowInv /\ IssueInv /\ NumberInv
  BY <1>1 DEF AnswerInv, RowInv, IssueInv, NumberInv, Granted
<1>3. AuditInv
  BY <1>1 DEF AuditInv, Served
<1> QED
  BY <1>2, <1>3 DEF OutcomeInv

(***************************************************************************)
(* Every step preserves the invariant of this module, given that of the    *)
(* core.                                                                   *)
(***************************************************************************)
LEMMA NextOutcome == Inv /\ OutcomeInv /\ [Next]_vars => OutcomeInv'
<1> SUFFICES ASSUME Inv, OutcomeInv, [Next]_vars PROVE OutcomeInv'
  OBVIOUS
<1>1. TypeInv /\ ChallengeInv
  BY DEF Inv
<1> QED
  BY <1>1, NextKeeps, NextRows, NextAudit, NextIssue, NextNumber DEF OutcomeInv

(***************************************************************************)
(* The inductive invariant of this module, which rests on that of the      *)
(* core, holds in every run.                                               *)
(***************************************************************************)
THEOREM OutcomeInvariance == Spec => [](Inv /\ OutcomeInv)
  BY InitInv, InitOutcome, NextInv, NextOutcome, PTL DEF Spec

(***************************************************************************)
(* Nothing solves the equation for the fake key.                           *)
(***************************************************************************)
LEMMA FakeNeverHolds ==
  ASSUME NEW s \in Texts, NEW r \in Texts, NEW u \in Usernames,
         IsNumber(s), IsNumber(r)
  PROVE  ~ProofHolds(ValueOf[s], ValueOf[r], ValueOf[FakeY],
                     DigestValue(<<r, FakeY, u>>))
<1>1. ModExp(ValueOf[FakeY], DigestValue(<<r, FakeY, u>>), P) = 0
  BY FakeAssumption
<1>2. ValueOf[r] \in Int
  BY TextAssumption DEF IsNumber, mustBigFromHex
<1>3. (ValueOf[r] * 0) % P = 0
  BY <1>2, GroupAssumption
<1>4. ModExp(G, ValueOf[s], P) # 0
  BY FakeAssumption
<1> QED
  BY <1>1, <1>3, <1>4 DEF ProofHolds

(***************************************************************************)
(* A challenge made with the fake key never lets anyone in.                *)
(***************************************************************************)
THEOREM FakeKeyOpensNothing == Spec => []FakeChallengeNeverGranted
<1>1. Inv /\ OutcomeInv => FakeChallengeNeverGranted
  <2> SUFFICES ASSUME Inv, OutcomeInv, NEW v \in Verifies, Granted(v),
                      found[body[v].challengeId] = FakeY
               PROVE  FALSE
    BY DEF FakeChallengeNeverGranted
  <2>1. Authentic(v) /\ body[v] # None
    BY DEF Inv, GrantIsAuthentic, HolderInv, Holds
  <2>2. body[v].s \in Texts /\ body[v].clientR \in Texts /\ body[v].username \in Usernames
    BY <2>1 DEF Inv, TypeInv, Control
  <2>3. IsNumber(body[v].s) /\ IsNumber(body[v].clientR)
    BY DEF OutcomeInv, NumberInv
  <2> QED
    BY <2>1, <2>2, <2>3, FakeNeverHolds DEF Authentic
<1> QED
  BY <1>1, OutcomeInvariance, PTL

(***************************************************************************)
(* The server takes the blame only for a fault of a store.                 *)
(***************************************************************************)
THEOREM BlameNeedsAFault == Spec => []ServerErrorNeedsAFault
<1>1. Init => ServerErrorNeedsAFault
  BY DEF Init, ServerErrorNeedsAFault
<1>2. Inv /\ OutcomeInv /\ ServerErrorNeedsAFault /\ [Next]_vars
        => ServerErrorNeedsAFault'
  <2> SUFFICES ASSUME Inv, OutcomeInv, ServerErrorNeedsAFault, [Next]_vars,
                      NEW r \in Requests, outcome'[r] # None,
                      StatusOf(outcome'[r]) >= 500
               PROVE  r \in faulted'
    BY DEF ServerErrorNeedsAFault
  <2>1. Kept /\ TypeInv
    BY NextKeeps DEF Inv, OutcomeInv
  <2>2. CASE outcome'[r] = outcome[r]
    BY <2>1, <2>2 DEF ServerErrorNeedsAFault, Kept
  <2>3. CASE outcome'[r] # outcome[r]
    <3>1. outcome'[r] \notin {"ok", "bad_request", "username_exists",
             "challenge_not_found", "challenge_mismatch", "invalid_credential",
             "challenge_invalid", "invalid_proof", "invalid_s",
             "invalid_clientR", "invalid_publicKeyY"}
      BY DEF StatusOf
    <3>2. CASE r \in Registers /\ (CountByUsername(r) \/ InsertUser(r) \/ CommitUser(r))
      BY <2>1, <2>3, <3>1, <3>2
      DEF CountByUsername, InsertUser, CommitUser, Finish, Fault, TypeInv, TypeOK, Requests
    <3>3. CASE r \in Challenges /\ CacheChallenge(r)
      BY <2>1, <3>1, <3>3 DEF CacheChallenge, Finish, Fault, TypeInv, TypeOK, Requests
    <3>4. CASE r \in Verifies /\ TakeChallenge(r)
      BY <2>1, <2>3, <3>1, <3>4 DEF TakeChallenge, Finish, Fault, TypeInv, TypeOK, Requests
    <3>5. CASE r \in Verifies /\ CheckProof(r)
      <4>1. ASSUME NEW y
            PROVE  Verdict(r, y) \in {"ok", "challenge_invalid", "invalid_s",
                     "invalid_clientR", "invalid_publicKeyY", "invalid_proof"}
        BY DEF Verdict
      <4> QED
        BY <2>1, <3>1, <3>5, <4>1 DEF CheckProof, Finish, Fault, TypeInv, TypeOK, Requests
    <3> QED
      BY <2>1, <2>3, <3>1, <3>2, <3>3, <3>4, <3>5, OutcomeSteps
  <2> QED
    BY <2>2, <2>3
<1> QED
  BY <1>1, <1>2, OutcomeInvariance, PTL DEF Spec

(***************************************************************************)
(* The audit trail is true to the stores.                                  *)
(***************************************************************************)
THEOREM AuditIsTrue == Spec => []AuditTellsTheTruth
<1>1. Inv /\ OutcomeInv => AuditTellsTheTruth
  <2> SUFFICES ASSUME Inv, OutcomeInv PROVE AuditTellsTheTruth
    OBVIOUS
  <2> USE DEF OutcomeInv
  <2>1. \A r \in Served : \E e \in audit : e.request = r
    <3>1. \A r \in Served : EventOf(r) \in audit /\ EventOf(r).request = r
      BY DEF AuditInv, EventOf
    <3> QED
      BY <3>1
  <2>2. ASSUME NEW e \in audit
        PROVE  /\ e.request \in Requests /\ e.reason = outcome[e.request]
               /\ e.success <=> outcome[e.request] = "ok"
               /\ e = EventOf(e.request)
    <3>1. e.request \in Requests /\ e = EventOf(e.request)
      BY DEF AuditInv
    <3>2. \A r \in Requests : /\ EventOf(r).reason = outcome[r]
                              /\ EventOf(r).success = (outcome[r] = "ok")
      BY Zenon DEF EventOf
    <3> QED
      BY <3>1, <3>2, Zenon
  <2>3. ASSUME NEW e \in audit, e.request \in Registers
        PROVE  /\ e.success => RowFor(e.request) \in rows
               /\ RowFor(e.request) \in rows => e.reason \in {"ok", "db_error"}
               /\ RowFor(e.request) \in rows /\ ~e.success => e.request \in faulted
    <3>1. e.success => RowFor(e.request) \in rows
      BY <2>2, <2>3 DEF RowInv
    <3>2. RowFor(e.request) \in rows => IsOwner(e.request, RowFor(e.request))
      BY <2>3, OwnRow DEF Inv
    <3> QED
      BY <2>2, <3>1, <3>2 DEF IsOwner
  <2>4. ASSUME NEW c \in Challenges, NEW e \in audit, NEW f \in audit,
               e.request \in Verifies, body[e.request].challengeId = c, e.success,
               f.request \in Verifies, body[f.request].challengeId = c, f.success
        PROVE  e = f /\ consumer[c] = e.request
    <3>1. consumer[c] = e.request /\ consumer[c] = f.request
      BY <2>2, <2>4 DEF Inv, HolderInv, Holds, Granted
    <3> QED
      BY <2>2, <3>1
  <2> QED
    BY <2>1, <2>3, <2>4 DEF AuditTellsTheTruth
<1> QED
  BY <1>1, OutcomeInvariance, PTL

-----------------------------------------------------------------------------
(* The key of a username.                                                  *)

(***************************************************************************)
(* A row appears by the commit of a registration.                          *)
(***************************************************************************)
LEMMA RowSteps ==
  ASSUME TypeInv, AnswerInv, [Next]_vars, rows' # rows
  PROVE  \E r \in Registers : CommitUser(r) /\ rows' = rows \cup {RowFor(r)}
<1>1. \A r \in Registers : ~InsertUser(r)
  BY DEF InsertUser
<1>2. \E r \in Registers : CommitUser(r)
  BY <1>1, QuietRows
<1> QED
  BY <1>2 DEF CommitUser

(***************************************************************************)
(* Two rows never have the same primary key.                               *)
(***************************************************************************)
LEMMA IdsAreUnique ==
  ASSUME RowInv, NEW row \in rows, NEW other \in rows, row.id = other.id
  PROVE  row = other
<1>1. PICK r \in Registers : IsOwner(r, row)
  BY DEF RowInv
<1>2. PICK q \in Registers : IsOwner(q, other)
  BY DEF RowInv
<1>3. row.id = rowId[r] /\ other.id = rowId[q] /\ rowId[r] # 0
  BY <1>1, <1>2 DEF IsOwner, RowFor
<1>4. r = q
  BY <1>3 DEF RowInv
<1> QED
  BY <1>1, <1>2, <1>4 DEF IsOwner

(***************************************************************************)
(* The key a username resolves to never disappears, and changes only to    *)
(* that of an older row whose commit comes late.                           *)
(***************************************************************************)
THEOREM KeyYieldsToOlderRow == Spec => KeyOnlyYieldsToOlderRow
<1>1. ASSUME Inv, OutcomeInv, [Next]_vars,
             NEW u \in Usernames, NEW i \in FirstIds(u)
      PROVE  \E j \in FirstIds(u)' : j <= i /\ (j < i => \E r \in Registers :
                                            pc[r] = "commit" /\ rowId[r] = j)
  <2>1. PICK row \in rows : IsFirst(row, u) /\ i = row.id
    BY <1>1 DEF FirstIds
  <2>2. i \in Nat /\ \A other \in rows : other.id \in Nat
    BY <1>1, <2>1 DEF Inv, TypeInv, TypeOK, UserCredentials
  <2>3. CASE rows' = rows
    <3>1. i \in FirstIds(u)'
      BY <2>1, <2>3 DEF FirstIds, IsFirst, RowsOf
    <3> QED
      BY <2>2, <3>1
  <2>4. CASE rows' # rows
    <3>1. PICK r \in Registers : CommitUser(r) /\ rows' = rows \cup {RowFor(r)}
      BY <1>1, <2>4, RowSteps DEF Inv, OutcomeInv
    <3>2. pc[r] = "commit" /\ RowFor(r).id = rowId[r] /\ rowId[r] \in Nat
      BY <1>1, <3>1 DEF CommitUser, RowFor, Inv, TypeInv, TypeOK
    <3>3. CASE RowFor(r).username # u \/ i <= rowId[r]
      <4>1. IsFirst(row, u)'
        BY <2>1, <2>2, <3>1, <3>2, <3>3 DEF IsFirst, RowsOf
      <4>2. i \in FirstIds(u)'
        BY <2>1, <3>1, <4>1 DEF FirstIds
      <4> QED
        BY <2>2, <4>2
    <3>4. CASE RowFor(r).username = u /\ rowId[r] < i
      <4>1. PICK new : new = RowFor(r)
        OBVIOUS
      <4>2. \A other \in rows : other.username = u => i <= other.id
        BY <2>1 DEF IsFirst, RowsOf
      <4>3. new \in rows' /\ new.username = u /\ new.id = rowId[r]
        BY <3>1, <3>2, <3>4, <4>1
      <4>4. \A other \in rows' : other.username = u => new.id <= other.id
        BY <2>2, <3>1, <3>2, <3>4, <4>1, <4>2, <4>3
      <4>5. IsFirst(new, u)'
        BY <4>3, <4>4 DEF IsFirst, RowsOf
      <4>6. rowId[r] \in FirstIds(u)'
        BY <4>3, <4>5 DEF FirstIds
      <4> QED
        BY <2>2, <3>2, <3>4, <4>6
    <3> QED
      BY <2>2, <3>2, <3>3, <3>4
  <2> QED
    BY <2>3, <2>4
<1>2. Inv /\ OutcomeInv /\ [Next]_vars =>
        [\A u \in Usernames : \A i \in FirstIds(u) :
           \E j \in FirstIds(u)' : j <= i /\ (j < i => \E r \in Registers :
                                            pc[r] = "commit" /\ rowId[r] = j)]_vars
  BY <1>1
<1> QED
  BY <1>2, OutcomeInvariance, PTL DEF Spec, KeyOnlyYieldsToOlderRow

(***************************************************************************)
(* A registration gets past its count only if nobody has the username, and *)
(* draws a primary key only after that.                                    *)
(***************************************************************************)
LEMMA RegisterSteps ==
  ASSUME TypeInv, AnswerInv, [Next]_vars, NEW r \in Registers
  PROVE  /\ pc'[r] \in {"create", "commit"} =>
              \/ pc[r] \in {"create", "commit"}
              \/ pc[r] = "count" /\ UsernameFree(body[r].username)
         /\ rowId'[r] = rowId[r] \/ pc[r] = "create"
<1> USE DEF TypeInv, TypeOK, Goto, Finish, Requests
<1>1. ASSUME NEW q \in Requests, NEW b, NEW label, Receive(q, b, label),
             label \in {"count", "lookup", "take"}
      PROVE  /\ pc'[r] \in {"create", "commit"} => pc[r] \in {"create", "commit"}
             /\ rowId' = rowId
  <2>1. pc'[q] \notin {"create", "commit"} /\ rowId' = rowId
    BY <1>1 DEF Receive, backend
  <2>2. r # q => pc'[r] = pc[r]
    BY <1>1 DEF Receive
  <2> QED
    BY <2>1, <2>2
<1>2. ASSUME NEW q \in Registers, CountByUsername(q)
      PROVE  /\ rowId' = rowId
             /\ pc'[r] \in {"create", "commit"} =>
                  \/ pc[r] \in {"create", "commit"}
                  \/ pc[r] = "count" /\ UsernameFree(body[r].username)
  BY <1>2 DEF CountByUsername, backend
<1>3. ASSUME NEW q \in Registers, InsertUser(q) \/ CommitUser(q)
      PROVE  /\ pc'[r] \in {"create", "commit"} => pc[r] \in {"create", "commit"}
             /\ rowId'[r] = rowId[r] \/ pc[r] = "create"
  BY <1>3 DEF InsertUser, CommitUser
<1>4. ASSUME NEW c \in Challenges,
             LookupForChallenge(c) \/ CacheChallenge(c) \/ ExpireChallenge(c)
      PROVE  pc'[r] = pc[r] /\ rowId' = rowId
  BY <1>4 DEF LookupForChallenge, CacheChallenge, ExpireChallenge, backend
<1>5. ASSUME NEW v \in Verifies, TakeChallenge(v) \/ CheckProof(v)
      PROVE  pc'[r] = pc[r] /\ rowId' = rowId
  <2>1. pc' = [pc EXCEPT ![v] = pc'[v]] /\ rowId' = rowId
    BY <1>5 DEF TakeChallenge, CheckProof, backend
  <2> QED
    BY <2>1
<1>6. ASSUME NEW q \in Requests, Return(q)
      PROVE  /\ pc'[r] \in {"create", "commit"} => pc[r] \in {"create", "commit"}
             /\ rowId' = rowId
  BY <1>6 DEF Return, backend
<1>7. CASE Crash
  BY <1>7 DEF Crash, backend
<1>8. CASE UNCHANGED vars
  BY <1>8 DEF vars
<1> QED
  BY <1>1, <1>2, <1>3, <1>4, <1>5, <1>6, <1>7, <1>8
  DEF Next, Register, Challenge, Verify, Quiescent

(***************************************************************************)
(* The username is taken, and the request r, if it is about it, cannot get *)
(* to its INSERT any more.                                                 *)
(***************************************************************************)
TooLate(r, u) ==
  /\ Taken(u)
  /\ \/ body[r] = None
     \/ body[r].username # u
     \/ pc[r] \notin {"create", "commit"} /\ rowId[r] = 0

(***************************************************************************)
(* A registration that arrives when its username is taken adds no row.     *)
(***************************************************************************)
THEOREM LateRegistrationIsRefused == Spec => LateRegistrationAddsNothing
<1> SUFFICES ASSUME NEW r \in Registers, NEW u \in Usernames
             PROVE  Spec => [](pc[r] = "idle" /\ Taken(u) => []~AddedRow(r, u))
  BY DEF LateRegistrationAddsNothing
<1>1. Inv /\ OutcomeInv /\ pc[r] = "idle" /\ Taken(u) => TooLate(r, u)
  BY DEF TooLate, Inv, TypeInv, Control, Requests
<1>2. ASSUME Inv, OutcomeInv, [Next]_vars, TooLate(r, u)
      PROVE  TooLate(r, u)'
  <2>1. TypeInv /\ AnswerInv /\ RowInv /\ Kept /\ r \in Requests
    BY <1>2, NextKeeps DEF Inv, OutcomeInv, Requests
  <2>2. Taken(u)'
    BY <1>2, <2>1 DEF TooLate, Taken, RowsOf, Kept
  <2>3. CASE body'[r] = None \/ body'[r].username # u
    BY <2>2, <2>3 DEF TooLate
  <2>4. CASE body'[r] # None /\ body'[r].username = u /\ body[r] = None
    <3>1. pc[r] = "idle"
      BY <1>2, <2>1, <2>4, BodySteps
    <3>2. rowId[r] = 0
      BY <2>1, <3>1 DEF RowInv
    <3> QED
      BY <1>2, <2>1, <2>2, <3>1, <3>2, RegisterSteps DEF TooLate
  <2>5. CASE body'[r].username = u /\ body[r] # None
    <3>1. body[r].username = u /\ pc[r] \notin {"create", "commit"} /\ rowId[r] = 0
      BY <1>2, <2>1, <2>5 DEF TooLate, Kept
    <3>2. ~UsernameFree(body[r].username)
      BY <1>2, <3>1 DEF TooLate, Taken, UsernameFree
    <3> QED
      BY <1>2, <2>1, <2>2, <3>1, <3>2, RegisterSteps DEF TooLate
  <2> QED
    BY <2>3, <2>4, <2>5
<1>3. Inv /\ OutcomeInv /\ TooLate(r, u) => ~AddedRow(r, u)
  <2> SUFFICES ASSUME Inv, OutcomeInv, TooLate(r, u), AddedRow(r, u)
               PROVE  FALSE
    OBVIOUS
  <2>1. IsOwner(r, RowFor(r))
    BY OwnRow DEF AddedRow, Inv, OutcomeInv
  <2> QED
    BY <2>1 DEF TooLate, AddedRow, IsOwner
<1> QED
  BY <1>1, <1>2, <1>3, OutcomeInvariance, PTL DEF Spec

-----------------------------------------------------------------------------
(* What a correct proof may be refused for.                                *)

(***************************************************************************)
(* What a written challenge was made of stays, and one that is gone stays  *)
(* gone, with the consumer it has.                                         *)
(***************************************************************************)
LEMMA WrittenStays ==
  ASSUME Inv, AnswerInv, [Next]_vars, NEW c \in written
  PROVE  /\ c \in Challenges /\ c \in written'
         /\ body'[c] = body[c] /\ body[c] # None
         /\ found'[c] = found[c] /\ CacheEntry(c)' = CacheEntry(c)
         /\ store[c] = None => store'[c] = None /\ consumer'[c] = consumer[c]
         /\ consumer[c] # None => consumer'[c] = consumer[c]
<1>1. /\ TypeInv /\ Kept /\ c \in Challenges /\ c \in Requests
      /\ body[c] # None /\ pc[c] \in {"return", "done", "lost"}
      /\ consumer[c] # None => store[c] = None
  BY NextKeeps DEF Inv, ChallengeInv, TypeInv, TypeOK, Requests
<1>2. found'[c] = found[c]
  BY <1>1, FoundSteps DEF LookupForChallenge, CheckProof
<1>3. store[c] = None => store'[c] = None /\ consumer'[c] = consumer[c]
  <2> SUFFICES ASSUME store[c] = None
               PROVE  store'[c] = None /\ consumer'[c] = consumer[c]
    OBVIOUS
  <2>1. ASSUME NEW d \in Challenges, CacheChallenge(d) \/ ExpireChallenge(d)
        PROVE  store'[c] = None /\ consumer'[c] = consumer[c]
    BY <1>1, <2>1
    DEF CacheChallenge, SetChallenge, ExpireChallenge, history, TypeInv, TypeOK
  <2>2. ASSUME NEW v \in Verifies, TakeChallenge(v)
        PROVE  store'[c] = None /\ consumer'[c] = consumer[c]
    BY <1>1, <2>2, TakeFacts DEF TypeInv, TypeOK
  <2> QED
    BY <2>1, <2>2, StoreSteps
<1> QED
  BY <1>1, <1>2, <1>3 DEF Kept, CacheEntry

(***************************************************************************)
(* The causes there are to refuse the verify request v.                    *)
(***************************************************************************)
Superseded(v) ==
  /\ found[v] \notin {found[body[v].challengeId], None}
  /\ \E old, new \in RowsOf(body[v].username) :
       /\ old.publicKeyY = found[v]
       /\ new.publicKeyY = found[body[v].challengeId]
       /\ old.id < new.id

Cause(v) ==
  LET c == body[v].challengeId IN
  \/ v \in faulted
  \/ consumer[c] \notin {v, None}
  \/ consumer[c] = None /\ store[c] = None /\ ChallengeTTL > 0
  \/ Superseded(v)

(***************************************************************************)
(* A request that was refused keeps its body and the key it found, and a   *)
(* cause stays a cause.                                                    *)
(***************************************************************************)
LEMMA CauseStays ==
  ASSUME Inv, OutcomeInv, [Next]_vars, NEW v \in Verifies,
         outcome[v] \notin {None, "bad_request"},
         body'[v] # None
  PROVE  /\ AnswersCorrectly(v)' => AnswersCorrectly(v)
         /\ Cause(v) => Cause(v)'
<1>1. TypeInv /\ AnswerInv /\ Kept /\ v \in Requests
  BY NextKeeps DEF Inv, OutcomeInv, Requests
<1>2. body'[v] = body[v] /\ found'[v] = found[v]
  <2>1. pc[v] \in {"return", "done", "lost"}
    BY <1>1 DEF AnswerInv
  <2>2. body'[v] = body[v]
    BY <1>1, <2>1, BodySteps
  <2>3. found'[v] = found[v]
    BY <1>1, <2>1, FoundSteps DEF LookupForChallenge, CheckProof
  <2> QED
    BY <2>2, <2>3
<1>3. PICK c : c = body[v].challengeId
  OBVIOUS
<1>4. c \in written
  BY <1>2, <1>3 DEF OutcomeInv, IssueInv
<1>5. /\ c \in written' /\ body'[c] = body[c] /\ found'[c] = found[c]
      /\ CacheEntry(c)' = CacheEntry(c)
      /\ store[c] = None => store'[c] = None /\ consumer'[c] = consumer[c]
      /\ consumer[c] # None => consumer'[c] = consumer[c]
  BY <1>1, <1>4, WrittenStays
<1>6. AnswersCorrectly(v)' => AnswersCorrectly(v)
  BY <1>2, <1>3, <1>4, <1>5 DEF AnswersCorrectly
<1>7. Superseded(v) => Superseded(v)'
  BY <1>1, <1>2, <1>3, <1>5 DEF Superseded, RowsOf, Kept
<1>8. Cause(v) => Cause(v)'
  BY <1>1, <1>2, <1>3, <1>5, <1>7 DEF Cause, Kept
<1> QED
  BY <1>6, <1>8

(***************************************************************************)
(* The first call of Verify refuses a correct proof for cause.             *)
(***************************************************************************)
LEMMA TakeRefusesForCause ==
  ASSUME Inv, OutcomeInv, NEW v \in Verifies, TakeChallenge(v),
         outcome'[v] # outcome[v], AnswersCorrectly(v)
  PROVE  Cause(v)'
<1>1. PICK c : c = body[v].challengeId
  OBVIOUS
<1>2. /\ TypeInv /\ v \in Requests /\ pc[v] = "take" /\ c \in Challenges
      /\ c \in written /\ body' = body
      /\ body[c].username = body[v].username /\ body[c].clientR = body[v].clientR
  BY <1>1, TakeFacts DEF AnswersCorrectly, TakeChallenge, Inv, Requests
<1>3. CASE Fault(v)
  BY <1>3 DEF Fault, Cause
<1>4. CASE store[c] = None /\ UNCHANGED <<store, consumer>>
  <2>1. consumer[c] # v
    BY <1>1, <1>2 DEF Inv, ChallengeInv
  <2>2. consumer[c] = None => ChallengeTTL > 0
    BY <1>2, <1>4 DEF OutcomeInv, IssueInv
  <2> QED
    BY <1>1, <1>2, <1>4, <2>1, <2>2 DEF Cause
<1>5. CASE store[c] # None /\ ~Matches(store[c], body[v])
  <2>1. store[c] = CacheEntry(c)
    BY <1>2, <1>5 DEF Inv, ChallengeInv
  <2> QED
    BY <1>2, <1>5, <2>1 DEF Matches, CacheEntry
<1> QED
  BY <1>1, <1>3, <1>4, <1>5 DEF TakeChallenge, RemoveChallenge

(***************************************************************************)
(* The second call of Verify refuses a correct proof for cause: by the     *)
(* checks, only if the key is now another one than the challenge was made  *)
(* with, and that can only be the key of an older row.                     *)
(***************************************************************************)
LEMMA CheckRefusesForCause ==
  ASSUME Inv, OutcomeInv, NEW v \in Verifies, CheckProof(v),
         outcome'[v] # "ok", AnswersCorrectly(v)
  PROVE  Cause(v)'
<1>1. PICK c : c = body[v].challengeId
  OBVIOUS
<1>2. PICK y : y = found[c]
  OBVIOUS
<1>3. /\ TypeInv /\ v \in Requests /\ c \in Challenges /\ c \in Requests /\ c # v
      /\ body[v] # None /\ c \in written
      /\ body[c].username = body[v].username /\ body[c].clientR = body[v].clientR
      /\ held[v] = CacheEntry(c)
  BY <1>1, HolderFacts DEF AnswersCorrectly, CheckProof, Inv, HolderInv, Holds, Requests
<1>4. /\ held[v].challenge = <<body[v].clientR, y, body[v].username>>
      /\ IsNumber(body[v].s) /\ IsNumber(body[v].clientR) /\ IsNumber(y)
      /\ ProofHolds(ValueOf[body[v].s], ValueOf[body[v].clientR], ValueOf[y],
                    DigestValue(<<body[v].clientR, y, body[v].username>>))
  BY <1>1, <1>2, <1>3 DEF AnswersCorrectly, CacheEntry, computeChallengeHex
<1>5. Verdict(v, y) = "ok"
  BY <1>4 DEF Verdict, Recomputed, computeChallengeHex, ProofAccepted, mustBigFromHex
<1>6. y # FakeY
  <2>1. body[v].s \in Texts /\ body[v].clientR \in Texts /\ body[v].username \in Usernames
    BY <1>3 DEF TypeInv, Control
  <2> QED
    BY <1>4, <2>1, FakeNeverHolds
<1>7. PICK new \in RowsOf(body[v].username) : new.publicKeyY = y
  <2>1. y # None
    BY <1>2, <1>3 DEF Inv, ChallengeInv
  <2> QED
    BY <1>2, <1>3, <1>6, <2>1 DEF OutcomeInv, IssueInv
<1>8. CASE Fault(v)
  BY <1>8 DEF Fault, Cause
<1>9. ASSUME NEW row \in rows, IsFirst(row, body[v].username),
             found' = [found EXCEPT ![v] = row.publicKeyY],
             outcome'[v] = Verdict(v, row.publicKeyY)
      PROVE  Cause(v)'
  <2>1. row.publicKeyY # y
    BY <1>5, <1>9
  <2>2. /\ row \in RowsOf(body[v].username) /\ row.id <= new.id
        /\ row.publicKeyY \in Texts /\ row.id \in Nat /\ new.id \in Nat
    BY <1>3, <1>7, <1>9 DEF IsFirst, RowsOf, TypeInv, TypeOK, UserCredentials
  <2>3. row.id # new.id
    BY <1>7, <2>1, IdsAreUnique DEF OutcomeInv, RowsOf
  <2>4. row.id < new.id
    BY <2>2, <2>3
  <2>5. body' = body /\ rows' = rows /\ found'[c] = y /\ found'[v] = row.publicKeyY
    BY <1>2, <1>3, <1>9 DEF CheckProof, backend, TypeInv, TypeOK
  <2>6. Superseded(v)'
    BY <1>1, <1>7, <2>1, <2>2, <2>4, <2>5 DEF Superseded, RowsOf
  <2> QED
    BY <2>6 DEF Cause
<1> QED
  BY <1>3, <1>7, <1>8, <1>9 DEF CheckProof, Finish, TypeInv, TypeOK

(***************************************************************************)
(* A correct proof is refused only for cause.                              *)
(***************************************************************************)
THEOREM RefusalsHaveACause == Spec => []RefusedOnlyForCause
<1>1. RefusedOnlyForCause <=>
        \A v \in Verifies : outcome[v] \notin {None, "ok", "bad_request"}
                            /\ AnswersCorrectly(v) => Cause(v)
  BY DEF RefusedOnlyForCause, Cause, Superseded
<1>2. Init => RefusedOnlyForCause
  BY <1>1 DEF Init, Requests
<1>3. Inv /\ OutcomeInv /\ RefusedOnlyForCause /\ [Next]_vars => RefusedOnlyForCause'
  <2> SUFFICES ASSUME Inv, OutcomeInv, RefusedOnlyForCause, [Next]_vars,
                      NEW v \in Verifies,
                      outcome'[v] \notin {None, "ok", "bad_request"},
                      AnswersCorrectly(v)'
               PROVE  Cause(v)'
    BY DEF RefusedOnlyForCause, Cause, Superseded
  <2>1. TypeInv /\ AnswerInv /\ Kept /\ v \in Requests /\ body'[v] # None
    BY NextKeeps DEF Inv, OutcomeInv, Requests, AnswersCorrectly
  <2>2. CASE outcome'[v] = outcome[v]
    BY <1>1, <2>1, <2>2, CauseStays
  <2>3. CASE outcome'[v] # outcome[v]
    <3>1. TakeChallenge(v) \/ CheckProof(v)
      BY <2>1, <2>3, OutcomeSteps DEF Requests
    <3>2. body' = body /\ written' = written
      BY <3>1 DEF TakeChallenge, CheckProof
    <3>3. body[v].challengeId \in written /\ body[v] # None
      BY <2>1, <3>2 DEF OutcomeInv, IssueInv
    <3>4. AnswersCorrectly(v)
      BY <2>1, <3>2, <3>3, WrittenStays DEF AnswersCorrectly
    <3> QED
      BY <2>3, <3>1, <3>4, TakeRefusesForCause, CheckRefusesForCause
  <2> QED
    BY <2>2, <2>3
<1> QED
  BY <1>2, <1>3, OutcomeInvariance, PTL DEF Spec

=============================================================================
