------------------------------ MODULE LossyQueue ------------------------------
(***************************************************************************)
(* What the audit publisher promises its callers: a queue that may refuse  *)
(* an item when it is full, and otherwise hands every item on, once and in *)
(* order; and a Close that returns when all that was pending is handed on. *)
(***************************************************************************)
EXTENDS Naturals, Sequences

CONSTANTS Items, Room

VARIABLES
  pending,   \* accepted, not yet handed on
  sent,      \* handed on
  refused,
  closing,   \* "open", "closing" or "closed"
  due        \* how many items must be sent before Close returns

vars == <<pending, sent, refused, closing, due>>

Init ==
  /\ pending = <<>>
  /\ sent = <<>>
  /\ refused = {}
  /\ closing = "open"
  /\ due = 0

Seen(x) == x \in refused \/ \E i \in DOMAIN (sent \o pending) :
                              (sent \o pending)[i] = x

Accept(x) ==
  /\ ~Seen(x)
  /\ pending' = Append(pending, x)
  /\ UNCHANGED <<sent, refused, closing, due>>

Refuse(x) ==
  /\ ~Seen(x)
  /\ Len(pending) >= Room
  /\ refused' = refused \cup {x}
  /\ UNCHANGED <<pending, sent, closing, due>>

HandOn ==
  /\ pending # <<>>
  /\ sent' = Append(sent, Head(pending))
  /\ pending' = Tail(pending)
  /\ UNCHANGED <<refused, closing, due>>

Close ==
  /\ closing = "open"
  /\ closing' = "closing"
  /\ due' = Len(sent) + Len(pending)
  /\ UNCHANGED <<pending, sent, refused>>

Closed ==
  /\ closing = "closing"
  /\ Len(sent) >= due
  /\ closing' = "closed"
  /\ UNCHANGED <<pending, sent, refused, due>>

Next ==
  \/ \E x \in Items : Accept(x) \/ Refuse(x)
  \/ HandOn
  \/ Close
  \/ Closed

Spec == Init /\ [][Next]_vars

=============================================================================
