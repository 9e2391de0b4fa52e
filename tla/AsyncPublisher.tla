--------------------------- MODULE AsyncPublisher ---------------------------
(***************************************************************************)
(* The asynchronous audit publisher (internal/audit): handlers put events  *)
(* into a bounded channel and never wait, one worker goroutine writes them *)
(* to Kafka one at a time, and Close stops the worker once the channel is  *)
(* empty.                                                                  *)
(*                                                                         *)
(* A write may fail or time out; the worker logs it and goes on, it does   *)
(* not retry.  Whether Kafka stored the event of a failed write is not     *)
(* known, so only the attempts are recorded.                               *)
(***************************************************************************)
EXTENDS Naturals, Sequences

CONSTANTS
  Events,      \* the audit events handlers publish, each of them once
  QueueSize,   \* application.yaml: kafka.async_queue_size
  None

ASSUME QueueAssumption == QueueSize \in Nat \ {0}
ASSUME NoneAssumption  == None \notin Events

VARIABLES
  queue,       \* the channel
  worker,      \* where the worker goroutine is
  inHand,      \* the event the worker received from the channel
  stopCh,      \* has stopCh been closed?
  closer,      \* the caller of Close
  attempted,   \* the events handed to the Kafka writer, in order

  (* History. *)
  accepted,    \* the events put into the channel, in order
  dropped,     \* the events a full channel refused (these are logged)
  failed,      \* the events whose write failed (these are logged)
  acceptedAtClose   \* how many events had been accepted when Close was called

workerVars == <<worker, inHand, attempted, failed>>
publisherVars == <<queue, workerVars, stopCh, closer, accepted, dropped,
                   acceptedAtClose>>

InitPublisher ==
  /\ queue = <<>>
  /\ worker = "select"
  /\ inHand = None
  /\ stopCh = FALSE
  /\ closer = "none"
  /\ attempted = <<>>
  /\ accepted = <<>>
  /\ dropped = {}
  /\ failed = {}
  /\ acceptedAtClose = 0

-----------------------------------------------------------------------------

Published(e) == e \in dropped \/ \E i \in DOMAIN accepted : accepted[i] = e

(* Mutant: a queue that grows without bound.                               *)
PublishUnbounded(e) ==
  /\ ~Published(e)
  /\ queue' = Append(queue, e)
  /\ accepted' = Append(accepted, e)
  /\ UNCHANGED <<workerVars, stopCh, closer, acceptedAtClose, dropped>>

(***************************************************************************)
(* Publish: a select with a default case.  It looks neither at stopCh nor  *)
(* at the worker, and always returns nil.                                  *)
(***************************************************************************)
Publish(e) ==
  /\ ~Published(e)
  /\ \/ /\ Len(queue) < QueueSize
        /\ queue' = Append(queue, e)
        /\ accepted' = Append(accepted, e)
        /\ UNCHANGED dropped
     \/ /\ Len(queue) >= QueueSize
        /\ dropped' = dropped \cup {e}
        /\ UNCHANGED <<queue, accepted>>
  /\ UNCHANGED <<workerVars, stopCh, closer, acceptedAtClose>>

(* The worker receives an event, on its way to the label next.             *)
Receive(next) ==
  /\ queue # <<>>
  /\ inHand' = Head(queue)
  /\ queue' = Tail(queue)
  /\ worker' = next
  /\ UNCHANGED <<stopCh, closer, attempted, accepted, dropped, failed,
                 acceptedAtClose>>

(***************************************************************************)
(* The outer select: stopCh and the channel may both be ready, and Go      *)
(* picks either.                                                           *)
(***************************************************************************)
Select ==
  /\ worker = "select"
  /\ \/ /\ stopCh
        /\ worker' = "drain"
        /\ UNCHANGED <<queue, inHand, stopCh, closer, attempted, accepted,
                       dropped, failed, acceptedAtClose>>
     \/ Receive("write")

(* Mutant: the worker gone as soon as it sees stopCh, without draining.    *)
DrainNothing ==
  /\ worker = "drain"
  /\ worker' = "exited"
  /\ UNCHANGED <<queue, inHand, stopCh, closer, attempted, accepted, dropped,
                 failed, acceptedAtClose>>

(* The inner loop, until it finds the channel empty.                       *)
Drain ==
  /\ worker = "drain"
  /\ \/ Receive("drainWrite")
     \/ /\ queue = <<>>
        /\ worker' = "exited"
        /\ UNCHANGED <<queue, inHand, stopCh, closer, attempted, accepted,
                       dropped, failed, acceptedAtClose>>

(* Mutant: a failed write retried by putting the event back into the queue.*)
WriteOneRequeues ==
  /\ worker \in {"write", "drainWrite"}
  /\ worker' = IF worker = "write" THEN "select" ELSE "drain"
  /\ attempted' = Append(attempted, inHand)
  /\ inHand' = None
  /\ \/ UNCHANGED <<failed, queue>>
     \/ /\ failed' = failed \cup {inHand}
        /\ Len(queue) < QueueSize
        /\ queue' = Append(queue, inHand)
  /\ UNCHANGED <<stopCh, closer, accepted, dropped, acceptedAtClose>>

(* Mutant: the worker returns at the first failed write.                   *)
WriteOneGivesUp ==
  /\ worker \in {"write", "drainWrite"}
  /\ attempted' = Append(attempted, inHand)
  /\ inHand' = None
  /\ \/ /\ failed' = failed
        /\ worker' = IF worker = "write" THEN "select" ELSE "drain"
     \/ /\ failed' = failed \cup {inHand}
        /\ worker' = "exited"
  /\ UNCHANGED <<queue, stopCh, closer, accepted, dropped, acceptedAtClose>>

(* writeOne, bounded by writeTimeout; the worker returns to its loop.      *)
WriteOne ==
  /\ worker \in {"write", "drainWrite"}
  /\ worker' = IF worker = "write" THEN "select" ELSE "drain"
  /\ attempted' = Append(attempted, inHand)
  /\ inHand' = None
  /\ failed' \in {failed, failed \cup {inHand}}
  /\ UNCHANGED <<queue, stopCh, closer, accepted, dropped, acceptedAtClose>>

(***************************************************************************)
(* Close: closes stopCh, then waits for the worker to be done.             *)
(***************************************************************************)
CallClose ==
  /\ closer = "none"
  /\ closer' = "waiting"
  /\ stopCh' = TRUE
  /\ acceptedAtClose' = Len(accepted)
  /\ UNCHANGED <<queue, workerVars, accepted, dropped>>

CloseReturns ==
  /\ closer = "waiting"
  /\ worker = "exited"
  /\ closer' = "returned"
  /\ UNCHANGED <<queue, workerVars, stopCh, accepted, dropped, acceptedAtClose>>

Work == Select \/ Drain \/ WriteOne

NextPublisher ==
  \/ \E e \in Events : Publish(e)
  \/ Work
  \/ CallClose
  \/ CloseReturns

SpecPublisher == InitPublisher /\ [][NextPublisher]_publisherVars

-----------------------------------------------------------------------------

Workers == {"select", "write", "drain", "drainWrite", "exited"}

PublisherTypeOK ==
  /\ queue \in Seq(Events)
  /\ Len(queue) <= QueueSize
  /\ worker \in Workers
  /\ inHand \in Events \cup {None}
  /\ stopCh \in BOOLEAN
  /\ closer \in {"none", "waiting", "returned"}
  /\ attempted \in Seq(Events)
  /\ accepted \in Seq(Events)
  /\ dropped \subseteq Events
  /\ failed \subseteq Events
  /\ acceptedAtClose \in Nat

(* What the worker holds, as a sequence of at most one event.              *)
Holding == IF inHand = None THEN <<>> ELSE <<inHand>>

(***************************************************************************)
(* Nothing is lost, doubled or reordered between the handlers and Kafka:   *)
(* the attempts, the event in hand and the channel, put together, are the  *)
(* events accepted so far.                                                 *)
(***************************************************************************)
Conservation == accepted = attempted \o Holding \o queue

(***************************************************************************)
(* Close keeps its promise: once it returns, every event accepted before   *)
(* it was called has been handed to Kafka, whichever case the selects of   *)
(* the worker chose.                                                       *)
(***************************************************************************)
CloseFlushes ==
  closer = "returned" => Len(attempted) >= acceptedAtClose

=============================================================================
