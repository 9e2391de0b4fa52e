---------------------------- MODULE ServerProofs ----------------------------
(***************************************************************************)
(* Proofs about the audit publisher in the server process, for any number  *)
(* of requests and any size of the queue.                                  *)
(***************************************************************************)
EXTENDS Server, SequenceTheorems, TLAPS

USE QueueAssumption, NoneAssumption

(***************************************************************************)
(* Who has seen stopCh: only a closed channel gets the worker into its     *)
(* draining loop, and only an exited worker lets Close return.  A worker   *)
(* holds an event exactly while it writes.  What an exited worker has left *)
(* behind was accepted after Close was called.                             *)
(***************************************************************************)
Phases ==
  /\ stopCh <=> closer # "none"
  /\ worker \in {"drain", "drainWrite", "exited"} => stopCh
  /\ closer = "returned" => worker = "exited"
  /\ inHand # None <=> worker \in {"write", "drainWrite"}
  /\ stopCh => acceptedAtClose <= Len(accepted)
  /\ worker = "exited" => Len(attempted) >= acceptedAtClose

Inv == TypeOK /\ Conservation /\ Phases

(***************************************************************************)
(* A sequence that is not empty is its head followed by its tail.          *)
(***************************************************************************)
LEMMA SplitHead ==
  ASSUME NEW S, NEW s \in Seq(S), s # <<>>
  PROVE  s = <<Head(s)>> \o Tail(s)
<1>1. <<Head(s)>> \in Seq(S) /\ Tail(s) \in Seq(S)
  BY HeadTailProperties
<1>2. <<Head(s)>> \o Tail(s) \in Seq(S)
  BY <1>1, ConcatProperties
<1>3. Len(<<Head(s)>> \o Tail(s)) = Len(s)
  BY <1>1, ConcatProperties, HeadTailProperties
<1>4. \A i \in 1 .. Len(s) : (<<Head(s)>> \o Tail(s))[i] = s[i]
  BY <1>1, ConcatProperties, HeadTailProperties
<1> QED
  BY <1>2, <1>3, <1>4, SeqEqual

(***************************************************************************)
(* The three ways in which the parts of the accepted sequence move: an     *)
(* event accepted, taken in hand, and handed to Kafka.                     *)
(***************************************************************************)
LEMMA AcceptMoves ==
  ASSUME NEW a \in Seq(Events), NEW h \in Seq(Events), NEW q \in Seq(Events),
         NEW e \in Events
  PROVE  Append(a \o h \o q, e) = a \o h \o Append(q, e)
<1>1. a \o h \in Seq(Events) /\ a \o h \o q \in Seq(Events) /\ <<e>> \in Seq(Events)
  BY ConcatProperties
<1>2. Append(a \o h \o q, e) = (a \o h \o q) \o <<e>>
  BY <1>1, AppendIsConcat
<1>3. (a \o h \o q) \o <<e>> = a \o h \o (q \o <<e>>)
  BY <1>1, ConcatAssociative
<1> QED
  BY <1>2, <1>3, AppendIsConcat

(***************************************************************************)
(* An event goes from the channel into the hand of the worker.             *)
(***************************************************************************)
LEMMA ReceiveMoves ==
  ASSUME NEW a \in Seq(Events), NEW q \in Seq(Events), q # <<>>
  PROVE  a \o <<>> \o q = a \o <<Head(q)>> \o Tail(q)
<1>1. <<Head(q)>> \in Seq(Events) /\ Tail(q) \in Seq(Events)
  BY HeadTailProperties
<1>2. a \o <<>> \o q = a \o (<<Head(q)>> \o Tail(q))
  BY SplitHead, ConcatEmptySeq
<1> QED
  BY <1>1, <1>2, ConcatAssociative

(***************************************************************************)
(* An event goes from the hand of the worker to Kafka.                     *)
(***************************************************************************)
LEMMA WriteMoves ==
  ASSUME NEW a \in Seq(Events), NEW q \in Seq(Events), NEW e \in Events
  PROVE  a \o <<e>> \o q = Append(a, e) \o <<>> \o q
  BY AppendIsConcat, AppendProperties, ConcatEmptySeq

(***************************************************************************)
(* Initially nothing was published and nobody called Close.                *)
(***************************************************************************)
LEMMA InitInv == Init => Inv
<1> SUFFICES ASSUME Init PROVE Inv
  OBVIOUS
<1>1. TypeOK
  <2>1. /\ queue \in Seq(Events) /\ Len(queue) <= QueueSize
        /\ attempted \in Seq(Events) /\ accepted \in Seq(Events)
    BY EmptySeq DEF Init, InitPublisher
  <2> QED
    BY <2>1 DEF Init, InitPublisher, TypeOK, PublisherTypeOK, Workers
<1>2. Phases
  BY EmptySeq DEF Init, InitPublisher, Phases
<1>3. Conservation
  BY ConcatEmptySeq, EmptySeq DEF Init, InitPublisher, Conservation, Holding
<1> QED
  BY <1>1, <1>2, <1>3 DEF Inv

(***************************************************************************)
(* Publish preserves the invariant: it appends to the channel and to the   *)
(* accepted events alike, or drops.                                        *)
(***************************************************************************)
LEMMA PublishInv ==
  ASSUME Inv, NEW e \in Events, Publish(e)
  PROVE  PublisherTypeOK' /\ Conservation' /\ Phases'
<1> USE DEF Inv, TypeOK, PublisherTypeOK, workerVars
<1>1. CASE Len(queue) < QueueSize /\ queue' = Append(queue, e)
                                  /\ accepted' = Append(accepted, e)
  <2>1. /\ queue' \in Seq(Events) /\ Len(queue') = Len(queue) + 1
        /\ accepted' \in Seq(Events) /\ Len(accepted') = Len(accepted) + 1
    BY <1>1, AppendProperties
  <2>2. PublisherTypeOK' /\ Phases'
    BY <1>1, <2>1, LenProperties DEF Publish, Phases
  <2>3. Holding \in Seq(Events)
    BY DEF Holding
  <2>4. Holding' = Holding /\ UNCHANGED attempted
    BY DEF Publish, Holding
  <2>5. Append(attempted \o Holding \o queue, e) =
          attempted \o Holding \o Append(queue, e)
    <3> HIDE DEF Inv, TypeOK, PublisherTypeOK, workerVars
    <3>1. attempted \in Seq(Events) /\ queue \in Seq(Events)
      BY DEF Inv, TypeOK, PublisherTypeOK
    <3>2. PICK h \in Seq(Events) : h = Holding
      BY <2>3
    <3>3. Append(attempted \o h \o queue, e) = attempted \o h \o Append(queue, e)
      BY <3>1, AcceptMoves
    <3> QED
      BY <3>2, <3>3
  <2>6. Conservation'
    BY <1>1, <2>4, <2>5 DEF Conservation
  <2> QED
    BY <2>2, <2>6
<1>2. CASE UNCHANGED <<queue, accepted>> /\ dropped' = dropped \cup {e}
  BY <1>2 DEF Publish, Phases, Conservation, Holding
<1> QED
  BY <1>1, <1>2 DEF Publish

(***************************************************************************)
(* Receiving from the channel preserves it,                                *)
(***************************************************************************)
LEMMA ReceiveInv ==
  ASSUME Inv, NEW next \in {"write", "drainWrite"}, Receive(next),
         worker = IF next = "write" THEN "select" ELSE "drain"
  PROVE  PublisherTypeOK' /\ Conservation' /\ Phases'
<1> USE DEF Inv, TypeOK, PublisherTypeOK, Receive
<1>1. /\ Head(queue) \in Events /\ Tail(queue) \in Seq(Events)
      /\ Len(Tail(queue)) = Len(queue) - 1
  BY HeadTailProperties
<1>2. PublisherTypeOK' /\ Phases'
  BY <1>1, LenProperties DEF Phases, Workers
<1>3. Holding = <<>> /\ Holding' = <<Head(queue)>>
  BY <1>1 DEF Phases, Holding
<1>4. Conservation'
  BY <1>1, <1>3, ReceiveMoves DEF Conservation
<1> QED
  BY <1>2, <1>4

(***************************************************************************)
(* and so does every other step of the worker,                             *)
(***************************************************************************)
LEMMA WorkInv ==
  ASSUME Inv, Work
  PROVE  PublisherTypeOK' /\ Conservation' /\ Phases'
<1> USE DEF Inv, TypeOK, PublisherTypeOK
<1>1. CASE Select
  <2>1. CASE Receive("write")
    BY <1>1, <2>1, ReceiveInv DEF Select
  <2>2. CASE /\ stopCh /\ worker' = "drain"
             /\ UNCHANGED <<queue, inHand, stopCh, closer, attempted, accepted,
                            dropped, failed, acceptedAtClose>>
    BY <1>1, <2>2 DEF Select, Phases, Conservation, Holding, Workers
  <2> QED
    BY <1>1, <2>1, <2>2 DEF Select
<1>2. CASE Drain
  <2>1. CASE Receive("drainWrite")
    BY <1>2, <2>1, ReceiveInv DEF Drain
  <2>2. CASE /\ queue = <<>> /\ worker' = "exited"
             /\ UNCHANGED <<queue, inHand, stopCh, closer, attempted, accepted,
                            dropped, failed, acceptedAtClose>>
    <3>1. Holding = <<>>
      BY <1>2 DEF Drain, Phases, Holding
    <3>2. accepted = attempted
      BY <2>2, <3>1, ConcatEmptySeq DEF Conservation
    <3> QED
      BY <1>2, <2>2, <3>2, LenProperties
      DEF Drain, Phases, Conservation, Holding, Workers
  <2> QED
    BY <1>2, <2>1, <2>2 DEF Drain
<1>3. CASE WriteOne
  <2>1. inHand \in Events
    BY <1>3 DEF WriteOne, Phases
  <2>2. attempted' \in Seq(Events) /\ Len(attempted') = Len(attempted) + 1
    BY <1>3, <2>1, AppendProperties DEF WriteOne
  <2>3. PublisherTypeOK' /\ Phases'
    BY <1>3, <2>1, <2>2, LenProperties DEF WriteOne, Phases, Workers
  <2>4. Holding = <<inHand>> /\ Holding' = <<>>
    BY <1>3, <2>1 DEF WriteOne, Holding
  <2>5. Conservation'
    BY <1>3, <2>1, <2>4, WriteMoves DEF WriteOne, Conservation
  <2> QED
    BY <2>3, <2>5
<1> QED
  BY <1>1, <1>2, <1>3 DEF Work

(***************************************************************************)
(* and both ends of Close.                                                 *)
(***************************************************************************)
LEMMA CloseInv ==
  ASSUME Inv, CallClose \/ CloseReturns
  PROVE  PublisherTypeOK' /\ Conservation' /\ Phases'
<1> USE DEF Inv, TypeOK, PublisherTypeOK, workerVars
<1>1. Conservation'
  BY DEF CallClose, CloseReturns, Conservation, Holding
<1>2. CASE CallClose
  BY <1>1, <1>2, LenProperties DEF CallClose, Phases
<1>3. CASE CloseReturns
  BY <1>1, <1>3 DEF CloseReturns, Phases
<1> QED
  BY <1>2, <1>3

(***************************************************************************)
(* Every step of the server preserves the invariant.                       *)
(***************************************************************************)
LEMMA NextInv == Inv /\ [Next]_vars => Inv'
<1> SUFFICES ASSUME Inv, [Next]_vars PROVE Inv'
  OBVIOUS
<1>1. ASSUME UNCHANGED publisherVars
      PROVE  PublisherTypeOK' /\ Conservation' /\ Phases'
  BY <1>1 DEF Inv, TypeOK, PublisherTypeOK, publisherVars, workerVars, Phases,
              Conservation, Holding
<1>2. ASSUME NEW e \in Events, Accept(e) \/ HandlerReturns(e) PROVE Inv'
  BY <1>1, <1>2, PublishInv DEF Accept, HandlerReturns, process, Inv, TypeOK
<1>3. ASSUME Startup PROVE Inv'
  BY <1>1, <1>3
  DEF Startup, Connect, Migrate, PingRedis, BuildAudit, StartServing, Defer, Panic,
      Inv, TypeOK, Resources, Calls
<1>4. ASSUME Signal \/ SignalKills \/ ListenFails \/ ShutdownReturns
             \/ ShutdownTimesOut \/ UNCHANGED vars
      PROVE  Inv'
  BY <1>1, <1>4
  DEF Signal, SignalKills, ListenFails, ShutdownReturns, ShutdownTimesOut, Panic,
      vars, process, Inv, TypeOK
<1>5. ASSUME CloseAudit \/ WorkerStep PROVE Inv'
  BY <1>5, WorkInv, CloseInv DEF CloseAudit, WorkerStep, process, Inv, TypeOK
<1>6. ASSUME StopCatching \/ CloseWriter \/ Exit
             \/ \E s \in {"redis", "db"} : CloseStore(s)
      PROVE  Inv'
  BY <1>1, <1>6 DEF StopCatching, CloseWriter, CloseStore, Exit, Inv, TypeOK
<1> QED
  BY <1>2, <1>3, <1>4, <1>5, <1>6 DEF Next, Closing, Idle

(***************************************************************************)
(* The inductive invariant of the publisher holds in every run of the      *)
(* server.                                                                 *)
(***************************************************************************)
THEOREM Invariance == Spec => []Inv
  BY InitInv, NextInv, PTL DEF Spec

(***************************************************************************)
(* The state of the server is well typed in every run; in particular the   *)
(* channel never holds more than it was made for.                          *)
(***************************************************************************)
THEOREM TypeCorrect == Spec => []TypeOK
<1>1. Inv => TypeOK
  BY DEF Inv
<1> QED
  BY <1>1, Invariance, PTL

(***************************************************************************)
(* Between the handlers and Kafka no audit event is lost, doubled or       *)
(* reordered, in any run of the server.                                    *)
(***************************************************************************)
THEOREM EventsAreConserved == Spec => []Conservation
<1>1. Inv => Conservation
  BY DEF Inv
<1> QED
  BY <1>1, Invariance, PTL

(***************************************************************************)
(* Close returns only when everything accepted before it was called has    *)
(* been handed to Kafka.                                                   *)
(***************************************************************************)
THEOREM CloseIsAFlush == Spec => []CloseFlushes
<1>1. Inv => CloseFlushes
  BY DEF Inv, Phases, CloseFlushes
<1> QED
  BY <1>1, Invariance, PTL

-----------------------------------------------------------------------------

(***************************************************************************)
(* How far main is.  Before the publisher is built nothing was served.     *)
(* While main serves, or waits in Shutdown, the stores are open and it     *)
(* catches signals.  Close is called on the way out only, by the deferred  *)
(* call that is not dropped before Close has returned.  Unless main        *)
(* panicked, a handler runs only while main serves or waits, so that       *)
(* nothing is accepted once Close was called.                              *)
(***************************************************************************)
Starting == {"connect", "migrate", "ping", "build"}
Ending   == {"closing", "exited", "killed"}

Lifecycle ==
  /\ main \in Starting => /\ publisher = "none"
                          /\ \A e \in Events : handler[e] = "none"
  /\ main \in {"serving", "shutdown"} => /\ "signals" \in deferred
                                        /\ {"db", "redis"} \subseteq open
  /\ main \notin Ending \cup {"serving", "shutdown"} =>
       \A e \in Events : handler[e] = "none"
  /\ main \in Ending /\ ~panicked => \A e \in Events : handler[e] # "running"
  /\ closer # "none" => main \in Ending /\ publisher = "async"
  /\ publisher = "async" => "audit" \in deferred \/ closer = "returned"
  /\ closer # "none" /\ ~panicked => acceptedAtClose = Len(accepted)
  /\ main = "exited" => deferred = {}
  /\ \A e \in Events : handler[e] = "done" => Published(e) \/ publisher = "noop"

(***************************************************************************)
(* Which deferred call closes what is open.  The client of a Redis that    *)
(* did not answer the first Ping has none, and main has panicked then.     *)
(***************************************************************************)
Ownership ==
  /\ main \in {"migrate", "ping"} => "db" \in open
  /\ main \in {"build", "route"} => {"db", "redis"} \subseteq open
  /\ "db" \in open => "db" \in deferred
  /\ "writer" \in open => "audit" \in deferred
  /\ "redis" \in open =>
       "redis" \in deferred \/ (main \in Ending /\ panicked /\ publisher = "none")
  /\ publisher = "async" /\ worker # "exited" => "writer" \in open

(***************************************************************************)
(* A published event is published for ever.                                *)
(***************************************************************************)
LEMMA PublishedStays ==
  ASSUME Inv, NEW e \in Events, Publish(e)
  PROVE  Published(e)' /\ \A f \in Events : Published(f) => Published(f)'
<1>1. CASE Len(queue) < QueueSize /\ accepted' = Append(accepted, e)
                                  /\ UNCHANGED dropped
  <2>1. /\ Len(accepted') = Len(accepted) + 1
        /\ accepted \in Seq(Events) /\ accepted' \in Seq(Events)
        /\ accepted'[Len(accepted) + 1] = e
        /\ \A i \in 1 .. Len(accepted) : accepted'[i] = accepted[i]
    BY <1>1, AppendProperties DEF Inv, TypeOK, PublisherTypeOK
  <2>2. /\ DOMAIN accepted = 1 .. Len(accepted) /\ Len(accepted) \in Nat
        /\ DOMAIN accepted' = 1 .. Len(accepted')
    BY <2>1, LenProperties
  <2> QED
    BY <1>1, <2>1, <2>2 DEF Published
<1>2. CASE dropped' = dropped \cup {e} /\ UNCHANGED accepted
  BY <1>2 DEF Published
<1> QED
  BY <1>1, <1>2 DEF Publish

(***************************************************************************)
(* Every step preserves the life cycle of main; in particular a handler    *)
(* that returns late finds Close called only after a panic.                *)
(***************************************************************************)
LEMMA NextLifecycle == Inv /\ Lifecycle /\ Ownership /\ [Next]_vars => Lifecycle'
<1> SUFFICES ASSUME Inv, Lifecycle, Ownership, [Next]_vars PROVE Lifecycle'
  OBVIOUS
<1> USE DEF Lifecycle, Starting, Ending
<1>1. ASSUME NEW e \in Events, Accept(e) PROVE Lifecycle'
  BY <1>1 DEF Accept, publisherVars, process, Published, Inv, TypeOK
<1>2. ASSUME NEW e \in Events, HandlerReturns(e) PROVE Lifecycle'
  <2>1. closer = "none" \/ panicked
    BY <1>2 DEF HandlerReturns, Gone
  <2>2. \A f \in Events : handler'[f] = IF f = e THEN "done" ELSE handler[f]
    BY <1>2 DEF HandlerReturns, Inv, TypeOK
  <2>3. CASE publisher = "async" /\ Publish(e)
    BY <1>2, <2>1, <2>2, <2>3, PublishedStays DEF HandlerReturns, Publish, process
  <2>4. CASE publisher = "noop" /\ UNCHANGED publisherVars
    BY <1>2, <2>2, <2>4 DEF HandlerReturns, publisherVars, process
  <2> QED
    BY <1>2, <2>3, <2>4 DEF HandlerReturns
<1>3. ASSUME Startup PROVE Lifecycle'
  BY <1>3
  DEF Startup, Connect, Migrate, PingRedis, BuildAudit, StartServing, Defer, Panic,
      publisherVars, Published, Ownership, Inv, Phases
<1>4. ASSUME Signal \/ SignalKills \/ ListenFails \/ ShutdownReturns
             \/ ShutdownTimesOut \/ UNCHANGED vars
      PROVE  Lifecycle'
  BY <1>4
  DEF Signal, SignalKills, ListenFails, ShutdownReturns, ShutdownTimesOut, Panic,
      Gone, Running, vars, process, publisherVars, Published, Inv, TypeOK
<1>5. ASSUME CloseAudit PROVE Lifecycle'
  BY <1>5 DEF CloseAudit, LastDeferred, CallClose, CloseReturns, process, Published,
              Inv, Phases
<1>6. ASSUME WorkerStep PROVE Lifecycle'
  <2>1. UNCHANGED <<closer, accepted, dropped, acceptedAtClose>>
    BY <1>6 DEF WorkerStep, Work, Select, Drain, WriteOne, Receive
  <2> QED
    BY <1>6, <2>1 DEF WorkerStep, process, Published
<1>7. ASSUME StopCatching \/ CloseWriter \/ Exit
             \/ \E s \in {"redis", "db"} : CloseStore(s)
      PROVE  Lifecycle'
  BY <1>7 DEF StopCatching, CloseWriter, CloseStore, Exit, LastDeferred,
              publisherVars, Published
<1> QED
  BY <1>1, <1>2, <1>3, <1>4, <1>5, <1>6, <1>7 DEF Next, Closing, Idle

(***************************************************************************)
(* Every step keeps what is open in the hands of a deferred call.          *)
(***************************************************************************)
LEMMA NextOwnership == Inv /\ Lifecycle /\ Ownership /\ [Next]_vars => Ownership'
<1> SUFFICES ASSUME Inv, Lifecycle, Ownership, [Next]_vars PROVE Ownership'
  OBVIOUS
<1> USE DEF Ownership, Ending
<1>1. ASSUME NEW e \in Events, Accept(e) \/ HandlerReturns(e) PROVE Ownership'
  BY <1>1 DEF Accept, HandlerReturns, Publish, workerVars, publisherVars, process
<1>2. ASSUME Startup PROVE Ownership'
  BY <1>2
  DEF Startup, Connect, Migrate, PingRedis, BuildAudit, StartServing, Defer, Panic,
      publisherVars, workerVars, Lifecycle, Starting
<1>3. ASSUME Signal \/ SignalKills \/ ListenFails \/ ShutdownReturns
             \/ ShutdownTimesOut \/ UNCHANGED vars
      PROVE  Ownership'
  BY <1>3
  DEF Signal, SignalKills, ListenFails, ShutdownReturns, ShutdownTimesOut, Panic,
      vars, process, publisherVars, workerVars
<1>4. ASSUME CloseAudit PROVE Ownership'
  BY <1>4 DEF CloseAudit, CallClose, CloseReturns, workerVars, process
<1>5. ASSUME WorkerStep PROVE Ownership'
  <2>1. worker' # "exited" => worker # "exited"
    BY <1>5 DEF WorkerStep, Work, Select, Drain, WriteOne
  <2> QED
    BY <1>5, <2>1 DEF WorkerStep, process
<1>6. ASSUME StopCatching \/ CloseWriter \/ Exit
             \/ \E s \in {"redis", "db"} : CloseStore(s)
      PROVE  Ownership'
  BY <1>6 DEF StopCatching, CloseWriter, CloseStore, Exit, LastDeferred,
              publisherVars, workerVars, Inv, Phases
<1> QED
  BY <1>1, <1>2, <1>3, <1>4, <1>5, <1>6 DEF Next, Closing, Idle

(***************************************************************************)
(* Initially nothing is open, and no handler has run.                      *)
(***************************************************************************)
LEMMA InitLifecycle == Init => Lifecycle /\ Ownership
  BY DEF Init, InitPublisher, Lifecycle, Ownership, Starting, Ending

(***************************************************************************)
(* The life cycle of the process is as main lays it out, in every run.     *)
(***************************************************************************)
LEMMA LifecycleHolds == Spec => [](Inv /\ Lifecycle /\ Ownership)
  BY InitInv, NextInv, InitLifecycle, NextLifecycle, NextOwnership, PTL DEF Spec

(***************************************************************************)
(* On a clean exit the channel is empty, so that what was accepted is what *)
(* was attempted.                                                          *)
(***************************************************************************)
LEMMA ExitFacts == Inv /\ Lifecycle => CleanExitLosesNothing
<1> SUFFICES ASSUME Inv, Lifecycle, main = "exited", ~panicked,
                    NEW e \in Events, handler[e] # "none"
             PROVE  /\ handler[e] = "done"
                    /\ publisher = "async" => Attempted(e) \/ e \in dropped
  BY DEF CleanExitLosesNothing
<1>1. handler[e] = "done" /\ (Published(e) \/ publisher = "noop")
  BY DEF Lifecycle, Ending, Inv, TypeOK
<1> SUFFICES ASSUME publisher = "async" PROVE Attempted(e) \/ e \in dropped
  BY <1>1
<1>2. Len(attempted) >= Len(accepted) /\ Holding = <<>>
  BY DEF Lifecycle, Inv, Phases, Holding
<1>3. attempted \in Seq(Events) /\ queue \in Seq(Events)
  BY DEF Inv, TypeOK, PublisherTypeOK
<1>4. accepted = attempted \o queue
  BY <1>2, <1>3, ConcatEmptySeq DEF Inv, Conservation
<1>5. Len(accepted) = Len(attempted) + Len(queue)
  BY <1>3, <1>4, ConcatProperties
<1>6. Len(queue) = 0
  BY <1>2, <1>3, <1>5, LenProperties
<1>7. queue = <<>>
  BY <1>3, <1>6, EmptySeq
<1>8. accepted = attempted
  BY <1>3, <1>4, <1>7, ConcatEmptySeq
<1> QED
  BY <1>1, <1>8 DEF Published, Attempted

(***************************************************************************)
(* A server that stops cleanly has handed every audit event to Kafka, or   *)
(* has logged that it dropped it.                                          *)
(***************************************************************************)
THEOREM CleanExit == Spec => []CleanExitLosesNothing
  BY LifecycleHolds, ExitFacts, PTL

(***************************************************************************)
(* A handler finds the stores open, unless main panicked, and the worker   *)
(* finds the Kafka writer open, always.                                    *)
(***************************************************************************)
THEOREM NothingIsUsedClosed == Spec => []UsersFindItOpen
<1>1. Inv /\ Lifecycle /\ Ownership => UsersFindItOpen
  BY DEF Inv, TypeOK, Lifecycle, Ownership, Ending, UsersFindItOpen, Running
<1> QED
  BY <1>1, LifecycleHolds, PTL

(***************************************************************************)
(* Wherever the start or the shutdown fails, main leaves nothing open but  *)
(* the client of a Redis that never answered.                              *)
(***************************************************************************)
THEOREM EverythingIsClosed == Spec => []ExitClosesEverything
<1>1. Inv /\ Lifecycle /\ Ownership => ExitClosesEverything
  BY DEF Inv, TypeOK, Resources, Lifecycle, Ownership, ExitClosesEverything
<1> QED
  BY <1>1, LifecycleHolds, PTL

-----------------------------------------------------------------------------

(***************************************************************************)
(* The pending events of the abstract queue, and what is in it altogether: *)
(* the events accepted so far.                                             *)
(***************************************************************************)
LEMMA PendingFacts ==
  ASSUME Inv
  PROVE  /\ Holding \in Seq(Events) /\ Holding \o queue \in Seq(Events)
         /\ Len(Holding \o queue) = Len(Holding) + Len(queue)
         /\ Len(Holding) \in Nat
         /\ attempted \o (Holding \o queue) = accepted
         /\ Len(attempted) + Len(Holding \o queue) = Len(accepted)
<1>1. attempted \in Seq(Events) /\ queue \in Seq(Events)
  BY DEF Inv, TypeOK, PublisherTypeOK
<1>2. Holding \in Seq(Events)
  BY DEF Inv, TypeOK, PublisherTypeOK, Holding
<1>3. PICK h \in Seq(Events) : h = Holding
  BY <1>2
<1>4. /\ h \o queue \in Seq(Events) /\ Len(h \o queue) = Len(h) + Len(queue)
      /\ Len(h) \in Nat
      /\ attempted \o (h \o queue) = attempted \o h \o queue
      /\ Len(attempted \o (h \o queue)) = Len(attempted) + Len(h \o queue)
  BY <1>1, ConcatProperties, ConcatAssociative, LenProperties
<1> QED
  BY <1>3, <1>4 DEF Inv, Conservation

(***************************************************************************)
(* An event nobody published is new to the abstract queue.                 *)
(***************************************************************************)
LEMMA UnpublishedIsUnseen ==
  ASSUME Inv, NEW e \in Events
  PROVE  Abstract!Seen(e) <=> Published(e)
  BY PendingFacts DEF Abstract!Seen, Published

(***************************************************************************)
(* Publish accepts or refuses.                                             *)
(***************************************************************************)
LEMMA PublishRefines ==
  ASSUME Inv, NEW e \in Events, Publish(e)
  PROVE  Abstract!Next
<1>1. ~Abstract!Seen(e)
  BY UnpublishedIsUnseen DEF Publish
<1>2. Holding' = Holding /\ UNCHANGED <<attempted, closer, acceptedAtClose, ClosingMap>>
  BY DEF Publish, workerVars, Holding, ClosingMap
<1>3. CASE queue' = Append(queue, e) /\ UNCHANGED dropped
  <2>1. PICK h \in Seq(Events) : h = Holding
    BY PendingFacts
  <2>2. queue \in Seq(Events) /\ <<e>> \in Seq(Events) /\ h \o queue \in Seq(Events)
    BY <2>1, PendingFacts DEF Inv, TypeOK, PublisherTypeOK
  <2>3. h \o Append(queue, e) = Append(h \o queue, e)
    BY <2>1, <2>2, AppendIsConcat, ConcatAssociative
  <2>4. Abstract!Accept(e)
    BY <1>1, <1>2, <1>3, <2>1, <2>3 DEF Abstract!Accept
  <2> QED
    BY <2>4 DEF Abstract!Next
<1>4. CASE Len(queue) >= QueueSize /\ dropped' = dropped \cup {e} /\ UNCHANGED queue
  <2>1. Len(queue) \in Nat
    BY LenProperties DEF Inv, TypeOK, PublisherTypeOK
  <2>2. Len(Holding \o queue) >= QueueSize
    BY <1>4, <2>1, PendingFacts
  <2>3. Abstract!Refuse(e)
    BY <1>1, <1>2, <1>4, <2>2 DEF Abstract!Refuse
  <2> QED
    BY <2>3 DEF Abstract!Next
<1> QED
  BY <1>3, <1>4 DEF Publish

(***************************************************************************)
(* What the worker does before it writes is invisible, and the attempt to  *)
(* write hands the first pending event on.                                 *)
(***************************************************************************)
LEMMA ReceiveIsInvisible ==
  ASSUME Inv, NEW next, Receive(next), Holding = <<>>
  PROVE  Holding' \o queue' = Holding \o queue
<1>1. /\ queue \in Seq(Events) /\ queue # <<>> /\ Head(queue) \in Events
  BY HeadTailProperties DEF Inv, TypeOK, PublisherTypeOK, Receive
<1>2. Holding' = <<Head(queue)>> /\ queue' = Tail(queue)
  BY <1>1 DEF Receive, Holding
<1>3. <<>> \o queue = <<Head(queue)>> \o Tail(queue)
  BY <1>1, SplitHead, ConcatEmptySeq
<1> QED
  BY <1>2, <1>3

LEMMA WorkRefines ==
  ASSUME Inv, Work
  PROVE  Abstract!Next \/ UNCHANGED Abstract!vars
<1>1. CASE Select \/ Drain
  <2>1. Holding = <<>>
    BY <1>1 DEF Select, Drain, Inv, Phases, Holding
  <2>2. UNCHANGED <<attempted, dropped, closer, acceptedAtClose>>
    BY <1>1 DEF Select, Drain, Receive
  <2>3. Holding' \o queue' = Holding \o queue
    <3>1. CASE Receive("write") \/ Receive("drainWrite")
      BY <2>1, <3>1, ReceiveIsInvisible
    <3>2. CASE UNCHANGED <<queue, inHand>>
      BY <3>2 DEF Holding
    <3> QED
      BY <1>1, <3>1, <3>2 DEF Select, Drain
  <2> QED
    BY <2>2, <2>3 DEF Abstract!vars, ClosingMap
<1>2. CASE WriteOne
  <2>1. inHand \in Events /\ queue \in Seq(Events)
    BY <1>2 DEF WriteOne, Inv, Phases, TypeOK, PublisherTypeOK
  <2>2. Holding = <<inHand>> /\ Holding' = <<>>
    BY <1>2, <2>1 DEF WriteOne, Holding
  <2>3. /\ <<inHand>> \o queue # <<>>
        /\ Head(<<inHand>> \o queue) = inHand
        /\ Tail(<<inHand>> \o queue) = <<>> \o queue
    <3>1. <<inHand>> \in Seq(Events)
      BY <2>1
    <3> QED
      BY <2>1, <3>1
  <2>4. UNCHANGED <<queue, dropped, closer, acceptedAtClose>>
        /\ attempted' = Append(attempted, inHand)
    BY <1>2 DEF WriteOne
  <2>5. Abstract!HandOn
    BY <2>2, <2>3, <2>4 DEF Abstract!HandOn, ClosingMap
  <2> QED
    BY <2>5 DEF Abstract!Next
<1> QED
  BY <1>1, <1>2 DEF Work

(***************************************************************************)
(* Close is called, and returns when all that was pending then is sent.    *)
(***************************************************************************)
LEMMA CloseRefines ==
  ASSUME Inv, CallClose \/ CloseReturns
  PROVE  Abstract!Next
<1>1. UNCHANGED <<queue, attempted, dropped, Holding>>
  BY DEF CallClose, CloseReturns, workerVars, Holding
<1>2. CASE CallClose
  <2>1. Abstract!Close
    BY <1>1, <1>2, PendingFacts DEF CallClose, Abstract!Close, ClosingMap
  <2> QED
    BY <2>1 DEF Abstract!Next
<1>3. CASE CloseReturns
  <2>1. Abstract!Closed
    BY <1>1, <1>3 DEF CloseReturns, Abstract!Closed, ClosingMap, Inv, Phases
  <2> QED
    BY <2>1 DEF Abstract!Next
<1> QED
  BY <1>2, <1>3

(***************************************************************************)
(* Every step of the server is one of the abstract queue, or invisible.    *)
(***************************************************************************)
LEMMA NextImplements == Inv /\ [Next]_vars => [Abstract!Next]_(Abstract!vars)
<1> SUFFICES ASSUME Inv, [Next]_vars
             PROVE  Abstract!Next \/ UNCHANGED Abstract!vars
  OBVIOUS
<1>1. ASSUME UNCHANGED publisherVars PROVE UNCHANGED Abstract!vars
  BY <1>1 DEF publisherVars, workerVars, Abstract!vars, Holding, ClosingMap
<1> QED
  BY <1>1, PublishRefines, WorkRefines, CloseRefines
  DEF Next, Startup, Connect, Migrate, PingRedis, BuildAudit, StartServing, Accept,
      HandlerReturns, Signal, SignalKills, ListenFails, ShutdownReturns,
      ShutdownTimesOut, Closing, StopCatching, CloseAudit, CloseWriter, CloseStore,
      Exit, WorkerStep, Idle, vars

(***************************************************************************)
(* The publisher in the server implements the lossy queue it promises.     *)
(***************************************************************************)
THEOREM PublisherRefinesLossyQueue == Spec => ImplementsLossyQueue
<1>1. Init => Abstract!Init
  BY EmptySeq, ConcatEmptySeq
  DEF Init, InitPublisher, Holding, ClosingMap, Abstract!Init
<1> QED
  BY <1>1, NextImplements, Invariance, PTL
  DEF Spec, ImplementsLossyQueue, Abstract!Spec

=============================================================================
