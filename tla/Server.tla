------------------------------- MODULE Server -------------------------------
(***************************************************************************)
(* The life of the server process (cmd/server/main.go) around the audit    *)
(* publisher: main opens what the handlers use, deferring the call that    *)
(* closes it, and serves until a signal arrives; Shutdown waits five       *)
(* seconds for the requests in flight, and the deferred calls run, the     *)
(* last one first.  Any step of the start may fail: main panics, and what  *)
(* was deferred so far runs.                                               *)
(*                                                                         *)
(* The requests modelled are those that reach the authentication service:  *)
(* each publishes one event, as its handler returns.                       *)
(***************************************************************************)
EXTENDS AsyncPublisher

VARIABLES
  main,       \* the main goroutine
  handler,    \* the goroutine of each request, named by its event
  panicked,   \* did main leave by a panic?
  publisher,  \* what buildAuditPublisher made
  open,       \* the resources that are open
  deferred    \* the deferred calls: what they close, or undo

process == <<main, panicked, open, deferred>>
vars == <<publisherVars, handler, publisher, process>>

Init ==
  /\ InitPublisher
  /\ main = "connect"
  /\ handler = [e \in Events |-> "none"]
  /\ panicked = FALSE
  /\ publisher = "none"
  /\ open = {}
  /\ deferred = {}

Running == {e \in Events : handler[e] = "running"}

Gone == main \in {"exited", "killed"}

Panic == main' = "closing" /\ panicked' = TRUE

Defer(next, call) ==
  /\ main' = next
  /\ deferred' = deferred \cup {call}
  /\ UNCHANGED panicked

-----------------------------------------------------------------------------

(* gorm.Open.                                                              *)
Connect ==
  /\ main = "connect"
  /\ \/ Defer("migrate", "db") /\ open' = open \cup {"db"}
     \/ Panic /\ UNCHANGED <<open, deferred>>
  /\ UNCHANGED <<publisherVars, handler, publisher>>

(* AutoMigrate.                                                            *)
Migrate ==
  /\ main = "migrate"
  /\ (main' = "ping" /\ UNCHANGED panicked) \/ Panic
  /\ UNCHANGED <<publisherVars, handler, publisher, open, deferred>>

(* The client is made before the Ping, and its Close deferred after it.    *)
PingRedis ==
  /\ main = "ping"
  /\ open' = open \cup {"redis"}
  /\ Defer("build", "redis") \/ (Panic /\ UNCHANGED deferred)
  /\ UNCHANGED <<publisherVars, handler, publisher>>

(***************************************************************************)
(* buildAuditPublisher: Kafka may be switched off, or misconfigured.  Its  *)
(* worker, which starts here, has nothing to do before.                    *)
(***************************************************************************)
BuildAudit ==
  /\ main = "build"
  /\ \/ /\ publisher' = "async"
        /\ open' = open \cup {"writer"}
        /\ Defer("route", "audit")
     \/ /\ publisher' = "noop"
        /\ Defer("route", "audit")
        /\ UNCHANGED open
     \/ Panic /\ UNCHANGED <<publisher, open, deferred>>
  /\ UNCHANGED <<publisherVars, handler>>

(* The logger, which may panic, the routes, the listener, NotifyContext.   *)
StartServing ==
  /\ main = "route"
  /\ Defer("serving", "signals") \/ (Panic /\ UNCHANGED deferred)
  /\ UNCHANGED <<publisherVars, handler, publisher, open>>

-----------------------------------------------------------------------------

(* A request arrives while the listener is open.                           *)
Accept(e) ==
  /\ main = "serving"
  /\ handler[e] = "none"
  /\ handler' = [handler EXCEPT ![e] = "running"]
  /\ UNCHANGED <<publisherVars, publisher, process>>

(***************************************************************************)
(* A handler returns: its deferred publish, then its response.  Nothing    *)
(* stops the handlers that are still running when main has panicked, until *)
(* the process is gone.                                                    *)
(***************************************************************************)
HandlerReturns(e) ==
  /\ ~Gone
  /\ handler[e] = "running"
  /\ handler' = [handler EXCEPT ![e] = "done"]
  /\ \/ publisher = "async" /\ Publish(e)
     \/ publisher = "noop" /\ UNCHANGED publisherVars
  /\ UNCHANGED <<publisher, process>>

(* SIGINT or SIGTERM: Shutdown closes the listener and starts to wait.     *)
Signal ==
  /\ main = "serving"
  /\ main' = "shutdown"
  /\ UNCHANGED <<publisherVars, handler, publisher, panicked, open, deferred>>

(***************************************************************************)
(* Such a signal has its default effect while nobody catches it: during    *)
(* the start, and from the deferred stop() on, which runs before the audit *)
(* publisher is closed.                                                    *)
(***************************************************************************)
SignalKills ==
  /\ ~Gone
  /\ "signals" \notin deferred
  /\ main' = "killed"
  /\ UNCHANGED <<publisherVars, handler, publisher, panicked, open, deferred>>

(* ListenAndServe fails: main panics, with requests in flight perhaps.     *)
ListenFails ==
  /\ main = "serving"
  /\ Panic
  /\ UNCHANGED <<publisherVars, handler, publisher, open, deferred>>

(* Mutant: a shutdown that does not wait for the requests in flight.       *)
ShutdownAtOnce ==
  /\ main = "shutdown"
  /\ main' = "closing"
  /\ UNCHANGED <<publisherVars, handler, publisher, panicked, open, deferred>>

ShutdownReturns ==
  /\ main = "shutdown"
  /\ Running = {}
  /\ main' = "closing"
  /\ UNCHANGED <<publisherVars, handler, publisher, panicked, open, deferred>>

(* Mutant: Shutdown without a deadline.                                    *)
ShutdownWaitsForEver ==
  /\ main = "shutdown"
  /\ Running = {}
  /\ Panic
  /\ UNCHANGED <<publisherVars, handler, publisher, open, deferred>>

(***************************************************************************)
(* Five seconds are over, and when Shutdown looked last some request was   *)
(* still in flight: it fails, and main panics; the deferred calls run all  *)
(* the same.                                                               *)
(***************************************************************************)
ShutdownTimesOut ==
  /\ main = "shutdown"
  /\ Panic
  /\ UNCHANGED <<publisherVars, handler, publisher, open, deferred>>

-----------------------------------------------------------------------------

(***************************************************************************)
(* The deferred calls, in the reverse order of the defer statements.       *)
(***************************************************************************)
LastDeferred(call) ==
  /\ main = "closing"
  /\ call \in deferred
  /\ \/ call = "signals"
     \/ call = "audit" /\ "signals" \notin deferred
     \/ call = "redis" /\ deferred \cap {"signals", "audit"} = {}
     \/ call = "db"    /\ deferred \cap {"signals", "audit", "redis"} = {}

StopCatching ==
  /\ LastDeferred("signals")
  /\ deferred' = deferred \ {"signals"}
  /\ UNCHANGED <<publisherVars, handler, publisher, main, panicked, open>>

(* The deferred closeAudit closes the publisher,                           *)
CloseAudit ==
  /\ LastDeferred("audit")
  /\ publisher = "async"
  /\ CallClose \/ CloseReturns
  /\ UNCHANGED <<handler, publisher, process>>

(* Mutant: the writer closed first, while the worker still drains.         *)
CloseWriterFirst ==
  /\ LastDeferred("audit")
  /\ \/ "writer" \in open /\ open' = open \ {"writer"} /\ UNCHANGED deferred
     \/ "writer" \notin open /\ publisher = "async" => closer = "returned"
        /\ deferred' = deferred \ {"audit"} /\ UNCHANGED open
  /\ UNCHANGED <<publisherVars, handler, publisher, main, panicked>>

(* and then the Kafka writer.                                              *)
CloseWriter ==
  /\ LastDeferred("audit")
  /\ publisher = "async" => closer = "returned"
  /\ open' = open \ {"writer"}
  /\ deferred' = deferred \ {"audit"}
  /\ UNCHANGED <<publisherVars, handler, publisher, main, panicked>>

(* Mutant: a store that is not closed.                                     *)
CloseNothing(s) ==
  /\ LastDeferred(s)
  /\ deferred' = deferred \ {s}
  /\ UNCHANGED <<publisherVars, handler, publisher, main, panicked, open>>

CloseStore(s) ==
  /\ LastDeferred(s)
  /\ open' = open \ {s}
  /\ deferred' = deferred \ {s}
  /\ UNCHANGED <<publisherVars, handler, publisher, main, panicked>>

Exit ==
  /\ main = "closing"
  /\ deferred = {}
  /\ main' = "exited"
  /\ UNCHANGED <<publisherVars, handler, publisher, panicked, open, deferred>>

WorkerStep ==
  /\ ~Gone
  /\ Work
  /\ UNCHANGED <<handler, publisher, process>>

(* The process is gone, or the server idles.                               *)
Idle ==
  /\ Gone \/ (main = "serving" /\ Running = {})
  /\ UNCHANGED vars

Startup == Connect \/ Migrate \/ PingRedis \/ BuildAudit \/ StartServing

Closing == \/ StopCatching
           \/ CloseAudit
           \/ CloseWriter
           \/ \E s \in {"redis", "db"} : CloseStore(s)
           \/ Exit

Next ==
  \/ Startup
  \/ \E e \in Events : Accept(e) \/ HandlerReturns(e)
  \/ Signal
  \/ SignalKills
  \/ ListenFails
  \/ ShutdownReturns
  \/ ShutdownTimesOut
  \/ Closing
  \/ WorkerStep
  \/ Idle

Spec == Init /\ [][Next]_vars

(***************************************************************************)
(* Once main has left its select it runs to the end (Shutdown has a        *)
(* deadline), and the worker is scheduled and its writes have a deadline.  *)
(* A store need not answer a main that starts, a handler need not return,  *)
(* and no signal need come.                                                *)
(***************************************************************************)
MainSteps == ShutdownReturns \/ ShutdownTimesOut \/ Closing

FairSpec == Spec /\ WF_vars(MainSteps) /\ WF_vars(WorkerStep)

-----------------------------------------------------------------------------

Resources == {"db", "redis", "writer"}
Calls == {"db", "redis", "audit", "signals"}

TypeOK ==
  /\ PublisherTypeOK
  /\ main \in {"connect", "migrate", "ping", "build", "route", "serving",
               "shutdown", "closing", "exited", "killed"}
  /\ handler \in [Events -> {"none", "running", "done"}]
  /\ panicked \in BOOLEAN
  /\ publisher \in {"none", "async", "noop"}
  /\ open \subseteq Resources
  /\ deferred \subseteq Calls

Attempted(e) == \E i \in DOMAIN attempted : attempted[i] = e

(***************************************************************************)
(* A clean shutdown loses no audit event: when main leaves without a panic *)
(* every request that was accepted has returned, and its event was handed  *)
(* to Kafka or refused, with a log line, by a full queue.                  *)
(***************************************************************************)
CleanExitLosesNothing ==
  main = "exited" /\ ~panicked =>
    \A e \in Events : handler[e] # "none" =>
      /\ handler[e] = "done"
      /\ publisher = "async" => Attempted(e) \/ e \in dropped

(***************************************************************************)
(* Nobody uses what was closed.  Unless main panicked, the stores are open *)
(* as long as a handler runs; and the Kafka writer is open, panic or not,  *)
(* as long as the worker may write to it.                                  *)
(***************************************************************************)
UsersFindItOpen ==
  /\ Running # {} /\ ~panicked => {"db", "redis"} \subseteq open
  /\ worker # "exited" /\ publisher = "async" => "writer" \in open

(***************************************************************************)
(* "Graceful exit": main leaves nothing open behind it, by a panic or not, *)
(* wherever the start failed, but for the client of a Redis that did not   *)
(* answer the first Ping, whose Close was not deferred yet.                *)
(***************************************************************************)
ExitClosesEverything ==
  main = "exited" =>
    \/ open = {}
    \/ open = {"redis"} /\ panicked /\ publisher = "none"

(***************************************************************************)
(* The process gets rid of itself: a server told to stop exits, whatever   *)
(* the requests in flight and Kafka do, or a second signal kills it.       *)
(***************************************************************************)
ShutdownEnds == main = "shutdown" ~> Gone

(***************************************************************************)
(* While the server lives, an accepted event does not wait for ever.       *)
(***************************************************************************)
AcceptedIsAttempted ==
  \A e \in Events :
    Published(e) /\ e \notin dropped ~> Attempted(e) \/ Gone

(***************************************************************************)
(* "Every audit must be executed in full": an event whose Publish returned *)
(* without the log line of a full queue reaches the Kafka writer before    *)
(* the process exits.                                                      *)
(***************************************************************************)
EveryAuditIsExecuted ==
  main = "exited" =>
    \A e \in Events : Published(e) => Attempted(e) \/ e \in dropped

(***************************************************************************)
(* To its callers the publisher is a LossyQueue: what is pending is what   *)
(* the worker holds and what the channel holds.                            *)
(***************************************************************************)
ClosingMap ==
  [none |-> "open", waiting |-> "closing", returned |-> "closed"][closer]

Abstract == INSTANCE LossyQueue WITH
  Items <- Events, Room <- QueueSize, pending <- Holding \o queue,
  sent <- attempted, refused <- dropped, closing <- ClosingMap,
  due <- acceptedAtClose

ImplementsLossyQueue == Abstract!Spec

=============================================================================
