-------------------------------- MODULE Server --------------------------------
(***************************************************************************)
(* The life of the server process: run() opens its dependencies one by one *)
(* and defers closing them, starts the consumer and the HTTP server, and   *)
(* waits for an error of either or for a signal.  A signal cancels the     *)
(* consumer and drains the requests within a time limit.  Then the         *)
(* deferred calls close everything in the opposite order, and the process  *)
(* exits, whatever is still running in it.                                 *)
(*                                                                         *)
(* Of the dependencies, two are used with care: closing the PostgreSQL     *)
(* pool waits for the connections in use, and the image classifier has a   *)
(* mutex.  A call of another one that is closed fails.                     *)
(***************************************************************************)
EXTENDS Naturals, Sequences, FiniteSets

CONSTANTS
  Handlers,    \* HTTP requests
  NoHandler,
  MaxAttempts, \* mcpConnectAttempts and rabbitMQConnectAttempts
  MaxJobs      \* bound of the deliveries

ASSUME ServerAssumption ==
  /\ NoHandler \notin Handlers
  /\ MaxAttempts \in Nat \ {0}
  /\ MaxJobs \in Nat

\* In the order in which run() opens them.  A request uses the model, Redis and the
\* broker in the same way.
Resources == <<"image", "pool", "model", "redis", "rabbit">>
Retried == {"model", "rabbit"}

VARIABLES
  main,      \* where run() is
  opened,    \* how many resources have been opened and not closed
  attempt,   \* attempts to connect to the next one
  refusing,  \* the pool gives out no more connections
  classifier,\* the handler that holds the mutex of the classifier
  deadline,  \* of the shutdown: "none", "running" or "over"
  cancelled, \* rabbitMQCancel was called
  consumer,  \* the consumer loop
  http,      \* the HTTP server: "off", "on", "closed" or "failed"
  handler,   \* where each request is
  jobs,      \* deliveries so far
  hit,       \* somebody met a resource that was closed
  status     \* what run() returns

vars == <<main, opened, attempt, refusing, classifier, deadline, cancelled, consumer, http,
          handler, jobs, hit, status>>

procVars == <<classifier, consumer, http, handler, jobs, hit>>
mainVars == <<opened, attempt, refusing, deadline, cancelled, status>>

Init ==
  /\ main = "open" /\ opened = 0 /\ attempt = 1 /\ refusing = FALSE
  /\ classifier = NoHandler
  /\ deadline = "none" /\ cancelled = FALSE
  /\ consumer = "off" /\ http = "off"
  /\ handler = [h \in Handlers |-> "none"]
  /\ jobs = 0 /\ hit = FALSE /\ status = "none"

IsOpen(r) == \E i \in 1..opened : Resources[i] = r

Up == main \notin {"open", "exited"}

Active == {h \in Handlers : handler[h] \notin {"none", "answered"}}

\* Deferred: rabbitMQCancel, then the resources.
Leave(s) ==
  /\ main' = "close"
  /\ status' = s
  /\ cancelled' = TRUE

----------------------------------------------------------------------------
(* run()                                                                   *)

Open ==
  /\ main = "open" /\ opened < Len(Resources)
  /\ opened' = opened + 1
  /\ attempt' = 1
  /\ UNCHANGED <<main, refusing, deadline, cancelled, status, procVars>>

\* connectMCPWithRetry and connectRabbitMQWithRetry wait and try again, unless the error
\* is one that stays.
OpenAgain ==
  /\ main = "open" /\ opened < Len(Resources)
  /\ Resources[opened + 1] \in Retried
  /\ attempt < MaxAttempts
  /\ attempt' = attempt + 1
  /\ UNCHANGED <<main, opened, refusing, deadline, cancelled, status, procVars>>

\* Wrong settings, no reply in time, or the last attempt.
OpenFails ==
  /\ main = "open"
  /\ Leave("error")
  /\ UNCHANGED <<opened, attempt, refusing, deadline, procVars>>

Start ==
  /\ main = "open" /\ opened = Len(Resources)
  /\ main' = "serve"
  /\ consumer' = "idle"
  /\ http' = "on"
  /\ UNCHANGED <<mainVars, classifier, handler, jobs, hit>>

\* SIGTERM: the consumer is cancelled and the listener closed; the time limit starts.
Signal ==
  /\ main = "serve"
  /\ main' = "drain"
  /\ deadline' = "running"
  /\ cancelled' = TRUE
  /\ http' = IF http = "on" THEN "closed" ELSE http
  /\ UNCHANGED <<opened, attempt, refusing, status, classifier, consumer, handler, jobs, hit>>

\* The other two cases of the select: nothing is drained.
ServerFails ==
  /\ main = "serve" /\ http = "failed"
  /\ Leave("error")
  /\ UNCHANGED <<opened, attempt, refusing, deadline, procVars>>

ConsumerFails ==
  /\ main = "serve" /\ consumer \in {"ended", "broken"}
  /\ Leave(IF consumer = "broken" THEN "error" ELSE "ok")
  /\ UNCHANGED <<opened, attempt, refusing, deadline, procVars>>

\* server.Shutdown, then the result of the server.
Drain ==
  /\ main = "drain" /\ Active = {}
  /\ IF http = "closed" THEN main' = "await" /\ UNCHANGED <<status, cancelled>>
     ELSE Leave("error")
  /\ UNCHANGED <<opened, attempt, refusing, deadline, procVars>>

\* Mutant: run() does not wait for the consumer.
AwaitNobody ==
  /\ main = "await"
  /\ Leave("ok")
  /\ UNCHANGED <<opened, attempt, refusing, deadline, procVars>>

\* The consumer has returned.
Await ==
  /\ main = "await" /\ consumer \in {"ended", "broken"}
  /\ Leave(IF consumer = "broken" THEN "error" ELSE "ok")
  /\ UNCHANGED <<opened, attempt, refusing, deadline, procVars>>

\* Mutant: requests are drained without a limit.
TimeOutLate ==
  /\ main = "await" /\ deadline = "over"
  /\ Leave("error")
  /\ UNCHANGED <<opened, attempt, refusing, deadline, procVars>>

\* The same limit for both waits.
TimeOut ==
  /\ main \in {"drain", "await"} /\ deadline = "over"
  /\ Leave("error")
  /\ UNCHANGED <<opened, attempt, refusing, deadline, procVars>>

DeadlinePasses ==
  /\ deadline = "running"
  /\ deadline' = "over"
  /\ UNCHANGED <<main, opened, attempt, refusing, cancelled, status, procVars>>

\* Mutant: the classifier is destroyed under a request that runs it.
CloseUnlocked ==
  /\ main = "close" /\ opened > 0
  /\ Resources[opened] = "pool" =>
       refusing /\ consumer # "db" /\ \A h \in Handlers : handler[h] # "db"
  /\ opened' = opened - 1
  /\ UNCHANGED <<main, attempt, refusing, deadline, cancelled, status, procVars>>

\* The pool gives out no more connections from the moment it starts to close.
Refuse ==
  /\ main = "close" /\ opened > 0 /\ Resources[opened] = "pool" /\ ~refusing
  /\ refusing' = TRUE
  /\ UNCHANGED <<main, opened, attempt, deadline, cancelled, status, procVars>>

Close ==
  /\ main = "close" /\ opened > 0
  /\ Resources[opened] = "pool" =>
       refusing /\ consumer # "db" /\ \A h \in Handlers : handler[h] # "db"
  /\ Resources[opened] = "image" => classifier = NoHandler
  /\ opened' = opened - 1
  /\ UNCHANGED <<main, attempt, refusing, deadline, cancelled, status, procVars>>

Exit ==
  /\ main = "close" /\ opened = 0
  /\ main' = "exited"
  /\ UNCHANGED <<mainVars, procVars>>

----------------------------------------------------------------------------
(* Requests                                                                *)

ListenFails ==
  /\ Up /\ http = "on"
  /\ http' = "failed"
  /\ UNCHANGED <<main, mainVars, classifier, consumer, handler, jobs, hit>>

Moves(h, pc) == handler' = [handler EXCEPT ![h] = pc]

\* A call of a closed resource fails the request.
Misses(h) == Moves(h, "answered") /\ hit' = TRUE

\* A request waits for the network: the client, the model, Redis, a mail server.
Accept(h) ==
  /\ Up /\ http = "on" /\ handler[h] = "none"
  /\ Moves(h, "waits")
  /\ UNCHANGED <<main, mainVars, classifier, consumer, http, jobs, hit>>

Respond(h) ==
  /\ Up /\ handler[h] \in {"waits", "replies"}
  /\ Moves(h, "answered")
  /\ UNCHANGED <<main, mainVars, classifier, consumer, http, jobs, hit>>

CallClosed(h) ==
  /\ Up /\ handler[h] = "waits"
  /\ \E r \in {"model", "redis", "rabbit"} : ~IsOpen(r)
  /\ Misses(h)
  /\ UNCHANGED <<main, mainVars, classifier, consumer, http, jobs>>

Query(h) ==
  /\ Up
  /\ \/ handler[h] = "waits" /\ IsOpen("pool") /\ ~refusing /\ Moves(h, "db") /\ UNCHANGED hit
     \/ handler[h] = "waits" /\ (refusing \/ ~IsOpen("pool")) /\ Misses(h)
     \/ handler[h] = "db" /\ Moves(h, "waits") /\ UNCHANGED hit
  /\ UNCHANGED <<main, mainVars, classifier, consumer, http, jobs>>

\* The mutex is taken; a classifier that is closed is not run.  A request has one picture.
Classify(h) ==
  /\ Up /\ handler[h] = "waits" /\ classifier = NoHandler
  /\ \/ IsOpen("image") /\ classifier' = h /\ Moves(h, "runs") /\ UNCHANGED hit
     \/ ~IsOpen("image") /\ Misses(h) /\ UNCHANGED classifier
  /\ UNCHANGED <<main, mainVars, consumer, http, jobs>>

Classified(h) ==
  /\ Up /\ handler[h] = "runs"
  /\ Moves(h, "replies")
  /\ classifier' = NoHandler
  /\ UNCHANGED <<main, mainVars, consumer, http, jobs, hit>>

----------------------------------------------------------------------------
(* The consumer                                                            *)

ConsumerGoes(pc) ==
  /\ consumer' = pc
  /\ UNCHANGED <<main, mainVars, classifier, http, handler, jobs, hit>>

Deliver ==
  /\ Up /\ consumer = "idle" /\ IsOpen("rabbit") /\ jobs < MaxJobs
  /\ consumer' = "job"
  /\ jobs' = jobs + 1
  /\ UNCHANGED <<main, mainVars, classifier, http, handler, hit>>

\* A job queries the database between its calls of the model; a query of the closed pool
\* fails the job.
JobQueries ==
  /\ Up
  /\ \/ consumer = "job" /\ IsOpen("pool") /\ ~refusing /\ consumer' = "db" /\ UNCHANGED hit
     \/ consumer = "job" /\ (refusing \/ ~IsOpen("pool")) /\ consumer' = "idle" /\ hit' = TRUE
     \/ consumer = "db" /\ consumer' = "job" /\ UNCHANGED hit
  /\ UNCHANGED <<main, mainVars, classifier, http, handler, jobs>>

\* Done and acknowledged, failed, or cancelled with the context of the consumer.
JobEnds == Up /\ consumer = "job" /\ ConsumerGoes("idle")

\* No more deliveries: as told, or because the channel is gone.
ConsumerReturns ==
  /\ Up /\ consumer = "idle"
  /\ ConsumerGoes(IF cancelled THEN "ended" ELSE "broken")

----------------------------------------------------------------------------
RunSteps ==
  \/ Open \/ OpenAgain \/ OpenFails \/ Start
  \/ ServerFails \/ ConsumerFails \/ Drain \/ Await \/ TimeOut
  \/ Refuse \/ Close \/ Exit

Next ==
  \/ RunSteps \/ Signal \/ DeadlinePasses \/ ListenFails
  \/ \E h \in Handlers :
       \/ Accept(h) \/ Respond(h) \/ CallClosed(h) \/ Query(h) \/ Classify(h) \/ Classified(h)
  \/ Deliver \/ JobQueries \/ JobEnds \/ ConsumerReturns

Spec == Init /\ [][Next]_vars

\* run() goes on, the time limit passes, a statement ends and the model runs for as long
\* as one picture takes.  Nothing is assumed of a request that waits for the network:
\* uploads and mails have no deadline of their own.
FairSpec ==
  /\ Spec
  /\ WF_vars(RunSteps) /\ WF_vars(DeadlinePasses)
  /\ \A h \in Handlers : WF_vars(handler[h] = "db" /\ Query(h)) /\ WF_vars(Classified(h))
  /\ WF_vars(consumer = "db" /\ JobQueries)

----------------------------------------------------------------------------
(* Properties                                                              *)

\* The classifier's session is never destroyed, nor the pool closed, under a request or a
\* job that uses it, on whatever way the server stops.
NoUseAfterClose ==
  /\ \A h \in Handlers : /\ handler[h] = "runs" => IsOpen("image")
                         /\ handler[h] = "db" => IsOpen("pool")
  /\ consumer = "db" => IsOpen("pool")

\* A server that reports success has answered every request and settled every delivery
\* that it took, and none of them met a dependency that was closed before.
SuccessIsDrained ==
  status = "ok" => /\ Active = {} /\ consumer = "ended" /\ ~hit
                   /\ main = "exited" => opened = 0

\* A signal ends the process, although a request may wait for the network for ever: the
\* time limit ends the wait, and what is closed afterwards waits for nothing but a
\* statement or a picture.
SignalEnds == deadline # "none" ~> main = "exited"
=============================================================================
