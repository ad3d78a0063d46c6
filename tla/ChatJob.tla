------------------------------ MODULE ChatJob ------------------------------
(***************************************************************************)
(* Asynchronous chat jobs: the HTTP request that stores and publishes a    *)
(* job (chatjob.Service.Create), the RabbitMQ queue, and the workers (one  *)
(* consumer loop per backend process, prefetch 1) that run                 *)
(* chatjob.Service.Process on every delivery and acknowledge it by the     *)
(* error that Process returns.                                             *)
(*                                                                         *)
(* `outages` counts the failures for which the code has no compensation:   *)
(* a crash, a claim whose reply is lost, a Retry or Fail update that does  *)
(* not reach the database.  `losses` counts the AMQP channels lost while a *)
(* delivery is being processed.                                            *)
(***************************************************************************)
EXTENDS Chat

CONSTANTS
  Workers,       \* consumer loops
  NoJob,         \* no delivery
  MaxAttempts,   \* CHAT_JOB_MAX_ATTEMPTS
  MaxOutages,    \* bound of outages
  MaxLosses,     \* bound of losses
  MaxPosts       \* bound of the messages other chats add

ASSUME ChatJobAssumption ==
  /\ Procs = Workers /\ IsFiniteSet(Workers)
  /\ NoJob \notin Jobs
  /\ MaxAttempts \in Nat \ {0}
  /\ MaxOutages \in Nat
  /\ MaxLosses \in Nat
  /\ MaxPosts \in Nat

VARIABLES
  answer,        \* what the HTTP request of each job got back
  queue,         \* jobs whose message is ready in the queue
  unacked,       \* the delivery the broker holds for each worker
  worker,        \* the state of each consumer loop
  outages,       \* outages so far
  losses         \* channels lost so far

budgets == <<outages, losses>>
jobVars == <<answer, queue, unacked, worker, budgets>>
vars == <<storeVars, chatVars, jobVars>>

Answer == {"none", "publish", "accepted", "error"}

Pc == {"idle", "claim", "ensure", "find", "chat", "complete", "retry", "fail", "ack", "nack"}

\* attempt is the claimed row's AttemptCount, reply the message to complete the
\* job with, code the error code to fail it with.
WorkerRecord == [pc: Pc, job: Jobs \cup {NoJob}, attempt: Nat, reply: Nat, code: ErrorCodes]

Idle == [pc |-> "idle", job |-> NoJob, attempt |-> 0, reply |-> None, code |-> ""]

WorkersOK ==
  /\ worker \in [Workers -> WorkerRecord]
  /\ \A w \in Workers : worker[w].pc # "idle" => worker[w].job \in Jobs

BrokerOK ==
  /\ answer \in [Jobs -> Answer]
  /\ queue \subseteq Jobs
  /\ unacked \in [Workers -> Jobs \cup {NoJob}]
  /\ outages \in 0..MaxOutages
  /\ losses \in 0..MaxLosses

JobTypeOK == WorkersOK /\ BrokerOK

TypeOK == StoreTypeOK /\ ChatTypeOK /\ JobTypeOK

Init ==
  /\ StoreInit
  /\ ChatInit
  /\ answer = [j \in Jobs |-> "none"]
  /\ queue = {}
  /\ unacked = [w \in Workers |-> NoJob]
  /\ worker = [w \in Workers |-> Idle]
  /\ outages = 0
  /\ losses = 0

----------------------------------------------------------------------------
(* Creating a job                                                          *)

Answers(j, a) == answer' = [answer EXCEPT ![j] = a]

\* The insert: it fails when the conversation is gone, and may fail after it
\* took effect.
InsertJob(j) ==
  /\ answer[j] = "none"
  /\ \/ /\ ConvOf[j] \in convs
        /\ InsertPendingChatJob(j)
        /\ \E a \in {"publish", "error"} : Answers(j, a)
     \/ /\ UNCHANGED jobs
        /\ Answers(j, "error")
  /\ UNCHANGED <<convs, messages, calls, chatVars, queue, unacked, worker, budgets>>

\* PublishChatJob waits for the broker's confirm; an error does not tell whether
\* the message is queued, and the stored row is not rolled back.
Publish(j) ==
  /\ answer[j] = "publish"
  /\ \/ /\ queue' = queue \cup {j}
        /\ \E a \in {"accepted", "error"} : Answers(j, a)
     \/ /\ UNCHANGED queue
        /\ Answers(j, "error")
  /\ UNCHANGED <<storeVars, chatVars, unacked, worker, budgets>>

----------------------------------------------------------------------------
(* Processing a delivery                                                   *)

At(w, pc) == worker[w].pc = pc

GotoPc(w, pc) == worker' = [worker EXCEPT ![w].pc = pc]

Outage == outages < MaxOutages /\ outages' = outages + 1 /\ UNCHANGED losses

NoOutage == UNCHANGED budgets

\* Mutants: one attempt too many; no retry at all.
AttemptFailedOffByOne(w, code) ==
  IF worker[w].attempt <= MaxAttempts
  THEN GotoPc(w, "retry")
  ELSE worker' = [worker EXCEPT ![w].pc = "fail", ![w].code = code]
AttemptFailedAtOnce(w, code) == worker' = [worker EXCEPT ![w].pc = "fail", ![w].code = code]

\* An attempt failed: below the limit the job goes back to pending, at the limit
\* it is failed with the given code.
AttemptFailed(w, code) ==
  IF worker[w].attempt < MaxAttempts
  THEN GotoPc(w, "retry")
  ELSE worker' = [worker EXCEPT ![w].pc = "fail", ![w].code = code]

Deliver(w) ==
  /\ At(w, "idle")
  /\ \E j \in queue :
       /\ queue' = queue \ {j}
       /\ unacked' = [unacked EXCEPT ![w] = j]
       /\ worker' = [worker EXCEPT ![w].pc = "claim", ![w].job = j]
  /\ UNCHANGED <<storeVars, chatVars, answer, budgets>>

\* ClaimForProcessing: a job that is not pending makes Process return nil.
Claim(w) ==
  LET j == worker[w].job IN
  /\ At(w, "claim")
  /\ \/ /\ Claimable(j)
        /\ ClaimPendingChatJob(j)
        /\ worker' = [worker EXCEPT ![w].pc = "ensure", ![w].attempt = jobs[j].attempts + 1]
        /\ NoFailure /\ NoOutage
     \/ /\ ~Claimable(j)
        /\ GotoPc(w, "ack")
        /\ UNCHANGED jobs /\ NoFailure /\ NoOutage
     \/ /\ GotoPc(w, "nack")
        /\ UNCHANGED jobs /\ Failure /\ NoOutage
     \/ /\ Claimable(j)
        /\ ClaimPendingChatJob(j)
        /\ GotoPc(w, "nack")
        /\ NoFailure /\ Outage
  /\ UNCHANGED <<convs, messages, calls, chat, answer, queue, unacked>>

\* EnsureRequestMessage: stores the question on the first attempt, finds it on
\* the later ones.
Ensure(w) ==
  LET j == worker[w].job IN
  /\ At(w, "ensure")
  /\ \/ /\ Processing(j)
        /\ EnsureChatJobRequestMessage(j)
        /\ \/ GotoPc(w, "find") /\ NoFailure
           \/ AttemptFailed(w, "over_max_retry_time") /\ Failure
     \/ /\ ~Processing(j)
        /\ AttemptFailed(w, "over_max_retry_time")
        /\ UNCHANGED <<messages, jobs>> /\ NoFailure
     \/ /\ AttemptFailed(w, "over_max_retry_time")
        /\ UNCHANGED <<messages, jobs>> /\ Failure
  /\ UNCHANGED <<convs, calls, chat, answer, queue, unacked, budgets>>

\* FindCompletedAssistantID: a reply an earlier attempt stored is not generated
\* again.
FindReply(w) ==
  LET j == worker[w].job
      done == IF Processing(j) THEN CompletedCalls(j) ELSE {}
  IN
  /\ At(w, "find")
  /\ \/ /\ \E k \in Latest(done) :
             worker' = [worker EXCEPT ![w].pc = "complete", ![w].reply = calls[k].assistant]
        /\ UNCHANGED chat /\ NoFailure
     \/ /\ done = {}
        /\ GotoPc(w, "chat")
        /\ BeginChat(w, jobs[j].request)
        /\ NoFailure
     \/ /\ AttemptFailed(w, "over_max_retry_time")
        /\ UNCHANGED chat /\ Failure
  /\ UNCHANGED <<storeVars, answer, queue, unacked, budgets>>

RunChat(w) ==
  /\ At(w, "chat")
  /\ ChatStep(w)
  /\ UNCHANGED jobVars

\* ChatFromExistingMessage returns.
ChatReturns(w) ==
  /\ At(w, "chat")
  /\ chat[w].stage = "done"
  /\ IF chat[w].reply # None
     THEN worker' = [worker EXCEPT ![w].pc = "complete", ![w].reply = chat[w].reply]
     ELSE AttemptFailed(w, IF chat[w].cause = "timed_out" THEN "chat_timed_out"
                                                          ELSE "chat_failed")
  /\ chat' = [chat EXCEPT ![w] = NoChat]
  /\ UNCHANGED <<storeVars, failures, answer, queue, unacked, budgets>>

\* Complete, and handleAttemptFailure when it fails.
Complete(w) ==
  LET j == worker[w].job
      m == worker[w].reply
  IN
  /\ At(w, "complete")
  /\ \/ /\ Completable(j, m)
        /\ CompleteChatJob(j, m)
        /\ \/ GotoPc(w, "ack") /\ NoFailure
           \/ AttemptFailed(w, "complete_failed") /\ Failure
     \/ /\ ~Completable(j, m)
        /\ AttemptFailed(w, "complete_failed")
        /\ UNCHANGED jobs /\ NoFailure
     \/ /\ AttemptFailed(w, "complete_failed")
        /\ UNCHANGED jobs /\ Failure
  /\ UNCHANGED <<convs, messages, calls, chat, answer, queue, unacked, budgets>>

\* Mutant: Process returns nil after a retry, so the delivery is acknowledged.
RetryWithoutError(w) ==
  LET j == worker[w].job IN
  /\ At(w, "retry")
  /\ IF Processing(j) THEN RetryChatJob(j) ELSE UNCHANGED jobs
  /\ GotoPc(w, "ack")
  /\ UNCHANGED <<convs, messages, calls, chatVars, answer, queue, unacked, budgets>>

\* retry: Process returns the error whether or not the job is pending again.
Retry(w) ==
  LET j == worker[w].job IN
  /\ At(w, "retry")
  /\ \/ /\ IF Processing(j) THEN RetryChatJob(j) ELSE UNCHANGED jobs
        /\ NoOutage
     \/ UNCHANGED jobs /\ Outage
  /\ GotoPc(w, "nack")
  /\ UNCHANGED <<convs, messages, calls, chatVars, answer, queue, unacked>>

\* Fail: nil once the failure is recorded, an error otherwise.
Fail(w) ==
  LET j == worker[w].job IN
  /\ At(w, "fail")
  /\ \/ /\ Processing(j)
        /\ FailChatJob(j, worker[w].code)
        /\ \/ GotoPc(w, "ack") /\ NoFailure
           \/ GotoPc(w, "nack") /\ Failure
        /\ NoOutage
     \/ /\ ~Processing(j)
        /\ GotoPc(w, "nack")
        /\ UNCHANGED jobs /\ NoFailure /\ NoOutage
     \/ /\ GotoPc(w, "nack")
        /\ UNCHANGED jobs /\ NoFailure /\ Outage
  /\ UNCHANGED <<convs, messages, calls, chat, answer, queue, unacked>>

\* Mutants: Nack without requeue, and an acknowledgement that requeues.
NackDiscards(w) ==
  /\ At(w, "nack")
  /\ unacked' = [unacked EXCEPT ![w] = NoJob]
  /\ worker' = [worker EXCEPT ![w] = Idle]
  /\ UNCHANGED <<storeVars, chatVars, answer, queue, budgets>>
AckRequeues(w) ==
  /\ At(w, "ack")
  /\ queue' = queue \cup ({unacked[w]} \ {NoJob})
  /\ unacked' = [unacked EXCEPT ![w] = NoJob]
  /\ worker' = [worker EXCEPT ![w] = Idle]
  /\ UNCHANGED <<storeVars, chatVars, answer, budgets>>

\* The consumer ignores the errors of Ack and Nack.  On a channel that is gone
\* they have no effect; the loop then ends and the process is restarted.
Ack(w) ==
  /\ At(w, "ack")
  /\ unacked' = [unacked EXCEPT ![w] = NoJob]
  /\ worker' = [worker EXCEPT ![w] = Idle]
  /\ UNCHANGED <<storeVars, chatVars, answer, queue, budgets>>

Nack(w) ==
  /\ At(w, "nack")
  /\ queue' = queue \cup ({unacked[w]} \ {NoJob})
  /\ unacked' = [unacked EXCEPT ![w] = NoJob]
  /\ worker' = [worker EXCEPT ![w] = Idle]
  /\ UNCHANGED <<storeVars, chatVars, answer, budgets>>

----------------------------------------------------------------------------
(* The environment                                                         *)

\* The broker returns the unacknowledged message to the queue; the worker goes
\* on processing and finds out when it acknowledges.
LoseChannel(w) ==
  /\ unacked[w] # NoJob
  /\ losses < MaxLosses
  /\ losses' = losses + 1
  /\ queue' = queue \cup {unacked[w]}
  /\ unacked' = [unacked EXCEPT ![w] = NoJob]
  /\ UNCHANGED <<storeVars, chatVars, answer, worker, outages>>

\* The backend process dies and is restarted.
Crash(w) ==
  /\ worker[w].pc # "idle"
  /\ Outage
  /\ queue' = queue \cup ({unacked[w]} \ {NoJob})
  /\ unacked' = [unacked EXCEPT ![w] = NoJob]
  /\ worker' = [worker EXCEPT ![w] = Idle]
  /\ chat' = [chat EXCEPT ![w] = NoChat]
  /\ UNCHANGED <<storeVars, failures, answer>>

\* The owner deletes the conversation.
DeleteConversation(c) ==
  /\ c \in convs
  /\ DeleteConversationRow(c)
  /\ UNCHANGED <<messages, calls, chatVars, jobVars>>

\* Another chat stores a message in the conversation.
OtherMessages == {m \in DOMAIN messages : messages[m].topic \notin Jobs}

PostMessage(c) ==
  /\ c \in convs
  /\ Cardinality(OtherMessages) < MaxPosts
  /\ \E t \in Topics \ Jobs : InsertMessage(c, "user", t)
  /\ UNCHANGED <<convs, calls, jobs, chatVars, jobVars>>

----------------------------------------------------------------------------
\* What worker w does by itself.
Process(w) ==
  \/ Claim(w)
  \/ Ensure(w)
  \/ FindReply(w)
  \/ RunChat(w)
  \/ ChatReturns(w)
  \/ Complete(w)
  \/ Retry(w)
  \/ Fail(w)
  \/ Ack(w)
  \/ Nack(w)

Next ==
  \/ \E j \in Jobs : InsertJob(j) \/ Publish(j)
  \/ \E w \in Workers : Deliver(w) \/ Process(w) \/ LoseChannel(w) \/ Crash(w)
  \/ \E c \in Convs : DeleteConversation(c) \/ PostMessage(c)

Spec == Init /\ [][Next]_vars

\* The broker delivers to a consumer that waits, and a process that runs goes
\* on; crashes, channel losses and clients promise nothing.
Fairness == \A w \in Workers : WF_vars(Deliver(w)) /\ WF_vars(Process(w))

FairSpec == Spec /\ Fairness

----------------------------------------------------------------------------
(* Properties                                                              *)

\* Worker w has claimed job j and still decides what becomes of it.
Owning == {"ensure", "find", "chat", "complete", "retry", "fail"}

Owner(w, j) == worker[w].job = j /\ worker[w].pc \in Owning

\* However deliveries are duplicated and redelivered, two workers never process
\* the same job at the same time: the conditional update of ClaimForProcessing is
\* the only lock, it has no expiry, and nothing but its owner releases it.
ExclusiveProcessing ==
  \A j \in Jobs : \A v, w \in Workers : Owner(v, j) /\ Owner(w, j) => v = w

\* No job is attempted more than MaxAttempts times, although the claim itself
\* does not look at the limit and the queue redelivers without one.
AttemptsBounded == \A j \in Jobs : jobs[j].attempts <= MaxAttempts

\* Why these two hold.  An owner's row is out of reach of a claim, and still has
\* the attempt count the owner read when it claimed; only a row with attempts left
\* goes back to pending.
OwnersHoldRows ==
  \A w \in Workers : \A j \in Jobs : Owner(w, j) =>
    /\ jobs[j].status \notin {"absent", "pending"}
    /\ jobs[j].attempts = worker[w].attempt
    /\ At(w, "retry") => worker[w].attempt < MaxAttempts

AttemptsLeft ==
  \A j \in Jobs :
    /\ answer[j] = "none" => jobs[j].status = "absent"
    /\ jobs[j].status = "absent" => jobs[j].attempts = 0
    /\ jobs[j].status = "pending" => jobs[j].attempts < MaxAttempts

ClaimInv == ExclusiveProcessing /\ AttemptsBounded /\ OwnersHoldRows /\ AttemptsLeft

\* Retries, redeliveries and lost replies never store the question of a job twice,
\* nor a second answer to it.
NoDuplicateTurns ==
  \A j \in Jobs : \A r \in Roles :
    Cardinality({m \in DOMAIN messages : messages[m].topic = j /\ messages[m].role = r}) <= 1

\* A completed job points at the reply of a completed call for its own question,
\* also when a later attempt completes what an earlier one generated.
CompletedWithOwnReply ==
  \A j \in Jobs : jobs[j].status = "completed" =>
    /\ Visible(jobs[j].assistant)
    /\ messages[jobs[j].assistant].topic = j
    /\ \E k \in CompletedCalls(j) : calls[k].assistant = jobs[j].assistant

\* The outcome a client has read of a job is final: late retries and failures of
\* an owner that lost the reply of its own update change nothing.
OutcomeIsFinal ==
  [][\A j \in Jobs : jobs[j].status \in {"completed", "failed"} =>
       \/ jobs'[j] = jobs[j]
       \/ jobs'[j].status = "deleted"]_vars

\* Jobs that were accepted with 202 and that nobody will ever process again.
Stranded ==
  {j \in Jobs : /\ answer[j] = "accepted"
                /\ jobs[j].status \in {"pending", "processing"}
                /\ j \notin queue
                /\ \A w \in Workers : unacked[w] # j /\ ~Owner(w, j)}

\* A job is stranded only by an outage, one job by each.  A lost channel strands
\* one as well, but only where a second backend can take the redelivery while the
\* first still works: the compose deployment, with one backend, loses none.
StrandedByOutages ==
  Cardinality(Stranded) <= outages + (IF Cardinality(Workers) = 1 THEN 0 ELSE losses)

\* A model call stays running for ever only if a database call failed or the
\* process died during it.
OrphansBounded == Cardinality(OrphanCalls) <= failures + outages

\* A job whose message is queued and whose conversation stays is completed or
\* failed in the end, whatever its client was told (the confirm of the publication may
\* be lost, and an accepted job was queued too), whatever the model does and however
\* the database calls fail, unless there is an outage.  With several workers a lost
\* channel would also be an exception: another worker drops the message while the job is
\* still processing.
PublishedSettles ==
  \A j \in Jobs :
    j \in queue ~> jobs[j].status \notin {"pending", "processing"} \/ outages > 0

\* Redelivery ends: the queue drains and stays empty, even after outages.
QueueDrains == <>[](queue = {} /\ \A w \in Workers : At(w, "idle"))

\* What a client sees of its jobs is JobLifecycle: in particular a job fails only
\* when every attempt is used up, and is answered only while it is processing.
Lifecycle == INSTANCE JobLifecycle WITH
  status <- [j \in Jobs |-> jobs[j].status],
  attempts <- [j \in Jobs |-> jobs[j].attempts],
  answered <- [j \in Jobs |-> \E m \in DOMAIN messages :
                 messages[m].topic = j /\ messages[m].role = "assistant"]

ImplementsLifecycle == Lifecycle!Spec

----------------------------------------------------------------------------
(* What the documentation says, and the code does not do.                  *)

\* Messages the broker still holds for job j.
Queued(j) == j \in queue \/ \E w \in Workers : unacked[w] = j

\* docs/BACKEND_OVERVIEW.md: the queue's acknowledgement confirms that the work has
\* reached a definite outcome.
AckMeansOutcome ==
  [][\A j \in Jobs : Queued(j) /\ ~Queued(j)' =>
       jobs[j].status \in {"completed", "failed", "deleted"}]_vars
=============================================================================
