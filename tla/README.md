# Formal model of gopher-agent-platform

TLA+ modules, TLC runs and TLAPS proofs for the backend in `src/`. The model
follows the code; where documents and code differ, the code is modelled and the
difference is recorded (see *Findings*).

To check a run, `tlc -config X.cfg M` with the names of section 3; to check the
proofs, `tlapm XProofs.tla`.

## 1. Inventory

| Component | State it keeps | Operations | Interacts with | What is hard | What makes it correct | Module |
|---|---|---|---|---|---|---|
| Chat jobs (`internal/chatjob`, `chat_jobs_*.go`) | table `chat_jobs`: status, attempts, request message, reply, error code | Create, Process (claim, ensure question, find reply, chat, complete / retry / fail), GetByID | HTTP, RabbitMQ, chat service | redelivery, lost replies of updates, crash in processing, retry limit | one owner at a time, bounded attempts, one question and one reply, own reply, final outcome | `ChatJob` |
| Job queue (`platform/rabbitmq`) | ready and unacknowledged messages | publish with confirm, deliver (prefetch 1), Ack, Nack+requeue, Reject | chat jobs | at-least-once delivery, lost confirms and channels | no accepted job is forgotten without an outage; the queue drains | `ChatJob` |
| Chat service (`internal/chat`) | none of its own; a call record in flight | Chat, ChatFromExistingMessage, ChatStreaming | messages, model calls, RAG, model | model call outside any transaction, cleanup after failure, lost commits | reply and completed call appear together; no call stays running | `Chat`, `ChatHTTP` |
| Model calls, messages, conversations (`internal/modelcall`, `message`, `conversation`) | tables `model_calls`, `messages`, `conversations` | Start/Complete/Finish; create/list; create/delete | chat service | cascade under running work | status diagram, visibility after deletion | `ChatStore` |
| Chat over HTTP and SSE (`internal/httpapi/chat_handler.go`) | request context with a deadline, events written | Chat, ChatStreaming | chat service, agent | client leaves, deadline passes, order of events and commits | `done` only after the commit and after exactly the stored text | `ChatHTTP` |
| Agent (`internal/agent`), model client (`platform/openai`) | rounds of one generation, buffered text | Generate, GenerateStream, tool call | MCP weather tool, provider | buffering of the planning round, truncated streams | one round shown, no truncated reply stored | `ChatHTTP` |
| Email verification (`internal/emailverification`, Redis scripts) | code, attempts, cooldown, with expiry, per address | Send, VerifyAndConsume | SMTP, Redis, registration | two senders, a failed mail, expiry, lost replies | a code is used once, within its attempts, only until replaced | `EmailVerification` |
| Registration (`internal/user`) | table `users` | Register, Login | verification, tokens | the code is consumed before the insert | unique address, one code per user | `EmailVerification` |
| Rate limiter (`platform/redis/rate_limiter.go`, middleware) | counter and expiry per key | Allow | router | window edge, shared limiters, expiry of counters | at most the limit in a window; a refusal ends | `RateLimiter` |
| RAG documents (`internal/rag`, Redis, file system) | file, chunks, pointer to the version in force | Upload, Retrieve, SplitText, SearchSimilar | embedder, chat service | concurrent uploads, failed cleanup, expiry under a reader | a register of whole documents | `RagDocument` |
| Speech (`internal/tts`, `platform/baidutts`) | cached access token | Create, Get | Baidu API | expiry on the way, concurrent refresh, slow provider | a cached token is still good on arrival; one is shared | `Speech` |
| Images (`internal/image`, `platform/onnx`) | native session | Classify, Close | – | Close during Classify | no use after Close | `Server` |
| Server lifecycle (`cmd/server`) | dependencies, consumer loop, shutdown | start, retry connects, shut down | all | shutdown order, consumer death, time limit | in-flight work ends or the exit says it did not | `Server` |
| Weather tool and MCP, auth tokens, SMTP, health, router | none: one exchange or a pure function | | | | | see *Not modelled* |

The full list with files and status is `components` in `PROJECT.json`; the
`hazards` there give, by source line, what in this code a test would hardly
reach, and the properties that watch over it.

How they interact: a chat request or a job goes through the chat service, which
writes the tables (`ChatStore`), asks `RagDocument` for context, and calls the
agent. `ChatJob` and `ChatHTTP` are two compositions over the same two modules
`ChatStore` and `Chat`: the first adds queue and consumers, the second contexts,
agent and stream. The rate limiter stands in front of routes, the server module
around everything. Email verification, speech and RAG share nothing with the
chat tables, so they are modules of their own.

## 2. What is modelled

| Module | Models | State |
|---|---|---|
| `ChatStore` | the tables and one operator per SQL statement (`chat_jobs_sql.go`, `messages_sql.go`, `model_calls_sql.go`) | `convs`, `messages`, `calls`, `jobs` |
| `Chat` (extends ChatStore) | `chat.Service.respond`: one action per call it makes | `chat` (stage of each caller), `failures` |
| `ChatJob` (extends Chat) | `chatjob.Service.Create` / `Process`, the queue, the consumer loops, crashes, lost channels, deletion of conversations | `answer`, `queue`, `unacked`, `worker`, `outages`, `losses` |
| `JobLifecycle` | abstract: what a client that polls a job may rely on | `status`, `attempts`, `answered` |
| `ChatHTTP` (extends Chat) | `POST .../chat` and `.../chat/stream`: handler, chat service, agent, event loop of the model client, request context | `tools`, `req` |
| `EmailVerification` | `Service.Send`, `Service.Register` over three Redis keys and the users table | `code`, `ttl`, `cooldown`, `attempts`, `mailbox`, `send`, `reg`, `user`, `lost` |
| `OneTimeCode` | abstract: what the owner of an address may rely on | `status`, `redeemers`, `user` |
| `RateLimiter` | the Lua script, the limiters and the middleware of all limited routes | `count`, `ttl`; `admitted`, `recent`, `retry` observe |
| `RagDocument` | `rag.Service.Upload` and `Retrieve` over file system and Redis, with `SplitText` and `SearchSimilar` as functions | `up`, `files`, `temps`, `ttl`, `current`, `read`, `lost` |
| `DocumentRegister` | abstract: one register of documents | `value`, `placed`, `outcome`, `answer` |
| `Speech` | `baidutts.Client` with its token cache and mutex, and the provider | `token`, `expires`, `holder`, `req`, `life`, `left`, `task`, `revoked`, `lost` |
| `Server` | `run()` of `cmd/server`, requests and the consumer as far as they use dependencies | `main`, `opened`, `deadline`, `consumer`, `http`, `handler`, `classifier`, … |
| `*MC` | constants of the instances for TLC | |
| `*Proofs` | inductive invariants, lemmas and theorems; `ChatProofs` holds the lemmas on tables that `ChatJobProofs` and `ChatHTTPProofs` share | |

### Chat jobs

| Action | Code | Outcome |
|---|---|---|
| `InsertJob`, `Publish` | Create 38-65, publisher.go | the request returns 202 (`accepted`) or an error; an error may hide an inserted row or a queued message |
| `Deliver` | consumer.go, prefetch 1 | the loop takes one message |
| `Claim` | chatjob/service.go 83-90 | claimed / not pending: return nil, so Ack / error: Nack |
| `Ensure` | 92-111 | question stored or found / attempt failed |
| `FindReply` | 113-138 | complete with a stored reply / chat / attempt failed |
| `RunChat` → `StartModelCall`, `LoadHistory`, `Generate`, `SaveReply`, `FinishCall` | chat/service.go 67-75, 119-169, 208-337 | the chat of this worker advances one call |
| `ChatReturns` | 140-187 | complete / attempt failed |
| `Complete` | 203-206 | Ack / attempt failed |
| `AttemptFailed` | the three copies of the limit test, 98-111, 143-187, 220-240 | go to `Retry` below the limit, to `Fail` at it |
| `Retry`, `Fail` | 209-218, 105, 124, 155, 159, 235 | Nack / Ack, or Nack if the failure was not recorded |
| `Ack`, `Nack` | consumer.go 49-53 | |
| `LoseChannel`, `Crash` | consumer.go 56-75; process death and `restart: unless-stopped` | the broker requeues the unacknowledged message |

Every database call has up to three outcomes: it succeeds, it fails without
effect, or it takes effect and its reply is lost (deadline, broken connection, an
error from `Commit`). Failures are split by what the code does about them:

* failures the code compensates are free or counted in `failures`;
* `outages`, for which there is no compensation: a process death, a claim whose
  reply is lost, a Retry or Fail update that does not reach the database;
* `losses`: AMQP channels lost while a delivery is processed.

The split is what lets `StrandedByOutages`, `OrphansBounded` and
`PublishedSettles` say exactly which failures cost something.

### Chat over HTTP

One request is one goroutine, so its handler, service, agent and client are one
sequence of steps (`Serve`); contexts, upstream and other requests interleave.

| Action | Code |
|---|---|
| `Receive` | chat/service.go 99-117: question and running call in one transaction, whose commit may be reported as failed |
| `Prepare` | chat/service.go 208-224, 277-337: history, then the first round |
| `Delta`, `StreamEnds` | agent 84-116 and openai/client.go 341-380: an event of the stream; the planning round is buffered up to `MaxPlanning` |
| `ResponseArrives` | agent 45-81, openai/client.go 75-126: the plain path |
| `Forward` | agent 117-138: the buffered planning text, once the round asked for no tool |
| `CallTool` | agent 140-156: one tool call, then the final round |
| `Save`, `Finish` | chat/service.go 136-169, and 240-254 on a context of its own |
| `Reply` | chat_handler.go 100-130, 184-252: `done`, `error` or nothing for a client that left |
| `ClientLeaves`, `Expire`, `UpstreamEnds`, `DeleteConversation` | the environment: cancellation, the two-minute deadline, how the provider ends a response, the cascade |

A call on a context that is done fails (`Honoured`); the cleanup is exempt. A
piece of text is named for the round that wrote it: that is all that
`OneRoundIsShown` and `DoneIsStored` tell apart.

### Email verification and registration

| Action | Code |
|---|---|
| `Save` → `StoreCode` | the save script, 29-41, and the reply of the Redis client, 100-144 |
| `Mail` | smtp sender 99-142: delivered, failed, or delivered and reported as failed |
| `Cleanup` | the delete script, 189-214: only the send's own code, with its cooldown; its failure is ignored |
| `Verify` → `DropCode`, `CountAttempt` | the verify script, 43-75 |
| `Insert` | user_repository.go 21-35: the unique address decides |
| `Stop` | the process ends between the save and the answer of a send (emailverification/service.go 98-112): a crash, or the exit at the shutdown limit, main.go 204-219 |
| `Tick` | expiry of the keys |

A process that ends at any other point of a request is one of that request's
failures: before the save nothing is stored, a registration that has consumed its
code ends without a user (`error`), and a mail that was taken is `Mail` and then `Stop`.

Each Lua script is one atomic step. A reply may be lost, after which the Redis
client (go-redis, its default of retries) runs the script again: `Save` and
`Verify` may therefore take effect and meet their own effect. The second run of
`Save` comes within the cooldown that the first has set; the one of `Verify` is a
later step, perhaps against another code.

### Rate limiter

`Request(c, route)` is the middleware as a whole: the key of route and identity
(`KeyOf`), one or more runs of the script (`Allow`), and admission, refusal with
`Retry-After`, or 503 when no reply comes. `admitted`, `recent` and `retry`
record what was let through and promised; no action reads them.

### RAG documents

| Action | Code |
|---|---|
| `Prepare` | rag/service.go 40-90: checks, `SplitText`, embedding |
| `CreateTemp`, `Rename` | rag_store.go 44-101: the file appears by a rename |
| `Replace`, `Undo` | rag_repository.go 57-97: chunks with `stagingVersionTTL`; on an error the file is removed |
| `Activate` → `Switch` | the activation script 28-42: the new version persists, the replaced one expires; its reply may be lost, and the client runs it again |
| `Cleanup` | rag/service.go 112-115: the file of the replaced version |
| `ReadCurrent`, `List`, `Search`, `ReadFails` | Retrieve 126-171: pointer, chunks, similarity, at most `TopK` |
| `Tick`, `Crash` | expiry; the server stops with its uploads and readers |

### Speech

| Action | Code |
|---|---|
| `Arrive` | tts/service.go 21-69 |
| `LookUp` | baidutts/client.go 101-120: with the mutex, cache or request for a token |
| `TokenArrives`, `TokenFails` | 120-139: cache and release, or release |
| `Issue`, `Revoke`, `Answer`, `Work` | the provider (external) |
| `Reply`, `CallFails` | 189-206, 237-288, 332-361: the answer turned into a status or an error |

A token in flight loses lifetime from the moment it is issued, and the client
counts its lifetime from the moment it arrives: this difference, and the way of
the call that uses the token, is what `tokenRefreshSkew` is for. `took` records how
long the call that brought a token took; no action reads it.

### Server

| Action | Code |
|---|---|
| `Open`, `OpenAgain`, `OpenFails` | main.go 53-137, bootstrap.go 102-163, 263-292: dependencies in order, the two retry loops, the deferred closes on an error |
| `Start` | 139-187: consumer and HTTP server |
| `Signal`, `ServerFails`, `ConsumerFails` | 189-204: the select |
| `Drain`, `Await`, `TimeOut`, `DeadlinePasses` | 202-219 |
| `Refuse`, `Close`, `Exit` | the deferred calls, in the opposite order; closing the pool waits for connections in use, the classifier has a mutex |
| `Accept` … `Classified`, `Deliver` … `ConsumerReturns` | requests and deliveries, as far as they hold or use a dependency |

### Abstractions

* Contents are model values: the question of job `j` is the topic `j`, its reply
  carries the same topic; a code is the send that made it, a version the upload.
  Token counts, times, and the wording of errors are left out; of `error_code`
  the values are kept.
* Ids are positions in the tables. `ORDER BY created_at DESC, id DESC` is taken as
  order of ids, so two transactions that overlap are ordered by their inserts and
  not by their starts.
* A deleted conversation hides its rows (`Visible`, `LiveCall`, status `deleted`)
  instead of removing them; no statement can tell the difference.
* Ownership (`user_id`) is left out of the chat tables: every caller modelled is
  the owner. Keys of different addresses and of different users are disjoint, so
  one address and one user with documents are enough.
* `attempt` limit, history limit and all bounds are constants.
* Update statements that a client cancelled but the server applies *later* than
  the next statement of the same worker are not modelled; a lost reply means the
  effect is already there. In `ChatHTTP` a statement that starts on a live context
  runs to its end: a context that ends in the middle is the statement that fails,
  or takes effect and reports an error.
* `ChatHTTP` has no process death; `ChatJob` has. A reply that is blank or too
  long is answered with 400 after the question is stored: it is one of the errors.
  A request that ended an MCP call when its client left has still executed it.
* Redis loses no data. The branches for `ttl <= 0` in the verification and rate
  limit scripts are unreachable, as a script sees no key that has expired. A
  second run of the save script comes within the cooldown, because the client
  gives up long before.
* A counter of `RateLimiter` stops one above its limit, as it is only compared.
* `Speech` is one process. Another backend, or the same one after a restart, has a
  token of its own. A client that leaves during a call is a call that fails. A revoked
  token stays cached until it expires, as in the code. Requests do not repeat.
* Errors of Ack and Nack are ignored by the consumer, so they change nothing but what
  `LoseChannel` does: the broker takes an unacknowledged message back. `Server` does
  not count them: "settled" there means that the consumer has called one of the two.
* In `Server` a request sends one picture, and uses one kind of dependency at a
  time.
* Left out because no run can reach it: the nil-result branch of `Process`
  (190-201; `toResult` never returns nil without an error). Malformed messages
  are rejected without touching a job.

### Not modelled

* Weather tool and MCP: a stateless call with a timeout; it appears as `CallTool`
  in `ChatHTTP` and as the connection that `Server` opens with retries.
* Authentication: signing and checking a token is a function of the token and a
  clock; no state, nothing concurrent.
* Health checks: they ping and report.
* Login, `Me`, paged lists, `GetByID`: single reads. Creating a conversation or a
  message outside a chat is one insert; what it does to others is in `PostMessage`.
* Building and decoding of requests and DTOs, image preprocessing and inference:
  data conversion and native code.

## 3. Runs

All configurations have `CHECK_DEADLOCK FALSE`, because all the systems may really
stop: requests, codes, uploads and jobs are finite in an instance and end, and the
server exits. (In `RateLimiter`, which never stops, it makes no difference.)

| Run | Instance | Checks |
|---|---|---|
| `two_backends` | 2 jobs, 2 workers, 1 conversation, 2 attempts, 1 outage, 1 lost channel | `ExclusiveProcessing`, `StrandedByOutages` |
| `recovered_reply` | 2 jobs, 2 workers, 1 conversation, 2 attempts, 1 failure, 1 lost channel | `CompletedWithOwnReply` |
| `faults` | 1 job, 2 workers, 3 attempts, 2 failures, 1 outage, 1 lost channel, 1 other message, history of 1 | `TypeOK`, `AttemptsBounded`, `OwnersHoldRows`, `NoDuplicateTurns`, `OrphansBounded`, `OutcomeIsFinal`, `ImplementsLifecycle` |
| `one_backend` | 2 jobs, 1 worker, 2 attempts, history of 2, 1 failure, 1 outage, 1 lost channel, fair | `PublishedSettles`, `QueueDrains` |
| `ack_without_outcome` | 1 job, 1 worker | violated, see *Findings* |
| `http_chat` | 1 stream and 1 plain chat of one conversation, with and without the tool, 1 failure, planning buffer of 1 and responses of up to 2 pieces, history of 1, fair | `DoneIsStored`, `OneRoundIsShown`, `TruncatedStreamIsNotStored`, `ErrorsHideFewReplies`, `TurnsAreWhole`, `CallsAreClosed` |
| `incomplete` | 1 plain chat, no failure | violated, see *Findings* |
| `email` | 2 sends, 3 registrations, codes live 3 ticks, cooldown 2, 2 attempts, 2 losses | `CooldownIsOfCode`, `GuessesBounded`, `UnsentCodesHaveCause`, `AcceptedCodeStands`, `ImplementsOneTimeCode` |
| `rate_limiter` | 1 user with a device at home and one on the road, 2 routes that share a limiter by user (2 in 3 ticks) and one by address (1 in 2 ticks), seconds of 2 ticks, up to 2 runs of the script, fair | `WindowBound`, `SlidingBound`, `CountersExpire`, `RetryAfterFits`, `LockoutEnds` |
| `rag` | 3 uploads, 1 reader, documents of 4 and 8 with chunks of 4 and overlap 1, best 2, similarities 1 and 2, expiry 2 and reading time 1, 2 losses | `ChunksCoverDocument`, `BestChunksFound`, `OnlyCurrentIsKept`, `CurrentKeepsFile`, `LeftoversAreFaults`, `ImplementsRegister` |
| `speech` | 1 creating and 2 polling requests, lifetimes 1 and 3, timeout 1, skew 1, 1 revocation, fair | `RejectionsHaveCause`, `TokensAreShared`, `WaitsEnd` |
| `server` | 2 requests, 2 deliveries, 3 attempts to connect, fair | `NoUseAfterClose`, `SuccessIsDrained`, `SignalEnds` |

What they show, chat jobs:

* `ExclusiveProcessing`, `OwnersHoldRows`: the conditional claim is the only lock
  and it suffices; while a worker owns a job nobody changes its attempt count.
* `AttemptsBounded`: although neither claim nor queue looks at the limit.
* `NoDuplicateTurns`, `CompletedWithOwnReply`: retries and lost commits never
  store a second question or reply, and a reply that a later attempt recovers, after
  a commit or a completion that was reported as failed, is the job's own.
* `OutcomeIsFinal`: an owner that lost the reply of `Complete` still runs Retry or
  Fail; neither changes the outcome.
* `StrandedByOutages`: an accepted job is forgotten only by an outage, one job for
  each, or (with two backends only) by a lost channel: the second backend
  acknowledges the redelivery while the first still works and may yet retry.
* `PublishedSettles`: in the compose deployment, with one backend and no outage,
  every job whose message was queued gets an outcome, however the model behaves; also
  one whose client was told of an error because the confirm was lost.
* `QueueDrains`: immediate requeueing does not let a message circulate for ever.
* `ImplementsLifecycle`: the client's view refines `JobLifecycle`. A job fails only
  after all its attempts; it is answered only while processing, and once.

Chat over HTTP:

* `DoneIsStored`: whoever reads `done` (or 200) reads a committed reply, and has
  been sent exactly its text, through buffer, forward or direct deltas.
* `OneRoundIsShown`: text of the planning round stays in the buffer until it is
  sure that no tool is called, also when the round fails or overflows the buffer.
* `TruncatedStreamIsNotStored`: a stream that breaks is never stored as a reply.
* `ErrorsHideFewReplies`: told of an error although the reply is stored, is only
  who met a lost commit; a client that leaves or a deadline does not cause it.
* `TurnsAreWhole`, `CallsAreClosed`: no half turns, and no call stays running but
  one for each cleanup that failed.

Email verification, rate limiter, documents, speech, server:

* `ImplementsOneTimeCode`: whatever races, one code is live, it is redeemed at most
  once, and only its redeemer becomes the user; although the insert comes after,
  and may fail after, the consumption.
* `CooldownIsOfCode`, `AcceptedCodeStands`: a late cleanup of a failed mail takes
  back its own code with its own cooldown or nothing.
* `UnsentCodesHaveCause`: a code that blocks the next and was never mailed is left by
  a process that ended between the save and the answer, or by a reply or a delete that
  was lost; not by a failed mail, a client that leaves, or another send.
* `GuessesBounded`: no interleaving of guesses, replacements, expiry and repeated
  scripts gives a code more than its attempts.
* `WindowBound`, `SlidingBound`: at most the limit in a window, over all the routes
  that share it; at most `2 * Limit - 1` in any stretch of the window's length.
* `CountersExpire`, `LockoutEnds`, `RetryAfterFits`: a refusal ends even for a
  client that never stops asking, when `Retry-After` says, rounded up.
* `ImplementsRegister`: a reader works with the document that was in force at one
  moment, whole, though it reads pointer and chunks in two steps. It needs the
  expiry of a replaced version to be longer than a chat may take
  (`RagAssumption`; in the code 24 hours and two minutes).
* `OnlyCurrentIsKept`, `CurrentKeepsFile`: the chunks in force never expire, and
  their file is deleted by nobody; the exception is an activation that ran twice,
  with another upload in between, which then removes what is in force again.
* `LeftoversAreFaults`: files nobody refers to are as many as faults.
* `ChunksCoverDocument`, `BestChunksFound`: the splitter and the search against
  what they should compute, for every document and every scoring of the instance.
* `RejectionsHaveCause`: a token that was not revoked is rejected only if the call that
  brought it and the call that uses it took, together, longer than the skew or the
  whole lifetime. The code does not rule that out: the timeout is any positive number
  of seconds (`BAIDU_TTS_TIMEOUT_SECONDS`, bootstrap.go:383, client.go:76-79) and the
  skew is fixed at 60 s (client.go:24). With the default timeout of 10 s the two calls
  fit; with one over 30 s they need not, and the instance is such a one.
* `TokensAreShared`, `WaitsEnd`: one token for all; the mutex that is held during
  the call is given back on every path.
* `NoUseAfterClose`, `SuccessIsDrained`, `SignalEnds`: the deferred closes wait for
  whoever uses the pool or the session, also on the paths that drain nothing; exit
  status 0 means that requests and jobs are settled; a request that never ends does
  not keep the process.

**Bounds.** Two workers are enough for every race over a claim (the row admits
one winner; a third worker behaves as the second). Two jobs are enough for mixed
replies and for displacement from the history; one job is enough for properties
of one job, as jobs interact only through the history of a conversation. With
`HistoryLimit = 1` a single other message displaces the question. Three attempts
give a first, a middle and a last one. One outage and one lost channel combine
with each other and with up to two failures. In `recovered_reply` a reply is recovered
after the one failure, with the turns of the other job in the same conversation before
and after it; outages are left to `two_backends`, as a job that meets one is claimed by
nobody again.

Two chats meet in one conversation; responses of two pieces are longer than the
planning buffer and than one event. Two sends give a code and its replacement
within reach of a cleanup; three registrations a right and two wrong guesses, one
more than the attempts. A code outlives its cooldown by a tick, so all orders of
the two expiries occur. Two devices in two places share a user and not an address.
Windows of 3 and 2 ticks with seconds of 2 have a remainder to round. Three
uploads give a replaced version, its replacement, and one whose activation runs
again between them; documents of 4 and 8 end in and beyond a chunk, with the
overlap at the end. Two calls may take longer than the skew and
than the short lifetime, and shorter than the long one, so each cause of a rejection
occurs without the others. Three
attempts to connect have a first, a middle and a last.

`Symmetry` permutes jobs and workers, sends and registrations, or uploads, and is
used only in runs without liveness. `MaxFailures`, `MaxOutages`, `MaxLosses`,
`MaxPosts`, `MaxLost`, `MaxPieces`, `MaxRuns`, `MaxRevoked` and `MaxJobs` are bounds
of the model, not of the code; failures that merely end an attempt (of the model,
of a read, of a rolled back write) are not bounded by them.

**Fairness.** `ChatJob`: `WF(Process(w))`, a consumer goroutine that is not killed
takes its next step; its calls end because the job context has a deadline of two
minutes and the cleanup contexts of five seconds. `WF(Deliver(w))`: the broker
delivers to a waiting consumer, and compose restarts a backend that ended.
`ChatHTTP`: `WF(Serve(p))`, a handler goes on while it can, and `WF(Expire(p))`,
the deadline of two minutes passes. `RateLimiter`: time passes. `Speech`: a free
mutex is given to one that waits, and a call ends at the latest by the timeout of
the HTTP client. `Server`: `run()` goes on, the time limit passes, a statement and
the classification of one picture end. Nothing is assumed of clients, of upstream,
of crashes, channels, deletions, or of a request that waits for the network: an
upload or a mail has no deadline of its own, and `SignalEnds` holds without one.

## 4. Findings

* `ack_without_outcome`: `docs/BACKEND_OVERVIEW.md:158` says an Ack confirms a
  definite outcome, and the comment at `chatjob/service.go:84` that a job that
  cannot be claimed is Nacked. The code returns nil (line 85-87), so the only
  message of a job left in `processing` by a crash is acknowledged.
  `docs/CHATJOB_RECOVERY_PLAN.md` describes the gap and postpones its repair.
* `incomplete`: the status table at `modelcall/model.go:56` says a result that the
  provider declares incomplete is recorded as `incomplete`. The streaming path does
  so (`openai/client.go:366`); the others turn any response into a result without a
  look at its status (`openai/client.go:88`), so a plain chat or a job stores a
  truncated reply as completed.

Noticed, and not a run: a task may be created in state `Created`, which
`validCreateStatus` accepts because "both mean accepted and not yet complete"
(`baidutts/client.go:204`), but a poll that still finds `Created` is answered with
an invalid-response error (`client.go:285`). What states a poll may meet is the
provider's to say, so it is modelled (`ReplyTo`) and no property is stated.

## 5. Proofs

The theorems hold for all values of the constants that satisfy the named
assumptions, that is for any number of jobs, workers, requests, attempts,
failures, and for any expiry times. Every step is checked by `tlapm`.

| Module, assumptions | Theorem | Statement |
|---|---|---|
| `ChatJobProofs` (`StoreAssumption`, `ChatAssumption`, `ChatJobAssumption`) | `TypeCorrect` | `Spec => []TypeOK` |
| | `ProcessingIsExclusive` | `Spec => []ExclusiveProcessing` |
| | `OwnersKeepRows` | `Spec => []OwnersHoldRows` |
| | `AttemptsAreBounded` | `Spec => []AttemptsBounded` |
| | `OutcomesAreFinal` | `Spec => OutcomeIsFinal` |
| | `TurnsAreSingle` | `Spec => []NoDuplicateTurns` |
| | `CompletedJobsHaveTheirReply` | `Spec => []CompletedWithOwnReply` |
| | `JobsFollowLifecycle` | `Spec => ImplementsLifecycle` |
| | `OrphansAreFew` | `Spec => []OrphansBounded` |
| | `StrandedJobsAreFew` | `Spec => []StrandedByOutages` |
| `ChatHTTPProofs` (`StoreAssumption`, `ChatAssumption`, `ChatHTTPAssumption`) | `OneRoundShown` | `Spec => []OneRoundIsShown` |
| | `DoneMeansStored` | `Spec => []DoneIsStored` |
| | `TruncatedIsNotStored` | `Spec => []TruncatedStreamIsNotStored` |
| | `TurnsStayWhole` | `Spec => []TurnsAreWhole` |
| | `ErrorsHideFew` | `Spec => []ErrorsHideFewReplies` |
| `EmailVerificationProofs` (`EmailAssumption`) | `CooldownBelongs` | `Spec => [](EmailTypeOK /\ CooldownIsOfCode)` |
| | `GuessesAreBounded` | `Spec => []GuessesBounded` |
| | `UnsentCodesAreCaused` | `Spec => []UnsentCodesHaveCause` |
| | `AcceptedCodesStand` | `Spec => AcceptedCodeStands` |
| | `CodesAreOneTime` | `Spec => ImplementsOneTimeCode` |
| `RagDocumentProofs` (`RagAssumption`) | `CurrentIsKept` | `Spec => []OnlyCurrentIsKept` |
| | `CurrentHasFile` | `Spec => []CurrentKeepsFile` |
| | `DocumentIsRegister` | `Spec => ImplementsRegister` |
| | `LeftoversAreFew` | `Spec => []LeftoversAreFaults` |
| | `ChunksCover` | `Spec => []ChunksCoverDocument` |
| | `BestAreFound` | `Spec => []BestChunksFound` |
| `RateLimiterProofs` (`LimiterAssumption`) | `CountersDoExpire` | `Spec => []CountersExpire` |
| | `RetryAfterIsRight` | `Spec => []RetryAfterFits` |
| | `WindowsBound` | `Spec => []WindowBound` |
| | `SlidingIsBounded` | `Spec => []SlidingBound` |
| `SpeechProofs` (`SpeechAssumption`) | `RejectionsAreCaused` | `Spec => []RejectionsHaveCause` |
| | `SkewCoversTwoCalls` | if `2 * Timeout <= Skew`: `Spec => []` (a rejected token was revoked, or issued for at most `2 * Timeout`) |
| | `OneTokenIsShared` | `Spec => []TokensAreShared` |
| `ServerProofs` (`ServerAssumption`) | `NothingIsUsedAfterClose` | `Spec => []NoUseAfterClose` |
| | `SuccessMeansDrained` | `Spec => []SuccessIsDrained` |

**Chat jobs.** `TypeOK` is inductive by itself because two parts of it relate
fields: a chat in stage `finish` knows a terminal cause, a busy worker has a job.
It is proved per layer (`StoreTypeStep`, `ChatTypeStep`, `JobTypeStep`).
`ExclusiveProcessing` and `AttemptsBounded` are not inductive: from a state with an
owned row in `pending` a second worker could claim it. `ClaimInv` adds
`OwnersHoldRows` (an owner's row is neither absent nor pending, its attempt count
is the one the owner read, and an owner about to retry has attempts left) and
`AttemptsLeft` (a pending row has attempts left, and a job nobody asked for yet is
absent with none used). `ClaimStep` shows that it is inductive, by four kinds of
step: a worker lets go (`WorkerLetsGo`), an owner moves and rewrites its row
(`OwnerMoves`, `OwnerGoesOn`), a worker claims (`OwnerClaims`), and the steps that
touch neither. `OutcomesAreFinal` follows: no statement matches a settled row but
the cascade.

What is stored for a job needs `WorkInv` on top. `TurnsInv` (in `ChatProofs`, about
the tables alone) says that questions and answers of a topic are at most one and
that a completed call joins them; `StatusOK` what a row says of its conversation
and its reply; `WorkerInv` what a worker knows at each place: until `Save` commits
there is no reply to its question, and the reply it is about to complete the job
with is one. Exclusive processing is what makes that knowledge last: what a worker
read before a call is still true after it because no other worker writes for the
job (`OthersKeep` of `ChatJobProofs`). `ImplementsLifecycle` follows with `LastAttempt`, that a
worker gives up only when the attempt it counted was the last.

The two bounds count. `OrphansBounded` is strengthened from calls that nobody can
close to `Doomed` ones, whose chat is past its last look at them (`ChatPlace`: which
chat a call belongs to): a failed statement or a kill makes one more at most, and a
new chat starts with none. `StrandedByOutages` is strengthened to `Forsaken` jobs,
those not `Safe`: a pending one needs its message, in the queue or in the hands of
a worker about to claim it, a processing one an owner whose delivery is `Held`,
that is his own or, with a single worker, will return to nobody else. A lost
channel breaks that for the job of its delivery, an outage for the job of the
worker that dies, and no other step does. It is the one proof that needs the
workers to be finite in number, which `ChatJobAssumption` says; a deployment has
as many as its compose file.

**Chat over HTTP.** The invariant `Inv` says of each request where its handler is
(`PlaceInv`: which stages go with which round and answer), what it has sent
(`SentInv`: only text of the round, nothing of a planning round unless forwarded),
and how sent and accumulated text relate (`StreamInv`); and of the tables
(`CallsHaveRequests`, `AnswerInv`) that a request with a completed call is past
`Save`, that one with a reply has such a call, and that its call is to its own
question. A step of one request leaves the calls of the others alone
(`QuestionStored`, `OthersKeep`), which is why the per-request parts are enough.

`TurnsAreWhole` is inductive once it is said without cardinalities (`WholeInv`): each
question has `OneCall`, each answer a call that `RepliesTo` it; rows only come in
pairs or go with their conversation. For `ErrorsHideFewReplies` the set that is
counted must not depend on what a client will be told, so `Hidden` has every
request whose reply is stored, that does not hold it, and that was not told
`done`: only a commit whose result is lost puts a request there.

**Email verification.** `GuessesBounded` needs the counter to be no smaller than
the registrations compared with the stored code (`Counted`) and a code not yet
stored to be unknown (`Fresh`). `MailInv` says that an accepted send was mailed and
that a failed one has left its code only by a loss; with `Fresh` that is
`UnsentCodesHaveCause`, as the other sends are under way or stopped.
`AcceptedCodeStands` follows from the steps, as only `Cleanup` of a send that is not
accepted could object. The refinement needs `Spent`: whoever is past its
guess holds a code that is no longer stored, so that a redemption always finds a
live code and its redeemer is the only one.

**Documents.** `UploadInv` says whose activation has run; `FileInv` that an upload
has its file until then, and that what it replaced is not in force again. For the
register, `ReadInv` is the argument about time: the chunks of a reader's version
live for `VersionTTL` from the moment they are replaced, and the reader's age is
less. For `LeftoversAreFaults` every upload under way cares for one file at most
(`ItemOf`: the one it is going to rename, to put in force or to remove), and the files
that nobody cares for, `Uncared`, are no more than the losses.

The splitter is a loop, modelled as a recursive function of the start of a chunk.
That such a function exists (`SplitExists`) and that its chunks cover the rest of the
text from any start (`SplitCovers`) are inductions; they are done with least elements
of sets of natural numbers (`SmallestOf`, from the library's `WFMin`) in place of an
induction theorem, whose operator parameter no installed prover instantiates. The
stable sort of the search is modelled by the places it gives: a chunk comes after
those `AheadOf` it. The sort of the community modules would do as well for TLC, but
the prover does not know `SortSeq`. `RankTaken`, a pigeonhole argument, shows that
each place has exactly one chunk, and `SearchFindsBest` that the first places have
the best. `FoundInv` carries that from the search to later states: an upload that
somebody read does not change its length.

**Rate limiter.** `KeyInv`: counter, expiry and promise of a key; the arithmetic is
that of rounding up (`RoundUp`). The bounds are about sums over sets, stated as the
number of units (`Units`, `Total`) so that a sum grows by one where a set gets one more
member. `SlidingBound` is not inductive: what counts is how the recent requests lie
around the start of the window. `Slides` says it of each key: while the window is `e`
ticks old, the ticks since its first let less than the limit through, those with
the first no more than the limit and than the counter, and the ticks before it less
than the limit, as the window that started then began with a request that has left
the interval by now. A tick ages all of them, which is an injection on the units.

**Speech.** `MutexInv` (one request waits for a token, and the cached one is no good
meanwhile), `CacheInv` (what the client believes of the cached token is off by no
more than the call took that brought it), `RequestInv` (what a token is still good
for, by the age of the call), `SpareInv` (good tokens that are neither cached nor on
their way were lost), `IssuedInOrder` (there is a number left for every token asked
for). From `RequestInv` and
the timeout of a call, `SkewCoversTwoCalls`.

**Server.** `Held`: who holds the pool or the session keeps it open. `DrainInv`: what
each place of `run()` knows of HTTP server, consumer and requests.

Only model-checked: the liveness properties `PublishedSettles`, `QueueDrains`,
`CallsAreClosed`, `LockoutEnds`, `WaitsEnd`, `SignalEnds` (liveness under fairness
is beyond the prover), and what the two runs of section 4 refute, where the
counterexample is the result. Every other property of a run is a theorem.

## 6. Plan

Done: all modules of section 2, their runs, and the theorems above. Left: parts
of the code that are listed as partly or not modelled in section 1, where they
would gain concurrency or state of their own.
