----------------------------- MODULE ChatStore -----------------------------
(***************************************************************************)
(* The PostgreSQL tables that chats and chat jobs share, and the SQL       *)
(* statements that write them, one operator per statement.  A statement    *)
(* is a guard, which says that it matches its rows, and an effect.  Each   *)
(* is atomic: the code issues it as one UPDATE or INSERT, or as a          *)
(* transaction of its own (READ COMMITTED with row locks).                 *)
(*                                                                         *)
(* Message ids and call ids are positions in the tables, so the order of   *)
(* ids is the order of insertion.  Rows are never updated across           *)
(* conversations, so ownership (the user_id of every WHERE clause) is left *)
(* out: a conversation has one owner, and every caller modelled is it.     *)
(***************************************************************************)
EXTENDS Naturals, Sequences, FiniteSets

CONSTANTS
  Convs,      \* conversations
  Jobs,       \* chat job requests that clients make
  ConvOf,     \* the conversation each job request names
  Topics,     \* contents of user messages; every job has its own content
  Causes      \* ways a model call can end other than with a reply

ASSUME StoreAssumption ==
  /\ ConvOf \in [Jobs -> Convs]
  /\ Jobs \subseteq Topics
  /\ Causes # {}
  /\ Causes \subseteq {"failed", "cancelled", "timed_out", "incomplete"}

VARIABLES
  convs,      \* the conversations that exist
  messages,   \* table messages
  calls,      \* table model_calls
  jobs        \* table chat_jobs, one row for each request

storeVars == <<convs, messages, calls, jobs>>

None == 0     \* SQL NULL, and the id of nothing: ids start at 1

Roles == {"user", "assistant"}
Message == [conv: Convs, role: Roles, topic: Topics]
Call == [request: Nat, status: {"running", "completed"} \cup Causes, assistant: Nat]

JobStatus == {"absent", "pending", "processing", "completed", "failed", "deleted"}
ErrorCodes == {"", "over_max_retry_time", "chat_timed_out", "chat_failed", "complete_failed"}
Job == [status: JobStatus, attempts: Nat, request: Nat, assistant: Nat, error: ErrorCodes]

StoreTypeOK ==
  /\ convs \subseteq Convs
  /\ messages \in Seq(Message)
  /\ calls \in Seq(Call)
  /\ jobs \in [Jobs -> Job]

StoreInit ==
  /\ convs = Convs
  /\ messages = <<>>
  /\ calls = <<>>
  /\ jobs = [j \in Jobs |-> [status |-> "absent", attempts |-> 0, request |-> None,
                             assistant |-> None, error |-> ""]]

----------------------------------------------------------------------------
(* Messages                                                                *)

\* Message m is a row of a conversation that still exists.
Visible(m) == m \in DOMAIN messages /\ messages[m].conv \in convs

InsertMessage(c, role, t) ==
  messages' = Append(messages, [conv |-> c, role |-> role, topic |-> t])

\* The ids of the last n messages of conversation c.
Recent(c, n) ==
  LET mine == {m \in DOMAIN messages : messages[m].conv = c}
  IN  {m \in mine : Cardinality({x \in mine : x >= m}) <= n}

\* DELETE FROM conversations: ON DELETE CASCADE removes the rows of the other
\* tables.  A removed message or call stays in its sequence, where Visible and
\* LiveCall no longer admit it.
DeleteConversationRow(c) ==
  /\ convs' = convs \ {c}
  /\ jobs' = [j \in Jobs |->
               IF ConvOf[j] = c /\ jobs[j].status # "absent"
               THEN [jobs[j] EXCEPT !.status = "deleted"]
               ELSE jobs[j]]

----------------------------------------------------------------------------
(* Model calls                                                             *)

InsertRunningModelCall(m) ==
  calls' = Append(calls, [request |-> m, status |-> "running", assistant |-> None])

LiveCall(k) ==
  k \in DOMAIN calls /\ calls[k].status = "running" /\ Visible(calls[k].request)

\* One transaction: insert the reply of call k and complete the call.
InsertReplyAndCompleteModelCall(k) ==
  LET request == messages[calls[k].request]
  IN  /\ InsertMessage(request.conv, "assistant", request.topic)
      /\ calls' = [calls EXCEPT ![k].status = "completed",
                                ![k].assistant = Len(messages) + 1]

FinishModelCall(k, cause) == calls' = [calls EXCEPT ![k].status = cause]

----------------------------------------------------------------------------
(* Chat jobs                                                               *)

InsertPendingChatJob(j) == jobs' = [jobs EXCEPT ![j].status = "pending"]

\* Mutant: a claim that also takes over jobs in processing, as a lease would.
ClaimableByTakeover(j) == jobs[j].status \in {"pending", "processing"}

Claimable(j) == jobs[j].status = "pending"

ClaimPendingChatJob(j) ==
  jobs' = [jobs EXCEPT ![j].status = "processing", ![j].attempts = @ + 1]

\* Mutant: the later updates only ask that the job exists.
ProcessingUnguarded(j) == jobs[j].status \notin {"absent", "deleted"}

Processing(j) == jobs[j].status = "processing"

RetryChatJob(j) == jobs' = [jobs EXCEPT ![j].status = "pending"]

\* The request message that EnsureChatJobRequestMessage binds to job j and returns.
RequestMessageOf(j) ==
  IF jobs[j].request # None THEN jobs[j].request ELSE Len(messages) + 1

\* Mutant: every attempt stores the question anew.
EnsureByInserting(j) ==
  /\ InsertMessage(ConvOf[j], "user", j)
  /\ jobs' = [jobs EXCEPT ![j].request = Len(messages) + 1]

EnsureChatJobRequestMessage(j) ==
  /\ IF jobs[j].request # None
     THEN UNCHANGED messages
     ELSE InsertMessage(ConvOf[j], "user", j)
  /\ jobs' = [jobs EXCEPT ![j].request = RequestMessageOf(j)]

\* Mutant: any completed call of the conversation will do.
CompletedCallsOfConv(j) == {k \in DOMAIN calls : calls[k].status = "completed"}

\* Completed calls of job j's request message, with their replies.
CompletedCalls(j) ==
  {k \in DOMAIN calls : /\ calls[k].status = "completed"
                        /\ calls[k].request = jobs[j].request
                        /\ jobs[j].request # None}

\* The last of them is the one the query returns.
Latest(ids) == {k \in ids : \A x \in ids : x <= k}

CompleteChatJob(j, m) ==
  jobs' = [jobs EXCEPT ![j].status = "completed", ![j].assistant = m]

\* CompleteChatJob matches only a job in processing and a reply of its conversation.
Completable(j, m) ==
  /\ Processing(j)
  /\ Visible(m)
  /\ messages[m].conv = ConvOf[j]
  /\ messages[m].role = "assistant"

FailChatJob(j, code) ==
  jobs' = [jobs EXCEPT ![j].status = "failed", ![j].error = code]
=============================================================================
