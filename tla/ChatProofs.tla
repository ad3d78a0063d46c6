----------------------------- MODULE ChatProofs -----------------------------
(* What the statements of ChatStore and the steps of Chat do to their types, *)
(* for any conversations, jobs, processes and bounds.                        *)
EXTENDS Chat, SequenceTheorems, TLAPS

USE StoreAssumption, ChatAssumption

----------------------------------------------------------------------------
(* The rows of the two append-only tables.                                 *)

LEMMA Rows ==
  ASSUME NEW S, NEW seq \in Seq(S)
  PROVE  /\ Len(seq) \in Nat
         /\ DOMAIN seq = 1..Len(seq)
         /\ \A i \in DOMAIN seq : seq[i] \in S
BY LenProperties, ElementOfSeq

LEMMA CallRows ==
  ASSUME StoreTypeOK
  PROVE  /\ Len(calls) \in Nat
         /\ DOMAIN calls = 1..Len(calls)
         /\ \A k \in DOMAIN calls : calls[k] \in Call
<1>1. calls \in Seq(Call)
    BY DEF StoreTypeOK
<1> QED BY <1>1, Rows

LEMMA MessageRows ==
  ASSUME StoreTypeOK
  PROVE  /\ Len(messages) \in Nat
         /\ DOMAIN messages = 1..Len(messages)
         /\ \A m \in DOMAIN messages : messages[m] \in Message
<1>1. messages \in Seq(Message)
    BY DEF StoreTypeOK
<1> QED BY <1>1, Rows

----------------------------------------------------------------------------
(* The tables.                                                             *)

LEMMA JobUpdated ==
  ASSUME StoreTypeOK, NEW j \in Jobs, NEW r \in Job, jobs' = [jobs EXCEPT ![j] = r]
  PROVE  jobs' \in [Jobs -> Job]
BY DEF StoreTypeOK

LEMMA JobStatements ==
  ASSUME StoreTypeOK, NEW j \in Jobs,
         \/ InsertPendingChatJob(j)
         \/ ClaimPendingChatJob(j)
         \/ RetryChatJob(j)
         \/ \E m \in Nat : CompleteChatJob(j, m)
         \/ \E code \in ErrorCodes : FailChatJob(j, code)
  PROVE  jobs' \in [Jobs -> Job]
<1>1. /\ jobs[j] \in Job
      /\ jobs \in [Jobs -> Job]
    BY DEF StoreTypeOK
<1>2. CASE InsertPendingChatJob(j) \/ RetryChatJob(j)
  <2>1. [jobs[j] EXCEPT !.status = "pending"] \in Job
    BY <1>1 DEF Job, JobStatus
  <2>2. jobs' = [jobs EXCEPT ![j] = [jobs[j] EXCEPT !.status = "pending"]]
    BY <1>1, <1>2 DEF InsertPendingChatJob, RetryChatJob
  <2> QED BY <2>1, <2>2, JobUpdated
<1>3. CASE ClaimPendingChatJob(j)
  <2> DEFINE r == [jobs[j] EXCEPT !.status = "processing", !.attempts = jobs[j].attempts + 1]
  <2>1. r \in Job
    <3>1. jobs[j].attempts \in Nat
      BY <1>1 DEF Job
    <3>2. jobs[j].attempts + 1 \in Nat
      BY <3>1
    <3> QED BY <1>1, <3>2 DEF Job, JobStatus
  <2>2. jobs' = [jobs EXCEPT ![j] = r]
    BY <1>1, <1>3 DEF ClaimPendingChatJob
  <2> QED BY <2>1, <2>2, JobUpdated
<1>4. ASSUME NEW m \in Nat, CompleteChatJob(j, m)
      PROVE  jobs' \in [Jobs -> Job]
  <2> DEFINE r == [jobs[j] EXCEPT !.status = "completed", !.assistant = m]
  <2>1. r \in Job
    BY <1>1 DEF Job, JobStatus
  <2>2. jobs' = [jobs EXCEPT ![j] = r]
    BY <1>1, <1>4 DEF CompleteChatJob
  <2> QED BY <2>1, <2>2, JobUpdated
<1>5. ASSUME NEW code \in ErrorCodes, FailChatJob(j, code)
      PROVE  jobs' \in [Jobs -> Job]
  <2> DEFINE r == [jobs[j] EXCEPT !.status = "failed", !.error = code]
  <2>1. r \in Job
    BY <1>1 DEF Job, JobStatus
  <2>2. jobs' = [jobs EXCEPT ![j] = r]
    BY <1>1, <1>5 DEF FailChatJob
  <2> QED BY <2>1, <2>2, JobUpdated
<1> QED BY <1>2, <1>3, <1>4, <1>5

LEMMA MessageInserted ==
  ASSUME StoreTypeOK, NEW c \in Convs, NEW role \in Roles, NEW t \in Topics,
         InsertMessage(c, role, t)
  PROVE  messages' \in Seq(Message)
<1>1. [conv |-> c, role |-> role, topic |-> t] \in Message
    BY DEF Message
<1> QED BY <1>1, AppendProperties DEF InsertMessage, StoreTypeOK

LEMMA RequestEnsured ==
  ASSUME StoreTypeOK, NEW j \in Jobs, EnsureChatJobRequestMessage(j)
  PROVE  messages' \in Seq(Message) /\ jobs' \in [Jobs -> Job]
<1>1. jobs[j] \in Job /\ jobs \in [Jobs -> Job] /\ messages \in Seq(Message)
    BY DEF StoreTypeOK
<1>2. RequestMessageOf(j) \in Nat
    BY <1>1, MessageRows DEF RequestMessageOf, Job
<1>3. [jobs[j] EXCEPT !.request = RequestMessageOf(j)] \in Job
    BY <1>1, <1>2 DEF Job
<1>4. jobs' = [jobs EXCEPT ![j] = [jobs[j] EXCEPT !.request = RequestMessageOf(j)]]
    BY <1>1 DEF EnsureChatJobRequestMessage
<1>5. ConvOf[j] \in Convs /\ "user" \in Roles /\ j \in Topics
    BY DEF Roles
<1>6. messages' \in Seq(Message)
    BY <1>1, <1>5, MessageInserted DEF EnsureChatJobRequestMessage
<1> QED BY <1>3, <1>4, <1>6, JobUpdated

LEMMA CallInserted ==
  ASSUME StoreTypeOK, NEW m \in Nat, InsertRunningModelCall(m)
  PROVE  calls' \in Seq(Call)
<1>1. [request |-> m, status |-> "running", assistant |-> None] \in Call
    BY DEF Call, None
<1> QED BY <1>1, AppendProperties DEF InsertRunningModelCall, StoreTypeOK

LEMMA CallUpdated ==
  ASSUME StoreTypeOK, NEW k \in DOMAIN calls, NEW r \in Call
  PROVE  [calls EXCEPT ![k] = r] \in Seq(Call)
<1>1. calls \in Seq(Call) /\ k \in 1..Len(calls)
    BY CallRows DEF StoreTypeOK
<1> QED BY <1>1, ExceptSeq

LEMMA CallFinished ==
  ASSUME StoreTypeOK, NEW k \in DOMAIN calls, NEW cause \in Causes, FinishModelCall(k, cause)
  PROVE  calls' \in Seq(Call)
<1>1. [calls[k] EXCEPT !.status = cause] \in Call
    BY CallRows DEF Call
<1>2. calls' = [calls EXCEPT ![k] = [calls[k] EXCEPT !.status = cause]]
    BY CallRows DEF FinishModelCall
<1> QED BY <1>1, <1>2, CallUpdated

LEMMA ReplyInserted ==
  ASSUME StoreTypeOK, NEW k, LiveCall(k), InsertReplyAndCompleteModelCall(k)
  PROVE  messages' \in Seq(Message) /\ calls' \in Seq(Call)
<1>1. k \in DOMAIN calls /\ calls[k].request \in DOMAIN messages
    BY DEF LiveCall, Visible
<1>2. messages[calls[k].request] \in Message
    BY <1>1, MessageRows
<1>3. messages' \in Seq(Message)
    BY <1>2, MessageInserted DEF InsertReplyAndCompleteModelCall, Message, Roles
<1> DEFINE r == [calls[k] EXCEPT !.status = "completed", !.assistant = Len(messages) + 1]
<1>4. r \in Call
  <2>1. calls[k] \in Call /\ Len(messages) + 1 \in Nat
    BY <1>1, CallRows, MessageRows
  <2> QED BY <2>1 DEF Call
<1>5. calls' = [calls EXCEPT ![k] = r]
    BY <1>1, CallRows DEF InsertReplyAndCompleteModelCall
<1> QED BY <1>1, <1>3, <1>4, <1>5, CallUpdated

----------------------------------------------------------------------------
(* The chats.                                                              *)

LEMMA ChatUpdated ==
  ASSUME ChatsOK, NEW p \in Procs, NEW r \in ChatRecord,
         r.stage = "finish" => r.cause \in Causes,
         chat' = [chat EXCEPT ![p] = r]
  PROVE  ChatsOK'
BY DEF ChatsOK

LEMMA ChatGoto ==
  ASSUME ChatsOK, NEW p \in Procs, NEW stage \in ChatStage \ {"finish"},
         Goto(p, stage)
  PROVE  ChatsOK'
<1> DEFINE r == [chat[p] EXCEPT !.stage = stage]
<1>1. chat[p] \in ChatRecord
    BY DEF ChatsOK
<1>2. r \in ChatRecord
    BY <1>1 DEF ChatRecord, ChatStage
<1>3. r.stage = "finish" => r.cause \in Causes
    BY <1>1 DEF ChatRecord
<1>4. chat' = [chat EXCEPT ![p] = r]
    BY <1>1 DEF ChatsOK, Goto
<1> QED BY <1>2, <1>3, <1>4, ChatUpdated

LEMMA ChatFails ==
  ASSUME ChatsOK, NEW p \in Procs, NEW cause \in Causes,
         FailWith(p, cause)
  PROVE  ChatsOK'
<1> DEFINE r == [chat[p] EXCEPT !.stage = "finish", !.cause = cause]
<1>1. chat[p] \in ChatRecord
    BY DEF ChatsOK
<1>2. r \in ChatRecord
    BY <1>1 DEF ChatRecord, ChatStage
<1>3. r.stage = "finish" => r.cause \in Causes
    BY <1>1 DEF ChatRecord
<1>4. chat' = [chat EXCEPT ![p] = r]
    BY <1>1 DEF ChatsOK, FailWith
<1> QED BY <1>2, <1>3, <1>4, ChatUpdated

LEMMA ChatAbandoned ==
  ASSUME ChatsOK, NEW p \in Procs, NEW cause \in Causes,
         Abandon(p, cause)
  PROVE  ChatsOK'
<1> DEFINE r == [chat[p] EXCEPT !.stage = "done", !.cause = cause]
<1>1. chat[p] \in ChatRecord
    BY DEF ChatsOK
<1>2. r \in ChatRecord
    BY <1>1 DEF ChatRecord, ChatStage
<1>3. r.stage = "finish" => r.cause \in Causes
    BY <1>1 DEF ChatRecord
<1>4. chat' = [chat EXCEPT ![p] = r]
    BY <1>1 DEF ChatsOK, Abandon
<1> QED BY <1>2, <1>3, <1>4, ChatUpdated

LEMMA ChatCalls ==
  ASSUME ChatsOK, NEW p \in Procs, NEW k \in Nat,
         chat' = [chat EXCEPT ![p].stage = "history", ![p].call = k]
  PROVE  ChatsOK'
<1> DEFINE r == [chat[p] EXCEPT !.stage = "history", !.call = k]
<1>1. chat[p] \in ChatRecord
    BY DEF ChatsOK
<1>2. r \in ChatRecord
    BY <1>1 DEF ChatRecord, ChatStage
<1>3. r.stage = "finish" => r.cause \in Causes
    BY <1>1 DEF ChatRecord
<1>4. chat' = [chat EXCEPT ![p] = r]
    BY <1>1 DEF ChatsOK
<1> QED BY <1>2, <1>3, <1>4, ChatUpdated

LEMMA ChatReplies ==
  ASSUME ChatsOK, NEW p \in Procs, NEW m \in Nat,
         chat' = [chat EXCEPT ![p].stage = "done", ![p].reply = m]
  PROVE  ChatsOK'
<1> DEFINE r == [chat[p] EXCEPT !.stage = "done", !.reply = m]
<1>1. chat[p] \in ChatRecord
    BY DEF ChatsOK
<1>2. r \in ChatRecord
    BY <1>1 DEF ChatRecord, ChatStage
<1>3. r.stage = "finish" => r.cause \in Causes
    BY <1>1 DEF ChatRecord
<1>4. chat' = [chat EXCEPT ![p] = r]
    BY <1>1 DEF ChatsOK
<1> QED BY <1>2, <1>3, <1>4, ChatUpdated

LEMMA ChatBegins ==
  ASSUME ChatsOK, NEW p \in Procs, NEW m \in Nat, BeginChat(p, m)
  PROVE  ChatsOK'
<1>1. [NoChat EXCEPT !.stage = "start", !.request = m] \in ChatRecord
    BY DEF NoChat, ChatRecord, ChatStage, None
<1>2. [NoChat EXCEPT !.stage = "start", !.request = m].stage # "finish"
    BY DEF NoChat
<1> QED BY <1>1, <1>2, ChatUpdated DEF BeginChat

LEMMA ChatEnds ==
  ASSUME ChatsOK, NEW p \in Procs, chat' = [chat EXCEPT ![p] = NoChat]
  PROVE  ChatsOK'
<1>1. NoChat \in ChatRecord /\ NoChat.stage # "finish"
    BY DEF ChatRecord, ChatStage, NoChat, None
<1> QED BY <1>1, ChatUpdated

LEMMA FailuresCounted ==
  ASSUME failures \in 0..MaxFailures, Failure \/ NoFailure
  PROVE  failures' \in 0..MaxFailures
BY DEF Failure, NoFailure

LEMMA ChatStepType ==
  ASSUME StoreTypeOK, ChatTypeOK, NEW p \in Procs, ChatStep(p)
  PROVE  ChatTypeOK'
<1>0. ChatsOK /\ failures \in 0..MaxFailures
    BY DEF ChatTypeOK
<1>1. CASE StartModelCall(p)
  <2>1. Len(calls) + 1 \in Nat
    BY CallRows
  <2>2. ChatsOK'
    BY <1>0, <1>1, <2>1, ChatCalls, ChatAbandoned DEF StartModelCall
  <2>3. failures' \in 0..MaxFailures
    BY <1>0, <1>1, FailuresCounted DEF StartModelCall
  <2> QED BY <2>2, <2>3 DEF ChatTypeOK
<1>2. CASE LoadHistory(p)
  <2>1. ChatsOK'
    BY <1>0, <1>2, ChatGoto, ChatFails DEF LoadHistory, ChatStage
  <2> QED BY <1>0, <1>2, <2>1 DEF LoadHistory, ChatTypeOK
<1>3. CASE Generate(p)
  <2>1. ChatsOK'
    BY <1>0, <1>3, ChatGoto, ChatFails DEF Generate, ChatStage
  <2> QED BY <1>0, <1>3, <2>1 DEF Generate, ChatTypeOK
<1>4. CASE SaveReply(p)
  <2>1. Len(messages) + 1 \in Nat
    BY MessageRows
  <2>2. ChatsOK'
    BY <1>0, <1>4, <2>1, ChatReplies, ChatFails DEF SaveReply
  <2>3. failures' \in 0..MaxFailures
    BY <1>0, <1>4, FailuresCounted DEF SaveReply
  <2> QED BY <2>2, <2>3 DEF ChatTypeOK
<1>5. CASE FinishCall(p)
  <2>1. chat[p].cause \in Causes
    BY <1>0, <1>5 DEF FinishCall, ChatsOK
  <2>2. ChatsOK'
    BY <1>0, <1>5, <2>1, ChatGoto, ChatAbandoned DEF FinishCall, ChatStage
  <2>3. failures' \in 0..MaxFailures
    BY <1>0, <1>5, FailuresCounted DEF FinishCall
  <2> QED BY <2>2, <2>3 DEF ChatTypeOK
<1> QED BY <1>1, <1>2, <1>3, <1>4, <1>5 DEF ChatStep

----------------------------------------------------------------------------
(* Rows that are added and replaced.                                       *)

LEMMA RowAppended ==
  ASSUME NEW S, NEW seq \in Seq(S), NEW row \in S
  PROVE  /\ DOMAIN Append(seq, row) = DOMAIN seq \cup {Len(seq) + 1}
         /\ Len(seq) + 1 \notin DOMAIN seq
         /\ Len(seq) + 1 # None
         /\ \A i \in DOMAIN seq : Append(seq, row)[i] = seq[i]
         /\ Append(seq, row)[Len(seq) + 1] = row
<1>1. /\ Append(seq, row) \in Seq(S)
      /\ Len(Append(seq, row)) = Len(seq) + 1
      /\ \A i \in 1..Len(seq) : Append(seq, row)[i] = seq[i]
      /\ Append(seq, row)[Len(seq) + 1] = row
    BY AppendProperties
<1>2. /\ Len(seq) \in Nat
      /\ DOMAIN seq = 1..Len(seq)
      /\ DOMAIN Append(seq, row) = 1..(Len(seq) + 1)
    BY <1>1, Rows
<1> QED BY <1>1, <1>2 DEF None

LEMMA MessageAppended ==
  ASSUME StoreTypeOK, NEW c \in Convs, NEW role \in Roles, NEW t \in Topics,
         InsertMessage(c, role, t)
  PROVE  /\ DOMAIN messages' = DOMAIN messages \cup {Len(messages) + 1}
         /\ Len(messages) + 1 \notin DOMAIN messages
         /\ Len(messages) + 1 # None
         /\ \A m \in DOMAIN messages : messages'[m] = messages[m]
         /\ messages'[Len(messages) + 1] = [conv |-> c, role |-> role, topic |-> t]
<1>1. [conv |-> c, role |-> role, topic |-> t] \in Message /\ messages \in Seq(Message)
    BY DEF Message, StoreTypeOK
<1> QED BY <1>1, RowAppended DEF InsertMessage

LEMMA CallAppended ==
  ASSUME StoreTypeOK, NEW m \in Nat, InsertRunningModelCall(m)
  PROVE  /\ DOMAIN calls' = DOMAIN calls \cup {Len(calls) + 1}
         /\ Len(calls) + 1 \notin DOMAIN calls
         /\ Len(calls) + 1 # None
         /\ \A k \in DOMAIN calls : calls'[k] = calls[k]
         /\ calls'[Len(calls) + 1] = [request |-> m, status |-> "running", assistant |-> None]
<1>1. [request |-> m, status |-> "running", assistant |-> None] \in Call /\ calls \in Seq(Call)
    BY DEF Call, None, StoreTypeOK
<1> QED BY <1>1, RowAppended DEF InsertRunningModelCall

\* A statement that replaces the row of call k by r.
LEMMA CallReplaced ==
  ASSUME StoreTypeOK, NEW k \in DOMAIN calls, NEW r, calls' = [calls EXCEPT ![k] = r]
  PROVE  /\ DOMAIN calls' = DOMAIN calls
         /\ calls'[k] = r
         /\ \A x \in DOMAIN calls : x # k => calls'[x] = calls[x]
OBVIOUS

----------------------------------------------------------------------------
(* The question of a job, the calls for it and the answers to it.          *)

QuestionOf(j) == [conv |-> ConvOf[j], role |-> "user", topic |-> j]
AnswerOf(j) == [conv |-> ConvOf[j], role |-> "assistant", topic |-> j]

\* The answers that the conversation shows, and those that completed calls point at.
AnswersTo(j) == {m \in DOMAIN messages : messages[m].topic = j /\ messages[m].role = "assistant"}
Replies(j) == {calls[k].assistant : k \in CompletedCalls(j)}

\* The question of a job is the message its row names, and no other.
QuestionInv ==
  \A j \in Jobs :
    /\ jobs[j].request # None => /\ jobs[j].request \in DOMAIN messages
                                 /\ messages[jobs[j].request] = QuestionOf(j)
    /\ \A m \in DOMAIN messages :
         messages[m].topic = j /\ messages[m].role = "user" => m = jobs[j].request

\* Every call is for the question of a job.
CallInv ==
  \A k \in DOMAIN calls :
    \E j \in Jobs : jobs[j].request # None /\ calls[k].request = jobs[j].request

\* A job has one answer at most, and a completed call that points at it.
AnswerInv ==
  \A j \in Jobs :
    /\ AnswersTo(j) = Replies(j)
    /\ \A m \in Replies(j) : messages[m] = AnswerOf(j)
    /\ \A m, n \in Replies(j) : m = n

TurnsInv == QuestionInv /\ CallInv /\ AnswerInv

SameReplies == \A j \in Jobs : Replies(j)' = Replies(j)

LEMMA QuestionsDiffer ==
  ASSUME QuestionInv, NEW i \in Jobs, NEW j \in Jobs, jobs[i].request # None,
         jobs[i].request = jobs[j].request
  PROVE  i = j
<1>1. QuestionOf(i) = QuestionOf(j)
    BY DEF QuestionInv
<1> QED BY <1>1 DEF QuestionOf

LEMMA TurnsUnchanged ==
  ASSUME TurnsInv, UNCHANGED <<messages, calls>>,
         \A j \in Jobs : jobs'[j].request = jobs[j].request
  PROVE  TurnsInv' /\ SameReplies
<1>1. \A j \in Jobs : CompletedCalls(j)' = CompletedCalls(j) /\ AnswersTo(j)' = AnswersTo(j)
    BY DEF CompletedCalls, AnswersTo
<1>2. SameReplies
    BY <1>1 DEF SameReplies, Replies
<1>3. QuestionInv'
    BY DEF TurnsInv, QuestionInv, QuestionOf
<1>4. CallInv'
    BY DEF TurnsInv, CallInv
<1>5. AnswerInv'
    BY <1>1, <1>2 DEF TurnsInv, AnswerInv, SameReplies, AnswerOf
<1> QED BY <1>2, <1>3, <1>4, <1>5 DEF TurnsInv

LEMMA TurnsAfterQuestion ==
  ASSUME StoreTypeOK, TurnsInv, NEW j \in Jobs, jobs[j].request = None,
         InsertMessage(ConvOf[j], "user", j), UNCHANGED calls,
         jobs'[j].request = Len(messages) + 1,
         \A i \in Jobs \ {j} : jobs'[i].request = jobs[i].request
  PROVE  TurnsInv' /\ SameReplies
<1> DEFINE new == Len(messages) + 1
<1>1. /\ DOMAIN messages' = DOMAIN messages \cup {new}
      /\ new \notin DOMAIN messages
      /\ new # None
      /\ \A m \in DOMAIN messages : messages'[m] = messages[m]
      /\ messages'[new] = QuestionOf(j)
    BY MessageAppended DEF Roles, QuestionOf
<1> HIDE DEF new
<1>2. \A k \in DOMAIN calls : calls[k].request \in DOMAIN messages
    BY DEF TurnsInv, CallInv, QuestionInv
<1>3. \A i \in Jobs : CompletedCalls(i)' = CompletedCalls(i)
  <2> SUFFICES ASSUME NEW i \in Jobs PROVE CompletedCalls(i)' = CompletedCalls(i)
      OBVIOUS
  <2>1. CASE i = j
    <3>1. CompletedCalls(j) = {}
      BY DEF CompletedCalls
    <3>2. CompletedCalls(j)' = {}
      BY <1>1, <1>2 DEF CompletedCalls, new
    <3> QED BY <2>1, <3>1, <3>2
  <2>2. CASE i # j
    BY <2>2 DEF CompletedCalls
  <2> QED BY <2>1, <2>2
<1>4. SameReplies
    BY <1>3 DEF SameReplies, Replies
<1>5. \A i \in Jobs : AnswersTo(i)' = AnswersTo(i)
    BY <1>1 DEF AnswersTo, QuestionOf
<1>6. QuestionInv'
  <2> SUFFICES ASSUME NEW i \in Jobs
               PROVE  /\ jobs'[i].request # None => /\ jobs'[i].request \in DOMAIN messages'
                                                    /\ messages'[jobs'[i].request] = QuestionOf(i)
                      /\ \A m \in DOMAIN messages' :
                           messages'[m].topic = i /\ messages'[m].role = "user"
                             => m = jobs'[i].request
      BY DEF QuestionInv, QuestionOf
  <2>1. CASE i = j
    <3>1. jobs'[j].request = new
      BY DEF new
    <3>2. \A m \in DOMAIN messages : ~(messages[m].topic = j /\ messages[m].role = "user")
      BY MessageRows DEF TurnsInv, QuestionInv, None
    <3> QED BY <1>1, <2>1, <3>1, <3>2
  <2>2. CASE i # j
    BY <1>1, <2>2 DEF TurnsInv, QuestionInv, QuestionOf
  <2> QED BY <2>1, <2>2
<1>7. CallInv'
  <2> SUFFICES ASSUME NEW k \in DOMAIN calls
               PROVE  \E i \in Jobs : jobs'[i].request # None /\ calls[k].request = jobs'[i].request
      BY DEF CallInv
  <2>1. PICK i \in Jobs : jobs[i].request # None /\ calls[k].request = jobs[i].request
      BY DEF TurnsInv, CallInv
  <2> QED BY <2>1
<1>8. AnswerInv'
  <2>1. \A i \in Jobs : Replies(i) \subseteq DOMAIN messages
      BY DEF TurnsInv, AnswerInv, AnswersTo
  <2> QED BY <1>1, <1>4, <1>5, <2>1 DEF TurnsInv, AnswerInv, SameReplies, AnswerOf
<1> QED BY <1>4, <1>6, <1>7, <1>8 DEF TurnsInv

LEMMA TurnsAfterPost ==
  ASSUME StoreTypeOK, TurnsInv, NEW c \in Convs, NEW t \in Topics \ Jobs,
         InsertMessage(c, "user", t), UNCHANGED <<calls, jobs>>
  PROVE  TurnsInv' /\ SameReplies
<1> DEFINE new == Len(messages) + 1
<1>1. /\ DOMAIN messages' = DOMAIN messages \cup {new}
      /\ new \notin DOMAIN messages
      /\ \A m \in DOMAIN messages : messages'[m] = messages[m]
      /\ messages'[new] = [conv |-> c, role |-> "user", topic |-> t]
    BY MessageAppended DEF Roles
<1> HIDE DEF new
<1>2. \A i \in Jobs : CompletedCalls(i)' = CompletedCalls(i) /\ AnswersTo(i)' = AnswersTo(i)
    BY <1>1 DEF CompletedCalls, AnswersTo
<1>3. SameReplies
    BY <1>2 DEF SameReplies, Replies
<1>4. QuestionInv'
    BY <1>1 DEF TurnsInv, QuestionInv, QuestionOf
<1>5. CallInv'
    BY DEF TurnsInv, CallInv
<1>6. AnswerInv'
  <2>1. \A i \in Jobs : Replies(i) \subseteq DOMAIN messages
      BY DEF TurnsInv, AnswerInv, AnswersTo
  <2> QED BY <1>1, <1>2, <1>3, <2>1 DEF TurnsInv, AnswerInv, SameReplies, AnswerOf
<1> QED BY <1>3, <1>4, <1>5, <1>6 DEF TurnsInv

LEMMA TurnsAfterCall ==
  ASSUME StoreTypeOK, TurnsInv, NEW j \in Jobs, jobs[j].request # None,
         InsertRunningModelCall(jobs[j].request), UNCHANGED <<messages, jobs>>
  PROVE  TurnsInv' /\ SameReplies
<1> DEFINE new == Len(calls) + 1
<1>0. jobs[j].request \in Nat
    BY DEF StoreTypeOK, Job
<1>1. /\ DOMAIN calls' = DOMAIN calls \cup {new}
      /\ new \notin DOMAIN calls
      /\ \A k \in DOMAIN calls : calls'[k] = calls[k]
      /\ calls'[new] = [request |-> jobs[j].request, status |-> "running", assistant |-> None]
    BY <1>0, CallAppended
<1> HIDE DEF new
<1>2. \A i \in Jobs : CompletedCalls(i)' = CompletedCalls(i)
    BY <1>1 DEF CompletedCalls
<1>3. SameReplies
  <2>1. \A i \in Jobs : \A k \in CompletedCalls(i) : calls'[k] = calls[k]
      BY <1>1 DEF CompletedCalls
  <2> QED BY <1>2, <2>1 DEF SameReplies, Replies
<1>4. QuestionInv'
    BY DEF TurnsInv, QuestionInv, QuestionOf
<1>5. CallInv'
    BY <1>1 DEF TurnsInv, CallInv
<1>6. AnswerInv'
    BY <1>3 DEF TurnsInv, AnswerInv, SameReplies, AnswersTo, AnswerOf
<1> QED BY <1>3, <1>4, <1>5, <1>6 DEF TurnsInv

LEMMA TurnsAfterFinish ==
  ASSUME StoreTypeOK, TurnsInv, NEW k, LiveCall(k), NEW cause \in Causes,
         FinishModelCall(k, cause), UNCHANGED <<messages, jobs>>
  PROVE  TurnsInv' /\ SameReplies
<1> DEFINE r == [calls[k] EXCEPT !.status = cause]
<1>0. k \in DOMAIN calls /\ calls[k].status = "running" /\ calls[k] \in Call
    BY CallRows DEF LiveCall
<1>1. r.request = calls[k].request /\ r.status = cause
    BY <1>0 DEF Call
<1>2. calls' = [calls EXCEPT ![k] = r]
    BY <1>0, CallRows DEF FinishModelCall
<1> HIDE DEF r
<1>3. /\ DOMAIN calls' = DOMAIN calls
      /\ calls'[k] = r
      /\ \A x \in DOMAIN calls : x # k => calls'[x] = calls[x]
    BY <1>0, <1>2, CallReplaced
<1>4. cause # "completed" /\ cause # "running"
    OBVIOUS
<1>5. \A i \in Jobs : CompletedCalls(i)' = CompletedCalls(i) /\ k \notin CompletedCalls(i)
    BY <1>0, <1>1, <1>3, <1>4 DEF CompletedCalls
<1>6. SameReplies
  <2>1. \A i \in Jobs : \A x \in CompletedCalls(i) : calls'[x] = calls[x]
      BY <1>3, <1>5 DEF CompletedCalls
  <2> QED BY <1>5, <2>1 DEF SameReplies, Replies
<1>7. QuestionInv'
    BY DEF TurnsInv, QuestionInv, QuestionOf
<1>8. CallInv'
    BY <1>0, <1>1, <1>3 DEF TurnsInv, CallInv
<1>9. AnswerInv'
    BY <1>6 DEF TurnsInv, AnswerInv, SameReplies, AnswersTo, AnswerOf
<1> QED BY <1>6, <1>7, <1>8, <1>9 DEF TurnsInv

LEMMA TurnsAfterReply ==
  ASSUME StoreTypeOK, TurnsInv, NEW j \in Jobs, NEW k, LiveCall(k), Replies(j) = {},
         jobs[j].request # None, calls[k].request = jobs[j].request,
         InsertReplyAndCompleteModelCall(k), UNCHANGED jobs
  PROVE  /\ TurnsInv'
         /\ Replies(j)' = {Len(messages) + 1}
         /\ \A i \in Jobs \ {j} : Replies(i)' = Replies(i)
<1> DEFINE new == Len(messages) + 1
           r == [calls[k] EXCEPT !.status = "completed", !.assistant = new]
<1>0. k \in DOMAIN calls /\ calls[k].status = "running" /\ calls[k] \in Call
    BY CallRows DEF LiveCall
<1>1. jobs[j].request \in DOMAIN messages /\ messages[jobs[j].request] = QuestionOf(j)
    BY DEF TurnsInv, QuestionInv
<1>2. InsertMessage(ConvOf[j], "assistant", j)
    BY <1>1 DEF InsertReplyAndCompleteModelCall, QuestionOf
<1>3. /\ DOMAIN messages' = DOMAIN messages \cup {new}
      /\ new \notin DOMAIN messages
      /\ \A m \in DOMAIN messages : messages'[m] = messages[m]
      /\ messages'[new] = AnswerOf(j)
    BY <1>2, MessageAppended DEF Roles, AnswerOf
<1>4. r.request = calls[k].request /\ r.status = "completed" /\ r.assistant = new
    BY <1>0 DEF Call
<1>5. calls' = [calls EXCEPT ![k] = r]
    BY <1>0, CallRows DEF InsertReplyAndCompleteModelCall
<1> HIDE DEF r, new
<1>6. /\ DOMAIN calls' = DOMAIN calls
      /\ calls'[k] = r
      /\ \A x \in DOMAIN calls : x # k => calls'[x] = calls[x]
    BY <1>0, <1>5, CallReplaced
<1>7. CompletedCalls(j) = {}
    BY DEF Replies
<1>8. CompletedCalls(j)' = {k}
    BY <1>0, <1>4, <1>6, <1>7 DEF CompletedCalls
<1>9. Replies(j)' = {new}
    BY <1>4, <1>6, <1>8 DEF Replies
<1>10. ASSUME NEW i \in Jobs \ {j}
       PROVE  CompletedCalls(i)' = CompletedCalls(i) /\ k \notin CompletedCalls(i)
  <2>1. calls[k].request # jobs[i].request
      BY QuestionsDiffer DEF TurnsInv
  <2> QED BY <1>0, <1>4, <1>6, <2>1 DEF CompletedCalls
<1>11. \A i \in Jobs \ {j} : Replies(i)' = Replies(i)
  <2>1. \A i \in Jobs \ {j} : \A x \in CompletedCalls(i) : calls'[x] = calls[x]
      BY <1>6, <1>10 DEF CompletedCalls
  <2> QED BY <1>10, <2>1 DEF Replies
<1>12. QuestionInv'
    BY <1>3 DEF TurnsInv, QuestionInv, QuestionOf, AnswerOf
<1>13. CallInv'
    BY <1>0, <1>4, <1>6 DEF TurnsInv, CallInv
<1>14. AnswerInv'
  <2>1. \A i \in Jobs : Replies(i) \subseteq DOMAIN messages
      BY DEF TurnsInv, AnswerInv, AnswersTo
  <2>2. AnswersTo(j) = {}
      BY DEF TurnsInv, AnswerInv
  <2>3. AnswersTo(j)' = {new}
      BY <1>3, <2>2 DEF AnswersTo, AnswerOf
  <2>4. \A i \in Jobs \ {j} : AnswersTo(i)' = AnswersTo(i)
      BY <1>3 DEF AnswersTo, AnswerOf
  <2> SUFFICES ASSUME NEW i \in Jobs
               PROVE  /\ AnswersTo(i)' = Replies(i)'
                      /\ \A m \in Replies(i)' : messages'[m] = AnswerOf(i)
                      /\ \A m, n \in Replies(i)' : m = n
      BY DEF AnswerInv, AnswerOf
  <2>5. CASE i = j
      BY <1>3, <1>9, <2>3, <2>5
  <2>6. CASE i # j
      BY <1>3, <1>11, <2>1, <2>4, <2>6 DEF TurnsInv, AnswerInv, AnswerOf
  <2> QED BY <2>5, <2>6
<1> QED BY <1>9, <1>11, <1>12, <1>13, <1>14 DEF TurnsInv, new

LEMMA CallsSteady ==
  ASSUME StoreTypeOK,
         \/ UNCHANGED calls
         \/ \E m \in Nat : InsertRunningModelCall(m)
         \/ \E k : LiveCall(k) /\ InsertReplyAndCompleteModelCall(k)
         \/ \E k : LiveCall(k) /\ \E cause \in Causes : FinishModelCall(k, cause)
  PROVE  \A k \in DOMAIN calls : k \in DOMAIN calls' /\ calls'[k].request = calls[k].request
<1>1. ASSUME NEW m \in Nat, InsertRunningModelCall(m)
      PROVE  \A k \in DOMAIN calls : k \in DOMAIN calls' /\ calls'[k].request = calls[k].request
    BY <1>1, CallAppended
<1>2. ASSUME NEW k \in DOMAIN calls, NEW r, r.request = calls[k].request,
             calls' = [calls EXCEPT ![k] = r]
      PROVE  \A x \in DOMAIN calls : x \in DOMAIN calls' /\ calls'[x].request = calls[x].request
    BY <1>2, CallReplaced
<1>3. ASSUME NEW k, LiveCall(k), InsertReplyAndCompleteModelCall(k)
      PROVE  \A x \in DOMAIN calls : x \in DOMAIN calls' /\ calls'[x].request = calls[x].request
  <2> DEFINE r == [calls[k] EXCEPT !.status = "completed", !.assistant = Len(messages) + 1]
  <2>1. k \in DOMAIN calls /\ calls[k] \in Call
      BY <1>3, CallRows DEF LiveCall
  <2>2. r.request = calls[k].request /\ calls' = [calls EXCEPT ![k] = r]
      BY <1>3, <2>1, CallRows DEF Call, InsertReplyAndCompleteModelCall
  <2> QED BY <1>2, <2>1, <2>2
<1>4. ASSUME NEW k, LiveCall(k), NEW cause \in Causes, FinishModelCall(k, cause)
      PROVE  \A x \in DOMAIN calls : x \in DOMAIN calls' /\ calls'[x].request = calls[x].request
  <2> DEFINE r == [calls[k] EXCEPT !.status = cause]
  <2>1. k \in DOMAIN calls /\ calls[k] \in Call
      BY <1>4, CallRows DEF LiveCall
  <2>2. r.request = calls[k].request /\ calls' = [calls EXCEPT ![k] = r]
      BY <1>4, <2>1, CallRows DEF Call, FinishModelCall
  <2> QED BY <1>2, <2>1, <2>2
<1> QED BY <1>1, <1>3, <1>4

\* What the moves of a chat leave alone.
LEMMA ChatMoves ==
  ASSUME ChatsOK, NEW p \in Procs, NEW stage,
         \/ Goto(p, stage)
         \/ stage = "done" /\ \E cause : Abandon(p, cause)
         \/ stage = "finish" /\ \E cause : FailWith(p, cause)
  PROVE  /\ chat'[p].stage = stage
         /\ chat'[p].request = chat[p].request
         /\ chat'[p].call = chat[p].call
         /\ chat'[p].reply = chat[p].reply
         /\ \A q \in Procs \ {p} : chat'[q] = chat[q]
<1>0. chat[p] \in ChatRecord
    BY DEF ChatsOK
<1>1. CASE Goto(p, stage)
  <2> DEFINE r == [chat[p] EXCEPT !.stage = stage]
  <2>1. /\ r.stage = stage /\ r.request = chat[p].request
        /\ r.call = chat[p].call /\ r.reply = chat[p].reply
      BY <1>0 DEF ChatRecord
  <2>2. chat'[p] = r /\ \A q \in Procs \ {p} : chat'[q] = chat[q]
      BY <1>1 DEF Goto, ChatsOK
  <2> QED BY <2>1, <2>2
<1>2. ASSUME NEW cause, chat' = [chat EXCEPT ![p].stage = stage, ![p].cause = cause]
      PROVE  /\ chat'[p].stage = stage
             /\ chat'[p].request = chat[p].request
             /\ chat'[p].call = chat[p].call
             /\ chat'[p].reply = chat[p].reply
             /\ \A q \in Procs \ {p} : chat'[q] = chat[q]
  <2> DEFINE r == [chat[p] EXCEPT !.stage = stage, !.cause = cause]
  <2>1. /\ r.stage = stage /\ r.request = chat[p].request
        /\ r.call = chat[p].call /\ r.reply = chat[p].reply
      BY <1>0 DEF ChatRecord
  <2>2. chat'[p] = r /\ \A q \in Procs \ {p} : chat'[q] = chat[q]
      BY <1>2 DEF ChatsOK
  <2> QED BY <2>1, <2>2
<1> QED BY <1>1, <1>2 DEF Abandon, FailWith

LEMMA ChatHasCall ==
  ASSUME ChatsOK, NEW p \in Procs, NEW k,
         chat' = [chat EXCEPT ![p].stage = "history", ![p].call = k]
  PROVE  /\ chat'[p].stage = "history"
         /\ chat'[p].request = chat[p].request
         /\ chat'[p].call = k
         /\ chat'[p].reply = chat[p].reply
         /\ \A q \in Procs \ {p} : chat'[q] = chat[q]
<1> DEFINE r == [chat[p] EXCEPT !.stage = "history", !.call = k]
<1>1. /\ r.stage = "history" /\ r.request = chat[p].request
      /\ r.call = k /\ r.reply = chat[p].reply
    BY DEF ChatsOK, ChatRecord
<1>2. chat'[p] = r /\ \A q \in Procs \ {p} : chat'[q] = chat[q]
    BY DEF ChatsOK
<1> QED BY <1>1, <1>2

LEMMA ChatHasReply ==
  ASSUME ChatsOK, NEW p \in Procs, NEW m,
         chat' = [chat EXCEPT ![p].stage = "done", ![p].reply = m]
  PROVE  /\ chat'[p].stage = "done"
         /\ chat'[p].request = chat[p].request
         /\ chat'[p].call = chat[p].call
         /\ chat'[p].reply = m
         /\ \A q \in Procs \ {p} : chat'[q] = chat[q]
<1> DEFINE r == [chat[p] EXCEPT !.stage = "done", !.reply = m]
<1>1. /\ r.stage = "done" /\ r.request = chat[p].request
      /\ r.call = chat[p].call /\ r.reply = m
    BY DEF ChatsOK, ChatRecord
<1>2. chat'[p] = r /\ \A q \in Procs \ {p} : chat'[q] = chat[q]
    BY DEF ChatsOK
<1> QED BY <1>1, <1>2

\* A user message is no answer.
LEMMA QuestionsAnswerNothing ==
  ASSUME StoreTypeOK, NEW c \in Convs, NEW t \in Topics, InsertMessage(c, "user", t)
  PROVE  \A j \in Jobs : AnswersTo(j)' = AnswersTo(j)
<1>1. /\ DOMAIN messages' = DOMAIN messages \cup {Len(messages) + 1}
      /\ \A m \in DOMAIN messages : messages'[m] = messages[m]
      /\ messages'[Len(messages) + 1] = [conv |-> c, role |-> "user", topic |-> t]
    BY MessageAppended DEF Roles
<1> QED BY <1>1 DEF AnswersTo

----------------------------------------------------------------------------
(* The calls that are running.                                             *)

RequestsStored == \A k \in DOMAIN calls : calls[k].request \in DOMAIN messages

LEMMA LiveAfterMessage ==
  ASSUME StoreTypeOK, RequestsStored, UNCHANGED <<convs, calls>>,
         NEW c \in Convs, NEW role \in Roles, NEW t \in Topics, InsertMessage(c, role, t)
  PROVE  \A x : LiveCall(x)' => LiveCall(x)
<1>1. \A m \in DOMAIN messages : messages'[m] = messages[m]
    BY MessageAppended
<1> QED BY <1>1 DEF LiveCall, Visible, RequestsStored

LEMMA LiveAfterCall ==
  ASSUME StoreTypeOK, RequestsStored, UNCHANGED <<convs, messages>>,
         NEW m \in Nat, InsertRunningModelCall(m)
  PROVE  \A x : LiveCall(x)' => LiveCall(x) \/ x = Len(calls) + 1
<1>1. /\ DOMAIN calls' = DOMAIN calls \cup {Len(calls) + 1}
      /\ \A k \in DOMAIN calls : calls'[k] = calls[k]
    BY CallAppended
<1> QED BY <1>1 DEF LiveCall, Visible

LEMMA LiveAfterFinish ==
  ASSUME StoreTypeOK, UNCHANGED <<convs, messages>>,
         NEW k, LiveCall(k), NEW cause \in Causes, FinishModelCall(k, cause)
  PROVE  \A x : LiveCall(x)' => LiveCall(x) /\ x # k
<1> DEFINE r == [calls[k] EXCEPT !.status = cause]
<1>0. k \in DOMAIN calls /\ calls[k] \in Call
    BY CallRows DEF LiveCall
<1>1. r.status # "running" /\ calls' = [calls EXCEPT ![k] = r]
    BY <1>0, CallRows DEF Call, FinishModelCall
<1> HIDE DEF r
<1>2. /\ DOMAIN calls' = DOMAIN calls
      /\ calls'[k] = r
      /\ \A x \in DOMAIN calls : x # k => calls'[x] = calls[x]
    BY <1>0, <1>1, CallReplaced
<1> QED BY <1>1, <1>2 DEF LiveCall, Visible

LEMMA LiveAfterReply ==
  ASSUME StoreTypeOK, RequestsStored, UNCHANGED convs,
         NEW k, LiveCall(k), InsertReplyAndCompleteModelCall(k)
  PROVE  \A x : LiveCall(x)' => LiveCall(x) /\ x # k
<1> DEFINE r == [calls[k] EXCEPT !.status = "completed", !.assistant = Len(messages) + 1]
<1>0. /\ k \in DOMAIN calls /\ calls[k] \in Call
      /\ messages[calls[k].request] \in Message
    BY CallRows, MessageRows DEF LiveCall, Visible
<1>1. r.status # "running" /\ calls' = [calls EXCEPT ![k] = r]
    BY <1>0, CallRows DEF Call, InsertReplyAndCompleteModelCall
<1> HIDE DEF r
<1>2. /\ DOMAIN calls' = DOMAIN calls
      /\ calls'[k] = r
      /\ \A x \in DOMAIN calls : x # k => calls'[x] = calls[x]
    BY <1>0, <1>1, CallReplaced
<1>3. \A m \in DOMAIN messages : messages'[m] = messages[m]
    BY <1>0, MessageAppended DEF InsertReplyAndCompleteModelCall, Message, Roles
<1> QED BY <1>1, <1>2, <1>3 DEF LiveCall, Visible, RequestsStored
=============================================================================
