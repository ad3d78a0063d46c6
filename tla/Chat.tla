-------------------------------- MODULE Chat --------------------------------
(***************************************************************************)
(* chat.Service.ChatFromExistingMessage: one generation for a request      *)
(* message that is already stored.  A caller starts it with BeginChat and  *)
(* takes its result when it is "done"; between those, every action below   *)
(* is one call the service makes to the database or to the model.          *)
(*                                                                         *)
(* A database call succeeds, fails with no effect, or takes effect and     *)
(* loses its reply (the job deadline passes, or the connection breaks      *)
(* while the server commits).  The failures that leave a row behind with   *)
(* nobody to clean it up are counted in `failures` and bounded by          *)
(* MaxFailures; the others only end the attempt and need no bound.         *)
(***************************************************************************)
EXTENDS ChatStore

CONSTANTS
  Procs,         \* the callers of the chat service, one chat at a time each
  HistoryLimit,  \* defaultMessageLimit
  MaxFailures    \* bound of failures

ASSUME ChatAssumption ==
  /\ HistoryLimit \in Nat \ {0}
  /\ MaxFailures \in Nat

VARIABLES
  chat,          \* the chat each process is in
  failures       \* database calls that failed so far

chatVars == <<chat, failures>>

ChatStage == {"off", "start", "history", "generate", "save", "finish", "done"}

\* request is the request message, call the id in callRecord, reply the id in
\* the result (None for an error), cause the status of a failed callRecord.
ChatRecord == [stage: ChatStage, request: Nat, call: Nat, reply: Nat,
               cause: {""} \cup Causes]

NoChat == [stage |-> "off", request |-> None, call |-> None, reply |-> None, cause |-> ""]

ChatsOK ==
  /\ chat \in [Procs -> ChatRecord]
  /\ \A p \in Procs : chat[p].stage = "finish" => chat[p].cause \in Causes

ChatTypeOK == ChatsOK /\ failures \in 0..MaxFailures

ChatInit ==
  /\ chat = [p \in Procs |-> NoChat]
  /\ failures = 0

----------------------------------------------------------------------------
Failure == failures < MaxFailures /\ failures' = failures + 1

NoFailure == UNCHANGED failures

BeginChat(p, m) == chat' = [chat EXCEPT ![p] = [NoChat EXCEPT !.stage = "start", !.request = m]]

Goto(p, stage) == chat' = [chat EXCEPT ![p].stage = stage]

\* The call ends in an error and has no row to finish.
Abandon(p, cause) == chat' = [chat EXCEPT ![p].stage = "done", ![p].cause = cause]

\* Mutants: the status of the failed call is not recorded; the call is not finished.
FailWithoutCause(p, cause) == Goto(p, "finish")
FailWithoutFinish(p, cause) == Abandon(p, cause)

\* finishFailedModelCall: markModelCallFailure has recorded why.
FailWith(p, cause) == chat' = [chat EXCEPT ![p].stage = "finish", ![p].cause = cause]

\* startModelCallForExistingMessage: an error returns at once, whether or not
\* the row was inserted.
StartModelCall(p) ==
  /\ chat[p].stage = "start"
  /\ UNCHANGED <<convs, messages, jobs>>
  /\ \/ /\ Visible(chat[p].request)
        /\ InsertRunningModelCall(chat[p].request)
        /\ chat' = [chat EXCEPT ![p].stage = "history", ![p].call = Len(calls) + 1]
        /\ NoFailure
     \/ /\ \E cause \in Causes : Abandon(p, cause)
        /\ UNCHANGED calls
        /\ NoFailure
     \/ /\ Visible(chat[p].request)
        /\ InsertRunningModelCall(chat[p].request)
        /\ \E cause \in Causes : Abandon(p, cause)
        /\ Failure

\* ListRecent, then prepareModelMessages: the request must be among the last
\* HistoryLimit messages.  Any of the reads (or the retriever) may fail.
LoadHistory(p) ==
  /\ chat[p].stage = "history"
  /\ \/ LET m == chat[p].request IN
        /\ Visible(m)
        /\ m \in Recent(messages[m].conv, HistoryLimit)
        /\ Goto(p, "generate")
     \/ \E cause \in Causes : FailWith(p, cause)
  /\ UNCHANGED <<storeVars, failures>>

\* generate: the language model, outside any transaction.
Generate(p) ==
  /\ chat[p].stage = "generate"
  /\ \/ Goto(p, "save")
     \/ \E cause \in Causes : FailWith(p, cause)
  /\ UNCHANGED <<storeVars, failures>>

\* saveAssistantAndComplete: both writes commit or neither does.  It fails when
\* a write does, when the reply is blank or too long, or when Commit reports an
\* error, after which the transaction may still have committed.
SaveReply(p) ==
  /\ chat[p].stage = "save"
  /\ UNCHANGED <<convs, jobs>>
  /\ \/ /\ LiveCall(chat[p].call)
        /\ InsertReplyAndCompleteModelCall(chat[p].call)
        /\ chat' = [chat EXCEPT ![p].stage = "done", ![p].reply = Len(messages) + 1]
        /\ NoFailure
     \/ /\ \E cause \in Causes : FailWith(p, cause)
        /\ UNCHANGED <<messages, calls>>
        /\ NoFailure
     \/ /\ LiveCall(chat[p].call)
        /\ InsertReplyAndCompleteModelCall(chat[p].call)
        /\ \E cause \in Causes : FailWith(p, cause)
        /\ Failure

\* finishFailedModelCall: the update runs on a context of its own; its error is
\* joined to the cause, so a deadline there turns the result into a timeout.
FinishCall(p) ==
  /\ chat[p].stage = "finish"
  /\ UNCHANGED <<convs, messages, jobs>>
  /\ \/ /\ IF LiveCall(chat[p].call)
           THEN FinishModelCall(chat[p].call, chat[p].cause)
           ELSE UNCHANGED calls
        /\ Goto(p, "done")
        /\ NoFailure
     \/ /\ UNCHANGED calls
        /\ \E cause \in {chat[p].cause} \cup ({"timed_out"} \cap Causes) : Abandon(p, cause)
        /\ Failure

ChatStep(p) ==
  \/ StartModelCall(p)
  \/ LoadHistory(p)
  \/ Generate(p)
  \/ SaveReply(p)
  \/ FinishCall(p)

----------------------------------------------------------------------------
(* What the callers rely on.                                               *)

\* A running call that no process is going to finish.
OrphanCalls ==
  {k \in DOMAIN calls : LiveCall(k) /\ \A p \in Procs : chat[p].call # k}
=============================================================================
