--------------------------- MODULE ChatJobProofs ---------------------------
(* Theorems about ChatJob, for any jobs, workers, conversations and bounds. *)
EXTENDS ChatJob, ChatProofs, FiniteSetTheorems

USE StoreAssumption, ChatAssumption, ChatJobAssumption

----------------------------------------------------------------------------
(* How each update of a worker keeps its type.                             *)

LEMMA WorkerUpdated ==
  ASSUME WorkersOK, NEW w \in Workers, NEW r \in WorkerRecord, r.pc # "idle" => r.job \in Jobs,
         worker' = [worker EXCEPT ![w] = r]
  PROVE  WorkersOK'
BY DEF WorkersOK

LEMMA WorkerGoto ==
  ASSUME WorkersOK, NEW w \in Workers, worker[w].pc # "idle", NEW pc \in Pc, GotoPc(w, pc)
  PROVE  WorkersOK'
<1> DEFINE r == [worker[w] EXCEPT !.pc = pc]
<1>1. r \in WorkerRecord /\ r.job = worker[w].job
    BY DEF WorkersOK, WorkerRecord
<1>2. worker' = [worker EXCEPT ![w] = r] /\ r.job \in Jobs
    BY <1>1 DEF GotoPc, WorkersOK
<1> QED BY <1>1, <1>2, WorkerUpdated

LEMMA WorkerClaims ==
  ASSUME WorkersOK, NEW w \in Workers, worker[w].pc # "idle", NEW n \in Nat,
         worker' = [worker EXCEPT ![w].pc = "ensure", ![w].attempt = n]
  PROVE  WorkersOK'
<1> DEFINE r == [worker[w] EXCEPT !.pc = "ensure", !.attempt = n]
<1>1. r \in WorkerRecord /\ r.job = worker[w].job
    BY DEF WorkersOK, WorkerRecord, Pc
<1>2. worker' = [worker EXCEPT ![w] = r] /\ r.job \in Jobs
    BY <1>1 DEF WorkersOK
<1> QED BY <1>1, <1>2, WorkerUpdated

LEMMA WorkerTakes ==
  ASSUME WorkersOK, NEW w \in Workers, NEW j \in Jobs,
         worker' = [worker EXCEPT ![w].pc = "claim", ![w].job = j]
  PROVE  WorkersOK'
<1> DEFINE r == [worker[w] EXCEPT !.pc = "claim", !.job = j]
<1>1. r \in WorkerRecord /\ r.job = j
    BY DEF WorkersOK, WorkerRecord, Pc
<1>2. worker' = [worker EXCEPT ![w] = r]
    BY DEF WorkersOK
<1> QED BY <1>1, <1>2, WorkerUpdated

LEMMA WorkerHasReply ==
  ASSUME WorkersOK, NEW w \in Workers, worker[w].pc # "idle", NEW m \in Nat,
         worker' = [worker EXCEPT ![w].pc = "complete", ![w].reply = m]
  PROVE  WorkersOK'
<1> DEFINE r == [worker[w] EXCEPT !.pc = "complete", !.reply = m]
<1>1. r \in WorkerRecord /\ r.job = worker[w].job
    BY DEF WorkersOK, WorkerRecord, Pc
<1>2. worker' = [worker EXCEPT ![w] = r] /\ r.job \in Jobs
    BY <1>1 DEF WorkersOK
<1> QED BY <1>1, <1>2, WorkerUpdated

LEMMA WorkerFailsAttempt ==
  ASSUME WorkersOK, NEW w \in Workers, worker[w].pc # "idle", NEW code \in ErrorCodes,
         AttemptFailed(w, code)
  PROVE  WorkersOK'
<1>1. CASE GotoPc(w, "retry")
    BY <1>1, WorkerGoto DEF Pc
<1>2. CASE worker' = [worker EXCEPT ![w].pc = "fail", ![w].code = code]
  <2> DEFINE r == [worker[w] EXCEPT !.pc = "fail", !.code = code]
  <2>1. r \in WorkerRecord /\ r.job = worker[w].job
    BY DEF WorkersOK, WorkerRecord, Pc
  <2>2. worker' = [worker EXCEPT ![w] = r] /\ r.job \in Jobs
    BY <1>2, <2>1 DEF WorkersOK
  <2> QED BY <2>1, <2>2, WorkerUpdated
<1> QED BY <1>1, <1>2 DEF AttemptFailed

LEMMA WorkerRests ==
  ASSUME WorkersOK, NEW w \in Workers, worker' = [worker EXCEPT ![w] = Idle]
  PROVE  WorkersOK'
BY DEF WorkersOK, WorkerRecord, Pc, Idle, ErrorCodes, None

LEMMA JobTypeStep == TypeOK /\ [Next]_vars => JobTypeOK'
<1> SUFFICES ASSUME TypeOK, [Next]_vars
             PROVE  JobTypeOK'
    OBVIOUS
<1>0. JobTypeOK
    BY DEF TypeOK
<1>1. ASSUME NEW j \in Jobs, InsertJob(j)
      PROVE  JobTypeOK'
  <2>1. WorkersOK'
    BY <1>0, <1>1 DEF InsertJob, JobTypeOK, WorkersOK
  <2>2. BrokerOK'
    BY <1>0, <1>1 DEF InsertJob, JobTypeOK, BrokerOK, Answers, Answer, budgets
  <2> QED BY <2>1, <2>2 DEF JobTypeOK
<1>2. ASSUME NEW j \in Jobs, Publish(j)
      PROVE  JobTypeOK'
  <2>1. WorkersOK'
    BY <1>0, <1>2 DEF Publish, JobTypeOK, WorkersOK
  <2>2. BrokerOK'
    BY <1>0, <1>2 DEF Publish, JobTypeOK, BrokerOK, Answers, Answer, budgets
  <2> QED BY <2>1, <2>2 DEF JobTypeOK
<1>3. ASSUME NEW w \in Workers, Deliver(w)
      PROVE  JobTypeOK'
  <2>1. WorkersOK'
    BY <1>0, <1>3, WorkerTakes DEF Deliver, JobTypeOK, BrokerOK
  <2>2. BrokerOK'
    <3>1. PICK j \in queue : /\ queue' = queue \ {j}
                             /\ unacked' = [unacked EXCEPT ![w] = j]
      BY <1>3 DEF Deliver
    <3>2. UNCHANGED <<answer, outages, losses>>
      BY <1>3 DEF Deliver, budgets
    <3> QED BY <1>0, <3>1, <3>2 DEF JobTypeOK, BrokerOK
  <2> QED BY <2>1, <2>2 DEF JobTypeOK
<1>4. ASSUME NEW w \in Workers, Claim(w)
      PROVE  JobTypeOK'
  <2>1. WorkersOK'
    <3>1. jobs[worker[w].job].attempts + 1 \in Nat
      BY <1>0, <1>4 DEF Claim, At, JobTypeOK, WorkersOK, TypeOK, StoreTypeOK, Job
    <3>2. worker[w].pc # "idle" /\ WorkersOK
      BY <1>0, <1>4 DEF Claim, At, JobTypeOK
    <3>3. \/ worker' = [worker EXCEPT ![w].pc = "ensure",
                                     ![w].attempt = jobs[worker[w].job].attempts + 1]
          \/ \E pc \in Pc : GotoPc(w, pc)
      BY <1>4 DEF Claim, Pc
    <3> QED BY <3>1, <3>2, <3>3, WorkerGoto, WorkerClaims
  <2>2. BrokerOK'
    BY <1>0, <1>4 DEF Claim, JobTypeOK, BrokerOK, Outage, NoOutage, budgets
  <2> QED BY <2>1, <2>2 DEF JobTypeOK
<1>5. ASSUME NEW w \in Workers, Ensure(w)
      PROVE  JobTypeOK'
  <2>1. WorkersOK'
    BY <1>0, <1>5, WorkerGoto, WorkerFailsAttempt DEF Ensure, JobTypeOK, At, Pc, ErrorCodes
  <2>2. BrokerOK'
    BY <1>0, <1>5 DEF Ensure, JobTypeOK, BrokerOK, budgets
  <2> QED BY <2>1, <2>2 DEF JobTypeOK
<1>6. ASSUME NEW w \in Workers, FindReply(w)
      PROVE  JobTypeOK'
  <2>1. WorkersOK'
    <3>1. \A k \in DOMAIN calls : calls[k].assistant \in Nat
      BY CallRows DEF TypeOK, Call
    <3>2. worker[w].pc # "idle" /\ WorkersOK
      BY <1>0, <1>6 DEF FindReply, At, JobTypeOK
    <3>3. \/ \E m \in Nat : worker' = [worker EXCEPT ![w].pc = "complete", ![w].reply = m]
          \/ \E pc \in Pc : GotoPc(w, pc)
          \/ \E code \in ErrorCodes : AttemptFailed(w, code)
      <4> DEFINE done == IF Processing(worker[w].job) THEN CompletedCalls(worker[w].job) ELSE {}
      <4>1. Latest(done) \subseteq DOMAIN calls
        BY DEF Latest, CompletedCalls
      <4>2. CASE \E k \in Latest(done) :
                   worker' = [worker EXCEPT ![w].pc = "complete", ![w].reply = calls[k].assistant]
        BY <4>1, <4>2, <3>1
      <4>3. CASE GotoPc(w, "chat")
        BY <4>3 DEF Pc
      <4>4. CASE AttemptFailed(w, "over_max_retry_time")
        BY <4>4 DEF ErrorCodes
      <4> QED BY <1>6, <4>2, <4>3, <4>4 DEF FindReply
    <3> QED BY <3>2, <3>3, WorkerGoto, WorkerHasReply, WorkerFailsAttempt
  <2>2. BrokerOK'
    BY <1>0, <1>6 DEF FindReply, JobTypeOK, BrokerOK, budgets
  <2> QED BY <2>1, <2>2 DEF JobTypeOK
<1>7. ASSUME NEW w \in Workers, RunChat(w)
      PROVE  JobTypeOK'
  <2>1. WorkersOK'
    BY <1>0, <1>7 DEF RunChat, JobTypeOK, jobVars, WorkersOK
  <2>2. BrokerOK'
    BY <1>0, <1>7 DEF RunChat, JobTypeOK, BrokerOK, jobVars, budgets
  <2> QED BY <2>1, <2>2 DEF JobTypeOK
<1>8. ASSUME NEW w \in Workers, ChatReturns(w)
      PROVE  JobTypeOK'
  <2>1. WorkersOK'
    BY <1>0, <1>8, WorkerHasReply, WorkerFailsAttempt DEF ChatReturns, JobTypeOK, At, ErrorCodes, TypeOK, ChatTypeOK, ChatsOK, ChatRecord
  <2>2. BrokerOK'
    BY <1>0, <1>8 DEF ChatReturns, JobTypeOK, BrokerOK, budgets
  <2> QED BY <2>1, <2>2 DEF JobTypeOK
<1>9. ASSUME NEW w \in Workers, Complete(w)
      PROVE  JobTypeOK'
  <2>1. WorkersOK'
    BY <1>0, <1>9, WorkerGoto, WorkerFailsAttempt DEF Complete, JobTypeOK, At, Pc, ErrorCodes
  <2>2. BrokerOK'
    BY <1>0, <1>9 DEF Complete, JobTypeOK, BrokerOK, budgets
  <2> QED BY <2>1, <2>2 DEF JobTypeOK
<1>10. ASSUME NEW w \in Workers, Retry(w)
      PROVE  JobTypeOK'
  <2>1. WorkersOK'
    BY <1>0, <1>10, WorkerGoto DEF Retry, JobTypeOK, At, Pc
  <2>2. BrokerOK'
    BY <1>0, <1>10 DEF Retry, JobTypeOK, BrokerOK, Outage, NoOutage, budgets
  <2> QED BY <2>1, <2>2 DEF JobTypeOK
<1>11. ASSUME NEW w \in Workers, Fail(w)
      PROVE  JobTypeOK'
  <2>1. WorkersOK'
    BY <1>0, <1>11, WorkerGoto DEF Fail, JobTypeOK, At, Pc
  <2>2. BrokerOK'
    BY <1>0, <1>11 DEF Fail, JobTypeOK, BrokerOK, Outage, NoOutage, budgets
  <2> QED BY <2>1, <2>2 DEF JobTypeOK
<1>12. ASSUME NEW w \in Workers, Ack(w)
      PROVE  JobTypeOK'
  <2>1. WorkersOK'
    BY <1>0, <1>12, WorkerRests DEF Ack, JobTypeOK
  <2>2. BrokerOK'
    BY <1>0, <1>12 DEF Ack, JobTypeOK, BrokerOK, budgets
  <2> QED BY <2>1, <2>2 DEF JobTypeOK
<1>13. ASSUME NEW w \in Workers, Nack(w)
      PROVE  JobTypeOK'
  <2>1. WorkersOK'
    BY <1>0, <1>13, WorkerRests DEF Nack, JobTypeOK
  <2>2. BrokerOK'
    BY <1>0, <1>13 DEF Nack, JobTypeOK, BrokerOK, budgets
  <2> QED BY <2>1, <2>2 DEF JobTypeOK
<1>14. ASSUME NEW w \in Workers, LoseChannel(w)
      PROVE  JobTypeOK'
  <2>1. WorkersOK'
    BY <1>0, <1>14 DEF LoseChannel, JobTypeOK, WorkersOK
  <2>2. BrokerOK'
    BY <1>0, <1>14 DEF LoseChannel, JobTypeOK, BrokerOK, budgets
  <2> QED BY <2>1, <2>2 DEF JobTypeOK
<1>15. ASSUME NEW w \in Workers, Crash(w)
      PROVE  JobTypeOK'
  <2>1. WorkersOK'
    BY <1>0, <1>15, WorkerRests DEF Crash, JobTypeOK
  <2>2. BrokerOK'
    BY <1>0, <1>15 DEF Crash, JobTypeOK, BrokerOK, Outage, budgets
  <2> QED BY <2>1, <2>2 DEF JobTypeOK
<1>16. ASSUME NEW c \in Convs, DeleteConversation(c) \/ PostMessage(c)
      PROVE  JobTypeOK'
    BY <1>0, <1>16 DEF DeleteConversation, PostMessage, jobVars, budgets, JobTypeOK, BrokerOK, WorkersOK
<1>17. CASE UNCHANGED vars
    BY <1>0, <1>17 DEF vars, jobVars, budgets, JobTypeOK, BrokerOK, WorkersOK
<1> QED
    BY <1>1, <1>2, <1>3, <1>4, <1>5, <1>6, <1>7, <1>8, <1>9, <1>10, <1>11, <1>12, <1>13,
       <1>14, <1>15, <1>16, <1>17 DEF Next, Process
----------------------------------------------------------------------------
(* The tables.                                                             *)

LEMMA StoreTypeStep == TypeOK /\ [Next]_vars => StoreTypeOK'
<1> SUFFICES ASSUME TypeOK, [Next]_vars
             PROVE  StoreTypeOK'
    OBVIOUS
<1>0. StoreTypeOK /\ WorkersOK
    BY DEF TypeOK, JobTypeOK
<1>1. ASSUME NEW j \in Jobs, InsertJob(j)
      PROVE  StoreTypeOK'
  <2>1. jobs' \in [Jobs -> Job]
    BY <1>0, <1>1, JobStatements DEF InsertJob, StoreTypeOK
  <2> QED BY <1>0, <1>1, <2>1 DEF InsertJob, StoreTypeOK
<1>2. ASSUME NEW w \in Workers, Claim(w)
      PROVE  StoreTypeOK'
  <2>1. worker[w].job \in Jobs
    BY <1>0, <1>2 DEF Claim, At, WorkersOK
  <2>2. jobs' \in [Jobs -> Job]
    BY <1>0, <1>2, <2>1, JobStatements DEF Claim, StoreTypeOK
  <2> QED BY <1>0, <1>2, <2>2 DEF Claim, StoreTypeOK
<1>3. ASSUME NEW w \in Workers, Ensure(w)
      PROVE  StoreTypeOK'
  <2>1. worker[w].job \in Jobs
    BY <1>0, <1>3 DEF Ensure, At, WorkersOK
  <2>2. jobs' \in [Jobs -> Job] /\ messages' \in Seq(Message)
    BY <1>0, <1>3, <2>1, RequestEnsured DEF Ensure, StoreTypeOK
  <2> QED BY <1>0, <1>3, <2>2 DEF Ensure, StoreTypeOK
<1>4. ASSUME NEW w \in Workers, RunChat(w)
      PROVE  StoreTypeOK'
  <2>0. w \in Procs /\ chat[w] \in ChatRecord
    BY DEF TypeOK, ChatTypeOK, ChatsOK
  <2>1. CASE StartModelCall(w)
    <3>1. calls' \in Seq(Call)
      BY <1>0, <2>0, <2>1, CallInserted DEF StartModelCall, StoreTypeOK, ChatRecord
    <3> QED BY <1>0, <2>1, <3>1 DEF StartModelCall, StoreTypeOK
  <2>2. CASE LoadHistory(w) \/ Generate(w)
    BY <1>0, <2>2 DEF LoadHistory, Generate, storeVars, StoreTypeOK
  <2>3. CASE SaveReply(w)
    <3>1. calls' \in Seq(Call) /\ messages' \in Seq(Message)
      BY <1>0, <2>3, ReplyInserted DEF SaveReply, StoreTypeOK
    <3> QED BY <1>0, <2>3, <3>1 DEF SaveReply, StoreTypeOK
  <2>4. CASE FinishCall(w)
    <3>1. chat[w].cause \in Causes
      BY <2>0, <2>4 DEF FinishCall, TypeOK, ChatTypeOK, ChatsOK
    <3>2. calls' \in Seq(Call)
      BY <1>0, <2>4, <3>1, CallFinished DEF FinishCall, LiveCall, StoreTypeOK
    <3> QED BY <1>0, <2>4, <3>2 DEF FinishCall, StoreTypeOK
  <2> QED BY <1>4, <2>1, <2>2, <2>3, <2>4 DEF RunChat, ChatStep
<1>5. ASSUME NEW w \in Workers, Complete(w)
      PROVE  StoreTypeOK'
  <2>1. worker[w].job \in Jobs /\ worker[w].reply \in Nat
    BY <1>0, <1>5 DEF Complete, At, WorkersOK, WorkerRecord
  <2>2. jobs' \in [Jobs -> Job]
    BY <1>0, <1>5, <2>1, JobStatements DEF Complete, StoreTypeOK
  <2> QED BY <1>0, <1>5, <2>2 DEF Complete, StoreTypeOK
<1>6. ASSUME NEW w \in Workers, Retry(w)
      PROVE  StoreTypeOK'
  <2>1. worker[w].job \in Jobs
    BY <1>0, <1>6 DEF Retry, At, WorkersOK
  <2>2. jobs' \in [Jobs -> Job]
    BY <1>0, <1>6, <2>1, JobStatements DEF Retry, StoreTypeOK
  <2> QED BY <1>0, <1>6, <2>2 DEF Retry, StoreTypeOK
<1>7. ASSUME NEW w \in Workers, Fail(w)
      PROVE  StoreTypeOK'
  <2>1. worker[w].job \in Jobs /\ worker[w].code \in ErrorCodes
    BY <1>0, <1>7 DEF Fail, At, WorkersOK, WorkerRecord
  <2>2. jobs' \in [Jobs -> Job]
    BY <1>0, <1>7, <2>1, JobStatements DEF Fail, StoreTypeOK
  <2> QED BY <1>0, <1>7, <2>2 DEF Fail, StoreTypeOK
<1>8. ASSUME NEW c \in Convs, DeleteConversation(c)
      PROVE  StoreTypeOK'
  <2>1. ASSUME NEW j \in Jobs
        PROVE  jobs[j] \in Job /\ [jobs[j] EXCEPT !.status = "deleted"] \in Job
    <3>1. jobs[j] \in Job
      BY <1>0 DEF StoreTypeOK
    <3> QED BY <3>1 DEF Job, JobStatus
  <2>2. jobs' \in [Jobs -> Job]
    BY <1>8, <2>1 DEF DeleteConversation, DeleteConversationRow
  <2> QED BY <1>0, <1>8, <2>2 DEF DeleteConversation, DeleteConversationRow, StoreTypeOK
<1>9. ASSUME NEW c \in Convs, PostMessage(c)
      PROVE  StoreTypeOK'
  <2>1. "user" \in Roles
    BY DEF Roles
  <2>2. messages' \in Seq(Message)
    BY <1>0, <1>9, <2>1, MessageInserted DEF PostMessage
  <2> QED BY <1>0, <1>9, <2>2 DEF PostMessage, StoreTypeOK
<1>10. ASSUME UNCHANGED storeVars
       PROVE  StoreTypeOK'
    BY <1>0, <1>10 DEF storeVars, StoreTypeOK
<1>11. \A j \in Jobs : Publish(j) => UNCHANGED storeVars
    BY DEF Publish
<1>12. \A w \in Workers :
         Deliver(w) \/ FindReply(w) \/ ChatReturns(w) \/ Ack(w) \/ Nack(w) \/ LoseChannel(w) \/ Crash(w)
           => UNCHANGED storeVars
    BY DEF Deliver, FindReply, ChatReturns, Ack, Nack, LoseChannel, Crash
<1>13. UNCHANGED vars => UNCHANGED storeVars
    BY DEF vars
<1> QED
    BY <1>1, <1>2, <1>3, <1>4, <1>5, <1>6, <1>7, <1>8, <1>9, <1>10, <1>11, <1>12, <1>13
       DEF Next, Process
----------------------------------------------------------------------------
(* The chats.                                                              *)

LEMMA ChatTypeStep == TypeOK /\ [Next]_vars => ChatTypeOK'
<1> SUFFICES ASSUME TypeOK, [Next]_vars
             PROVE  ChatTypeOK'
    OBVIOUS
<1>0. StoreTypeOK /\ ChatTypeOK /\ ChatsOK /\ failures \in 0..MaxFailures /\ WorkersOK
    BY DEF TypeOK, ChatTypeOK, JobTypeOK
<1>1. ASSUME NEW w \in Workers, RunChat(w)
      PROVE  ChatTypeOK'
    BY <1>0, <1>1, ChatStepType DEF RunChat
<1>2. ASSUME NEW w \in Workers, FindReply(w)
      PROVE  ChatTypeOK'
  <2>1. worker[w].job \in Jobs
    BY <1>0, <1>2 DEF FindReply, At, WorkersOK
  <2>2. jobs[worker[w].job].request \in Nat
    BY <1>0, <2>1 DEF StoreTypeOK, Job
  <2>3. ChatsOK'
    BY <1>0, <1>2, <2>2, ChatBegins DEF FindReply, ChatsOK
  <2>4. failures' \in 0..MaxFailures
    BY <1>0, <1>2, FailuresCounted DEF FindReply
  <2> QED BY <2>3, <2>4 DEF ChatTypeOK
<1>3. ASSUME NEW w \in Workers, ChatReturns(w) \/ Crash(w)
      PROVE  ChatTypeOK'
    BY <1>0, <1>3, ChatEnds DEF ChatReturns, Crash, ChatTypeOK
<1>4. ASSUME UNCHANGED chat, Failure \/ NoFailure
      PROVE  ChatTypeOK'
    BY <1>0, <1>4, FailuresCounted DEF ChatTypeOK, ChatsOK
<1>5. ASSUME NEW w \in Workers, Claim(w) \/ Ensure(w) \/ Complete(w) \/ Fail(w)
      PROVE  ChatTypeOK'
    BY <1>4, <1>5 DEF Claim, Ensure, Complete, Fail
<1>6. ASSUME UNCHANGED chatVars
      PROVE  ChatTypeOK'
    BY <1>4, <1>6 DEF chatVars, NoFailure
<1>7. \A j \in Jobs : InsertJob(j) \/ Publish(j) => UNCHANGED chatVars
    BY DEF InsertJob, Publish
<1>8. \A w \in Workers :
        Deliver(w) \/ Retry(w) \/ Ack(w) \/ Nack(w) \/ LoseChannel(w) => UNCHANGED chatVars
    BY DEF Deliver, Retry, Ack, Nack, LoseChannel
<1>9. \A c \in Convs : DeleteConversation(c) \/ PostMessage(c) => UNCHANGED chatVars
    BY DEF DeleteConversation, PostMessage
<1>10. UNCHANGED vars => UNCHANGED chatVars
    BY DEF vars
<1> QED
    BY <1>1, <1>2, <1>3, <1>5, <1>6, <1>7, <1>8, <1>9, <1>10 DEF Next, Process

----------------------------------------------------------------------------
LEMMA TypeInit == Init => TypeOK
<1> SUFFICES ASSUME Init
             PROVE  TypeOK
    OBVIOUS
<1>1. StoreTypeOK
    BY EmptySeq DEF Init, StoreInit, StoreTypeOK, Job, JobStatus, ErrorCodes, None
<1>2. ChatTypeOK
  <2>1. NoChat \in ChatRecord /\ NoChat.stage # "finish"
    BY DEF ChatRecord, ChatStage, NoChat, None
  <2>2. chat = [p \in Procs |-> NoChat] /\ failures = 0
    BY DEF Init, ChatInit
  <2> QED BY <2>1, <2>2 DEF ChatTypeOK, ChatsOK
<1>3. JobTypeOK
  <2>1. Idle \in WorkerRecord /\ Idle.pc = "idle"
    BY DEF WorkerRecord, Pc, Idle, ErrorCodes, None
  <2>2. worker = [w \in Workers |-> Idle]
    BY DEF Init
  <2>3. WorkersOK
    BY <2>1, <2>2 DEF WorkersOK
  <2>4. BrokerOK
    BY DEF Init, BrokerOK, Answer
  <2> QED BY <2>3, <2>4 DEF JobTypeOK
<1> QED BY <1>1, <1>2, <1>3 DEF TypeOK

LEMMA TypeStep == TypeOK /\ [Next]_vars => TypeOK'
BY StoreTypeStep, ChatTypeStep, JobTypeStep DEF TypeOK

\* Every state of every deployment has its type: no statement writes a row the
\* schema's checks would refuse, and whatever a worker does next it has a job for.
THEOREM TypeCorrect == Spec => []TypeOK
<1>1. Init => TypeOK
    BY TypeInit
<1>2. TypeOK /\ [Next]_vars => TypeOK'
    BY TypeStep
<1> QED BY <1>1, <1>2, PTL DEF Spec
----------------------------------------------------------------------------
(* Claims.                                                                 *)

LEMMA ClaimInit == Init => ClaimInv
<1> SUFFICES ASSUME Init
             PROVE  ClaimInv
    OBVIOUS
<1>1. \A w \in Workers : worker[w].pc = "idle"
    BY DEF Init, Idle
<1>2. \A w \in Workers : \A j \in Jobs : ~Owner(w, j)
    BY <1>1 DEF Owner, Owning
<1>3. \A j \in Jobs : jobs[j].status = "absent" /\ jobs[j].attempts = 0
    BY DEF Init, StoreInit
<1> QED
    BY <1>2, <1>3 DEF ClaimInv, ExclusiveProcessing, AttemptsBounded, OwnersHoldRows, AttemptsLeft

\* A worker that owns nothing, or gives up what it owns, disturbs no row.
LEMMA WorkerLetsGo ==
  ASSUME WorkersOK, ClaimInv, NEW w \in Workers, NEW r,
         worker' = [worker EXCEPT ![w] = r], r.pc \notin Owning,
         UNCHANGED <<jobs, answer>>
  PROVE  ClaimInv'
<1>1. /\ worker'[w] = r
      /\ \A v \in Workers : v # w => worker'[v] = worker[v]
    BY DEF WorkersOK
<1>2. \A v \in Workers : \A j \in Jobs : Owner(v, j)' => v # w /\ Owner(v, j)
    BY <1>1 DEF Owner
<1>3. ExclusiveProcessing'
    BY <1>2 DEF ClaimInv, ExclusiveProcessing
<1>4. OwnersHoldRows'
    BY <1>1, <1>2 DEF ClaimInv, OwnersHoldRows, At
<1> QED BY <1>3, <1>4 DEF ClaimInv, AttemptsBounded, AttemptsLeft

\* The owner of job j replaces its row by q and its own state by r.
LEMMA OwnerMoves ==
  ASSUME TypeOK, ClaimInv, NEW w \in Workers, NEW j \in Jobs, Owner(w, j), NEW r, NEW q,
         worker' = [worker EXCEPT ![w] = r], r.job = j,
         jobs' = [jobs EXCEPT ![j] = q], UNCHANGED answer,
         q.status # "absent",
         q.attempts = jobs[j].attempts,
         q.status = "pending" => q.attempts < MaxAttempts /\ r.pc \notin Owning,
         r.pc \in Owning => r.attempt = worker[w].attempt,
         r.pc = "retry" => worker[w].attempt < MaxAttempts
  PROVE  ClaimInv'
<1>1. /\ worker'[w] = r
      /\ \A v \in Workers : v # w => worker'[v] = worker[v]
    BY DEF TypeOK, JobTypeOK, WorkersOK
<1>2. /\ jobs'[j] = q
      /\ \A i \in Jobs : i # j => jobs'[i] = jobs[i]
    BY DEF TypeOK, StoreTypeOK
<1>3. \A v \in Workers : \A i \in Jobs :
        Owner(v, i)' => \/ v = w /\ i = j
                        \/ v # w /\ i # j /\ Owner(v, i)
  <2> SUFFICES ASSUME NEW v \in Workers, NEW i \in Jobs, Owner(v, i)'
               PROVE  \/ v = w /\ i = j
                      \/ v # w /\ i # j /\ Owner(v, i)
      OBVIOUS
  <2>1. CASE v = w
    BY <1>1, <2>1 DEF Owner
  <2>2. CASE v # w
    <3>1. Owner(v, i)
      BY <1>1, <2>2 DEF Owner
    <3> QED BY <2>2, <3>1 DEF ClaimInv, ExclusiveProcessing
  <2> QED BY <2>1, <2>2
<1>4. jobs[j].attempts = worker[w].attempt /\ jobs[j].status # "absent"
    BY DEF ClaimInv, OwnersHoldRows
<1>5. ExclusiveProcessing'
    BY <1>3 DEF ClaimInv, ExclusiveProcessing
<1>6. AttemptsBounded'
    BY <1>2 DEF ClaimInv, AttemptsBounded
<1>7. OwnersHoldRows'
  <2> SUFFICES ASSUME NEW v \in Workers, NEW i \in Jobs, Owner(v, i)'
               PROVE  /\ jobs'[i].status \notin {"absent", "pending"}
                      /\ jobs'[i].attempts = worker'[v].attempt
                      /\ worker'[v].pc = "retry" => worker'[v].attempt < MaxAttempts
      BY DEF OwnersHoldRows, At
  <2>1. CASE v = w /\ i = j
    <3>1. r.pc \in Owning
      BY <1>1, <2>1 DEF Owner
    <3> QED BY <1>1, <1>2, <1>4, <2>1, <3>1
  <2>2. CASE v # w /\ i # j /\ Owner(v, i)
    BY <1>1, <1>2, <2>2 DEF ClaimInv, OwnersHoldRows, At
  <2> QED BY <1>3, <2>1, <2>2
<1>8. AttemptsLeft'
    BY <1>2, <1>4 DEF ClaimInv, AttemptsLeft
<1> QED BY <1>5, <1>6, <1>7, <1>8 DEF ClaimInv

\* Worker w, which owns nothing, wins the row of job j.
LEMMA OwnerClaims ==
  ASSUME TypeOK, ClaimInv, NEW w \in Workers, NEW j \in Jobs, NEW r,
         worker[w].pc \notin Owning, worker[w].job = j, Claimable(j),
         ClaimPendingChatJob(j),
         worker' = [worker EXCEPT ![w] = r], r.job = j,
         r.pc \in Owning => r.pc # "retry" /\ r.attempt = jobs[j].attempts + 1,
         UNCHANGED answer
  PROVE  ClaimInv'
<1>1. /\ worker'[w] = r
      /\ \A v \in Workers : v # w => worker'[v] = worker[v]
    BY DEF TypeOK, JobTypeOK, WorkersOK
<1>2. jobs[j] \in Job /\ jobs[j].attempts \in Nat
    BY DEF TypeOK, StoreTypeOK, Job
<1>3. /\ jobs'[j].status = "processing"
      /\ jobs'[j].attempts = jobs[j].attempts + 1
      /\ \A i \in Jobs : i # j => jobs'[i] = jobs[i]
    BY <1>2 DEF TypeOK, StoreTypeOK, ClaimPendingChatJob, Job
<1>4. \A v \in Workers : ~Owner(v, j)
    BY DEF Claimable, ClaimInv, OwnersHoldRows
<1>5. \A v \in Workers : \A i \in Jobs :
        Owner(v, i)' => \/ v = w /\ i = j
                        \/ v # w /\ i # j /\ Owner(v, i)
    BY <1>1, <1>4 DEF Owner
<1>6. jobs[j].attempts < MaxAttempts
    BY DEF Claimable, ClaimInv, AttemptsLeft
<1>7. jobs[j].attempts + 1 <= MaxAttempts
    BY <1>2, <1>6
<1>8. ExclusiveProcessing'
    BY <1>5 DEF ClaimInv, ExclusiveProcessing
<1>9. AttemptsBounded'
    BY <1>3, <1>7 DEF ClaimInv, AttemptsBounded
<1>10. OwnersHoldRows'
  <2> SUFFICES ASSUME NEW v \in Workers, NEW i \in Jobs, Owner(v, i)'
               PROVE  /\ jobs'[i].status \notin {"absent", "pending"}
                      /\ jobs'[i].attempts = worker'[v].attempt
                      /\ worker'[v].pc = "retry" => worker'[v].attempt < MaxAttempts
      BY DEF OwnersHoldRows, At
  <2>1. CASE v = w /\ i = j
    <3>1. r.pc \in Owning
      BY <1>1, <2>1 DEF Owner
    <3> QED BY <1>1, <1>3, <2>1, <3>1
  <2>2. CASE v # w /\ i # j /\ Owner(v, i)
    BY <1>1, <1>3, <2>2 DEF ClaimInv, OwnersHoldRows, At
  <2> QED BY <1>5, <2>1, <2>2
<1>11. answer[j] # "none"
    BY DEF Claimable, ClaimInv, AttemptsLeft
<1>12. AttemptsLeft'
    BY <1>3, <1>11 DEF ClaimInv, AttemptsLeft
<1> QED BY <1>8, <1>9, <1>10, <1>12 DEF ClaimInv
\* Worker w goes on with the job and the attempt it has.
GoesOn(w) ==
  \E r : /\ worker' = [worker EXCEPT ![w] = r]
         /\ r.job = worker[w].job
         /\ r.attempt = worker[w].attempt
         /\ r.pc = "retry" => worker[w].attempt < MaxAttempts

LEMMA GotoGoesOn ==
  ASSUME WorkersOK, NEW w \in Workers, NEW pc, pc # "retry", GotoPc(w, pc)
  PROVE  GoesOn(w)
<1> DEFINE r == [worker[w] EXCEPT !.pc = pc]
<1>1. worker[w] \in WorkerRecord
    BY DEF WorkersOK
<1>2. worker' = [worker EXCEPT ![w] = r]
    BY DEF GotoPc, WorkersOK
<1>3. r.job = worker[w].job /\ r.attempt = worker[w].attempt /\ r.pc = pc
    BY <1>1 DEF WorkerRecord
<1> QED BY <1>2, <1>3 DEF GoesOn

LEMMA HasReplyGoesOn ==
  ASSUME WorkersOK, NEW w \in Workers, NEW m,
         worker' = [worker EXCEPT ![w].pc = "complete", ![w].reply = m]
  PROVE  GoesOn(w)
<1> DEFINE r == [worker[w] EXCEPT !.pc = "complete", !.reply = m]
<1>1. worker[w] \in WorkerRecord
    BY DEF WorkersOK
<1>2. worker' = [worker EXCEPT ![w] = r]
    BY DEF WorkersOK
<1>3. r.job = worker[w].job /\ r.attempt = worker[w].attempt /\ r.pc = "complete"
    BY <1>1 DEF WorkerRecord
<1> QED BY <1>2, <1>3 DEF GoesOn

LEMMA AttemptFailedGoesOn ==
  ASSUME WorkersOK, NEW w \in Workers, NEW code, AttemptFailed(w, code)
  PROVE  GoesOn(w)
<1>1. worker[w] \in WorkerRecord
    BY DEF WorkersOK
<1>2. CASE worker[w].attempt < MaxAttempts
  <2> DEFINE r == [worker[w] EXCEPT !.pc = "retry"]
  <2>1. worker' = [worker EXCEPT ![w] = r]
    BY <1>2 DEF AttemptFailed, GotoPc, WorkersOK
  <2>2. r.job = worker[w].job /\ r.attempt = worker[w].attempt
    BY <1>1 DEF WorkerRecord
  <2> QED BY <1>2, <2>1, <2>2 DEF GoesOn
<1>3. CASE ~(worker[w].attempt < MaxAttempts)
  <2> DEFINE r == [worker[w] EXCEPT !.pc = "fail", !.code = code]
  <2>1. worker' = [worker EXCEPT ![w] = r]
    BY <1>3 DEF AttemptFailed, WorkersOK
  <2>2. r.job = worker[w].job /\ r.attempt = worker[w].attempt /\ r.pc = "fail"
    BY <1>1 DEF WorkerRecord
  <2> QED BY <2>1, <2>2 DEF GoesOn
<1> QED BY <1>2, <1>3

\* An owner's step that goes on, and leaves its row neither absent nor pending.
LEMMA OwnerGoesOn ==
  ASSUME TypeOK, ClaimInv, NEW w \in Workers, NEW j \in Jobs, Owner(w, j), GoesOn(w),
         NEW q, jobs' = [jobs EXCEPT ![j] = q], UNCHANGED answer,
         q.status \notin {"absent", "pending"}, q.attempts = jobs[j].attempts
  PROVE  ClaimInv'
<1>1. PICK r : /\ worker' = [worker EXCEPT ![w] = r]
               /\ r.job = worker[w].job
               /\ r.attempt = worker[w].attempt
               /\ r.pc = "retry" => worker[w].attempt < MaxAttempts
    BY DEF GoesOn
<1>2. r.job = j
    BY <1>1 DEF Owner
<1> QED BY <1>1, <1>2, OwnerMoves

LEMMA OwnerKeepsRow ==
  ASSUME TypeOK, ClaimInv, NEW w \in Workers, NEW j \in Jobs, Owner(w, j), GoesOn(w),
         UNCHANGED <<jobs, answer>>
  PROVE  ClaimInv'
<1>1. jobs' = [jobs EXCEPT ![j] = jobs[j]]
    BY DEF TypeOK, StoreTypeOK
<1>2. jobs[j].status \notin {"absent", "pending"}
    BY DEF ClaimInv, OwnersHoldRows
<1> QED BY <1>1, <1>2, OwnerGoesOn

LEMMA ClaimStep == TypeOK /\ ClaimInv /\ [Next]_vars => ClaimInv'
<1> SUFFICES ASSUME TypeOK, ClaimInv, [Next]_vars
             PROVE  ClaimInv'
    OBVIOUS
<1>0. /\ WorkersOK
      /\ jobs \in [Jobs -> Job]
      /\ answer \in [Jobs -> Answer]
    BY DEF TypeOK, JobTypeOK, BrokerOK, StoreTypeOK
<1>1. ASSUME UNCHANGED <<jobs, answer, worker>>
      PROVE  ClaimInv'
    BY <1>1 DEF ClaimInv, ExclusiveProcessing, AttemptsBounded, OwnersHoldRows, AttemptsLeft,
                Owner, At
<1>2. ASSUME NEW j \in Jobs, InsertJob(j)
      PROVE  ClaimInv'
  <2>1. UNCHANGED worker
    BY <1>2 DEF InsertJob
  <2>2. \A i \in Jobs : /\ jobs'[i].attempts = jobs[i].attempts
                        /\ i # j => jobs'[i] = jobs[i] /\ answer'[i] = answer[i]
    BY <1>0, <1>2 DEF InsertJob, InsertPendingChatJob, Answers, Job
  <2>3. /\ jobs[j].status = "absent" /\ jobs[j].attempts = 0
        /\ jobs'[j].status \in {"absent", "pending"}
        /\ answer'[j] # "none"
    <3>1. jobs[j].status = "absent" /\ jobs[j].attempts = 0
      BY <1>2 DEF InsertJob, ClaimInv, AttemptsLeft
    <3>2. answer'[j] # "none"
      BY <1>0, <1>2 DEF InsertJob, Answers
    <3>3. jobs'[j].status \in {"absent", "pending"}
      BY <1>0, <1>2, <3>1 DEF InsertJob, InsertPendingChatJob, Job
    <3> QED BY <3>1, <3>2, <3>3
  <2>4. \A w \in Workers : \A i \in Jobs : Owner(w, i)' => Owner(w, i) /\ i # j
    BY <2>1, <2>3 DEF Owner, ClaimInv, OwnersHoldRows
  <2>5. ExclusiveProcessing'
    BY <2>4 DEF ClaimInv, ExclusiveProcessing
  <2>6. AttemptsBounded'
    BY <2>2 DEF ClaimInv, AttemptsBounded
  <2>7. OwnersHoldRows'
    BY <2>1, <2>2, <2>4 DEF ClaimInv, OwnersHoldRows, At
  <2>8. AttemptsLeft'
    BY <2>2, <2>3 DEF ClaimInv, AttemptsLeft
  <2> QED BY <2>5, <2>6, <2>7, <2>8 DEF ClaimInv
<1>3. ASSUME NEW j \in Jobs, Publish(j)
      PROVE  ClaimInv'
  <2>1. UNCHANGED <<jobs, worker>>
    BY <1>3 DEF Publish, storeVars
  <2>2. \A i \in Jobs : answer'[i] = "none" => answer[i] = "none"
    BY <1>0, <1>3 DEF Publish, Answers
  <2> QED BY <2>1, <2>2 DEF ClaimInv, ExclusiveProcessing, AttemptsBounded, OwnersHoldRows,
                            AttemptsLeft, Owner, At
<1>4. ASSUME NEW w \in Workers, Deliver(w)
      PROVE  ClaimInv'
  <2>1. UNCHANGED <<jobs, answer>>
    BY <1>4 DEF Deliver, storeVars
  <2>2. PICK j \in Jobs : worker' = [worker EXCEPT ![w].pc = "claim", ![w].job = j]
    BY <1>4 DEF Deliver, TypeOK, JobTypeOK, BrokerOK
  <2> DEFINE r == [worker[w] EXCEPT !.pc = "claim", !.job = j]
  <2>3. worker' = [worker EXCEPT ![w] = r]
    BY <1>0, <2>2 DEF WorkersOK
  <2>4. r.pc \notin Owning
    BY <1>0 DEF WorkersOK, WorkerRecord, Owning
  <2> QED BY <1>0, <2>1, <2>3, <2>4, WorkerLetsGo
<1>5. ASSUME NEW w \in Workers, Ack(w) \/ Nack(w) \/ Crash(w)
      PROVE  ClaimInv'
  <2>1. UNCHANGED <<jobs, answer>> /\ worker' = [worker EXCEPT ![w] = Idle]
    BY <1>5 DEF Ack, Nack, Crash, storeVars
  <2>2. Idle.pc \notin Owning
    BY DEF Idle, Owning
  <2> QED BY <1>0, <2>1, <2>2, WorkerLetsGo
<1>6. ASSUME NEW w \in Workers, Claim(w)
      PROVE  ClaimInv'
  <2>1. worker[w].job \in Jobs /\ worker[w].pc \notin Owning /\ worker[w] \in WorkerRecord
    BY <1>0, <1>6 DEF Claim, At, WorkersOK, Owning
  <2>2. UNCHANGED answer
    BY <1>6 DEF Claim
  <2>3. CASE UNCHANGED jobs /\ \E pc \in {"ack", "nack"} : GotoPc(w, pc)
    <3>1. PICK pc \in {"ack", "nack"} : GotoPc(w, pc)
      BY <2>3
    <3> DEFINE r == [worker[w] EXCEPT !.pc = pc]
    <3>2. worker' = [worker EXCEPT ![w] = r]
      BY <1>0, <3>1 DEF GotoPc, WorkersOK
    <3>3. r.pc \notin Owning
      BY <2>1, <3>1 DEF WorkerRecord, Owning
    <3> QED BY <1>0, <2>2, <2>3, <3>2, <3>3, WorkerLetsGo
  <2>4. CASE /\ Claimable(worker[w].job)
             /\ ClaimPendingChatJob(worker[w].job)
             /\ GotoPc(w, "nack")
    <3> DEFINE r == [worker[w] EXCEPT !.pc = "nack"]
    <3>1. worker' = [worker EXCEPT ![w] = r]
      BY <1>0, <2>4 DEF GotoPc, WorkersOK
    <3>2. r.pc \notin Owning /\ r.job = worker[w].job
      BY <2>1 DEF WorkerRecord, Owning
    <3> QED BY <2>1, <2>2, <2>4, <3>1, <3>2, OwnerClaims
  <2>5. CASE /\ Claimable(worker[w].job)
             /\ ClaimPendingChatJob(worker[w].job)
             /\ worker' = [worker EXCEPT ![w].pc = "ensure",
                                         ![w].attempt = jobs[worker[w].job].attempts + 1]
    <3> DEFINE r == [worker[w] EXCEPT !.pc = "ensure",
                                      !.attempt = jobs[worker[w].job].attempts + 1]
    <3>1. worker' = [worker EXCEPT ![w] = r]
      BY <1>0, <2>5 DEF WorkersOK
    <3>2. /\ r.pc = "ensure"
          /\ r.job = worker[w].job
          /\ r.attempt = jobs[worker[w].job].attempts + 1
      BY <2>1 DEF WorkerRecord
    <3> QED BY <2>1, <2>2, <2>5, <3>1, <3>2, OwnerClaims
  <2> QED BY <1>6, <2>3, <2>4, <2>5 DEF Claim
<1>7. ASSUME NEW w \in Workers, worker[w].pc \in Owning
      PROVE  /\ worker[w].job \in Jobs
             /\ Owner(w, worker[w].job)
             /\ jobs[worker[w].job] \in Job
             /\ jobs[worker[w].job].status \notin {"absent", "pending"}
  <2>1. worker[w].job \in Jobs
    BY <1>0, <1>7 DEF WorkersOK, Owning
  <2> QED BY <1>0, <1>7, <2>1 DEF Owner, ClaimInv, OwnersHoldRows
<1>8. ASSUME NEW w \in Workers, Ensure(w)
      PROVE  ClaimInv'
  <2> DEFINE j == worker[w].job
  <2>1. worker[w].pc \in Owning /\ UNCHANGED answer
    BY <1>8 DEF Ensure, At, Owning
  <2>2. GoesOn(w)
    BY <1>0, <1>8, GotoGoesOn, AttemptFailedGoesOn DEF Ensure
  <2>3. CASE EnsureChatJobRequestMessage(j)
    <3> DEFINE q == [jobs[j] EXCEPT !.request = RequestMessageOf(j)]
    <3>1. jobs' = [jobs EXCEPT ![j] = q]
      BY <1>0, <2>3 DEF EnsureChatJobRequestMessage
    <3>2. q.status = jobs[j].status /\ q.attempts = jobs[j].attempts
      BY <1>7, <2>1 DEF Job
    <3> QED BY <1>7, <2>1, <2>2, <3>1, <3>2, OwnerGoesOn
  <2>4. CASE UNCHANGED jobs
    BY <1>7, <2>1, <2>2, <2>4, OwnerKeepsRow
  <2> QED BY <1>8, <2>3, <2>4 DEF Ensure
<1>9. ASSUME NEW w \in Workers, FindReply(w) \/ ChatReturns(w)
      PROVE  ClaimInv'
  <2>1. worker[w].pc \in Owning /\ UNCHANGED <<jobs, answer>>
    BY <1>9 DEF FindReply, ChatReturns, At, Owning, storeVars
  <2>2. GoesOn(w)
    BY <1>0, <1>9, GotoGoesOn, HasReplyGoesOn, AttemptFailedGoesOn DEF FindReply, ChatReturns
  <2> QED BY <1>7, <2>1, <2>2, OwnerKeepsRow
<1>10. ASSUME NEW w \in Workers, Complete(w)
       PROVE  ClaimInv'
  <2> DEFINE j == worker[w].job
  <2>1. worker[w].pc \in Owning /\ UNCHANGED answer
    BY <1>10 DEF Complete, At, Owning
  <2>2. GoesOn(w)
    BY <1>0, <1>10, GotoGoesOn, AttemptFailedGoesOn DEF Complete
  <2>3. CASE CompleteChatJob(j, worker[w].reply)
    <3> DEFINE q == [jobs[j] EXCEPT !.status = "completed", !.assistant = worker[w].reply]
    <3>1. jobs' = [jobs EXCEPT ![j] = q]
      BY <1>0, <2>3 DEF CompleteChatJob
    <3>2. q.status = "completed" /\ q.attempts = jobs[j].attempts
      BY <1>7, <2>1 DEF Job
    <3> QED BY <1>7, <2>1, <2>2, <3>1, <3>2, OwnerGoesOn
  <2>4. CASE UNCHANGED jobs
    BY <1>7, <2>1, <2>2, <2>4, OwnerKeepsRow
  <2> QED BY <1>10, <2>3, <2>4 DEF Complete
<1>11. ASSUME NEW w \in Workers, Fail(w)
       PROVE  ClaimInv'
  <2> DEFINE j == worker[w].job
  <2>1. worker[w].pc \in Owning /\ UNCHANGED answer
    BY <1>11 DEF Fail, At, Owning
  <2>2. GoesOn(w)
    BY <1>0, <1>11, GotoGoesOn DEF Fail
  <2>3. CASE FailChatJob(j, worker[w].code)
    <3> DEFINE q == [jobs[j] EXCEPT !.status = "failed", !.error = worker[w].code]
    <3>1. jobs' = [jobs EXCEPT ![j] = q]
      BY <1>0, <2>3 DEF FailChatJob
    <3>2. q.status = "failed" /\ q.attempts = jobs[j].attempts
      BY <1>7, <2>1 DEF Job
    <3> QED BY <1>7, <2>1, <2>2, <3>1, <3>2, OwnerGoesOn
  <2>4. CASE UNCHANGED jobs
    BY <1>7, <2>1, <2>2, <2>4, OwnerKeepsRow
  <2> QED BY <1>11, <2>3, <2>4 DEF Fail
<1>12. ASSUME NEW w \in Workers, Retry(w)
       PROVE  ClaimInv'
  <2> DEFINE j == worker[w].job
  <2>1. worker[w].pc \in Owning /\ At(w, "retry") /\ UNCHANGED answer /\ GotoPc(w, "nack")
    BY <1>12 DEF Retry, At, Owning
  <2>2. worker[w].attempt < MaxAttempts /\ jobs[j].attempts = worker[w].attempt
    BY <1>7, <2>1 DEF ClaimInv, OwnersHoldRows
  <2>3. CASE RetryChatJob(j)
    <3> DEFINE q == [jobs[j] EXCEPT !.status = "pending"]
               r == [worker[w] EXCEPT !.pc = "nack"]
    <3>1. jobs' = [jobs EXCEPT ![j] = q] /\ worker' = [worker EXCEPT ![w] = r]
      BY <1>0, <2>1, <2>3 DEF RetryChatJob, GotoPc, WorkersOK
    <3>2. q.status = "pending" /\ q.attempts = jobs[j].attempts
      BY <1>7, <2>1 DEF Job
    <3>3. r.pc \notin Owning /\ r.pc # "retry" /\ r.job = j
      BY <1>0 DEF WorkersOK, WorkerRecord, Owning
    <3> QED BY <1>7, <2>1, <2>2, <3>1, <3>2, <3>3, OwnerMoves
  <2>4. CASE UNCHANGED jobs
    <3>1. GoesOn(w)
      BY <1>0, <2>1, GotoGoesOn
    <3> QED BY <1>7, <2>1, <2>4, <3>1, OwnerKeepsRow
  <2> QED BY <1>12, <2>3, <2>4 DEF Retry
<1>13. ASSUME NEW c \in Convs, DeleteConversation(c)
       PROVE  ClaimInv'
  <2>1. UNCHANGED <<answer, worker>>
    BY <1>13 DEF DeleteConversation, jobVars
  <2>2. \A j \in Jobs : /\ jobs'[j].attempts = jobs[j].attempts
                        /\ \/ jobs'[j].status = jobs[j].status
                           \/ jobs'[j].status = "deleted" /\ jobs[j].status # "absent"
    BY <1>0, <1>13 DEF DeleteConversation, DeleteConversationRow, Job
  <2> QED BY <2>1, <2>2 DEF ClaimInv, ExclusiveProcessing, AttemptsBounded, OwnersHoldRows,
                            AttemptsLeft, Owner, At
<1>14. ASSUME NEW w \in Workers, RunChat(w) \/ LoseChannel(w)
       PROVE  ClaimInv'
  <2>1. UNCHANGED <<jobs, answer, worker>>
    BY <1>14 DEF RunChat, ChatStep, StartModelCall, LoadHistory, Generate, SaveReply, FinishCall,
                 LoseChannel, jobVars, storeVars
  <2> QED BY <1>1, <2>1
<1>15. ASSUME NEW c \in Convs, PostMessage(c)
       PROVE  ClaimInv'
    BY <1>1, <1>15 DEF PostMessage, jobVars
<1>16. CASE UNCHANGED vars
    BY <1>1, <1>16 DEF vars, storeVars, jobVars
<1> QED
    BY <1>2, <1>3, <1>4, <1>5, <1>6, <1>8, <1>9, <1>10, <1>11, <1>12, <1>13, <1>14, <1>15, <1>16
       DEF Next, Process

LEMMA InvStep == TypeOK /\ ClaimInv /\ [Next]_vars => TypeOK' /\ ClaimInv'
BY TypeStep, ClaimStep

LEMMA Claims == Spec => [](TypeOK /\ ClaimInv)
<1>1. Init => TypeOK /\ ClaimInv
    BY TypeInit, ClaimInit
<1>2. (TypeOK /\ ClaimInv) /\ [Next]_vars => (TypeOK /\ ClaimInv)'
    BY InvStep
<1> QED BY <1>1, <1>2, PTL DEF Spec

\* With any number of backends, deliveries, crashes and lost replies, one worker at
\* a time is between its claim of a job and its decision what becomes of it.
THEOREM ProcessingIsExclusive == Spec => []ExclusiveProcessing
<1>1. ClaimInv => ExclusiveProcessing
    BY DEF ClaimInv
<1> QED BY <1>1, Claims, PTL

\* While a worker owns a job its row stays as the worker read it, whoever else is
\* delivered the same message: it is not claimable, and its attempts do not change.
THEOREM OwnersKeepRows == Spec => []OwnersHoldRows
<1>1. ClaimInv => OwnersHoldRows
    BY DEF ClaimInv
<1> QED BY <1>1, Claims, PTL

\* CHAT_JOB_MAX_ATTEMPTS bounds the attempts of a job, whatever its value.
THEOREM AttemptsAreBounded == Spec => []AttemptsBounded
<1>1. ClaimInv => AttemptsBounded
    BY DEF ClaimInv
<1> QED BY <1>1, Claims, PTL

----------------------------------------------------------------------------
(* Outcomes.                                                               *)

Settled(j) == jobs[j].status \in {"completed", "failed"}

LEMMA OutcomeStep ==
  TypeOK /\ ClaimInv /\ [Next]_vars =>
    \A j \in Jobs : Settled(j) => jobs'[j] = jobs[j] \/ jobs'[j].status = "deleted"
<1> SUFFICES ASSUME TypeOK, ClaimInv, [Next]_vars, NEW j \in Jobs, Settled(j)
             PROVE  jobs'[j] = jobs[j] \/ jobs'[j].status = "deleted"
    OBVIOUS
<1>0. /\ jobs \in [Jobs -> Job]
      /\ jobs[j] \in Job
      /\ ~Processing(j)
      /\ ~Claimable(j)
      /\ jobs[j].status # "absent"
    BY DEF TypeOK, StoreTypeOK, Settled, Processing, Claimable
<1>1. ASSUME NEW i \in Jobs, InsertJob(i)
      PROVE  jobs'[j] = jobs[j]
  <2>1. jobs[i].status = "absent"
    BY <1>1 DEF InsertJob, ClaimInv, AttemptsLeft
  <2>2. i # j
    BY <1>0, <2>1
  <2> QED BY <1>0, <1>1, <2>2 DEF InsertJob, InsertPendingChatJob
<1>2. ASSUME NEW w \in Workers, Claim(w)
      PROVE  jobs'[j] = jobs[j]
    BY <1>0, <1>2 DEF Claim, ClaimPendingChatJob
<1>3. ASSUME NEW w \in Workers, Ensure(w)
      PROVE  jobs'[j] = jobs[j]
    BY <1>0, <1>3 DEF Ensure, EnsureChatJobRequestMessage
<1>4. ASSUME NEW w \in Workers, Complete(w)
      PROVE  jobs'[j] = jobs[j]
    BY <1>0, <1>4 DEF Complete, Completable, CompleteChatJob
<1>5. ASSUME NEW w \in Workers, Retry(w)
      PROVE  jobs'[j] = jobs[j]
    BY <1>0, <1>5 DEF Retry, RetryChatJob
<1>6. ASSUME NEW w \in Workers, Fail(w)
      PROVE  jobs'[j] = jobs[j]
    BY <1>0, <1>6 DEF Fail, FailChatJob
<1>7. ASSUME NEW c \in Convs, DeleteConversation(c)
      PROVE  jobs'[j] = jobs[j] \/ jobs'[j].status = "deleted"
  <2>1. jobs'[j] = IF ConvOf[j] = c /\ jobs[j].status # "absent"
                   THEN [jobs[j] EXCEPT !.status = "deleted"]
                   ELSE jobs[j]
    BY <1>7 DEF DeleteConversation, DeleteConversationRow
  <2> QED BY <1>0, <2>1 DEF Job
<1>8. ASSUME NEW w \in Workers, RunChat(w)
      PROVE  jobs' = jobs
    BY <1>8 DEF RunChat, ChatStep, StartModelCall, LoadHistory, Generate, SaveReply, FinishCall,
                storeVars
<1>9. \A i \in Jobs : Publish(i) => jobs' = jobs
    BY DEF Publish, storeVars
<1>10. \A w \in Workers :
         Deliver(w) \/ FindReply(w) \/ ChatReturns(w) \/ Ack(w) \/ Nack(w) \/ LoseChannel(w) \/ Crash(w)
           => jobs' = jobs
    BY DEF Deliver, FindReply, ChatReturns, Ack, Nack, LoseChannel, Crash, storeVars
<1>11. \A c \in Convs : PostMessage(c) => jobs' = jobs
    BY DEF PostMessage
<1>12. UNCHANGED vars => jobs' = jobs
    BY DEF vars, storeVars
<1> QED
    BY <1>1, <1>2, <1>3, <1>4, <1>5, <1>6, <1>7, <1>8, <1>9, <1>10, <1>11, <1>12
       DEF Next, Process

\* What a client has read as the outcome of a job stays the outcome.
THEOREM OutcomesAreFinal == Spec => OutcomeIsFinal
<1>1. TypeOK /\ ClaimInv /\ [Next]_vars =>
        [\A j \in Jobs : jobs[j].status \in {"completed", "failed"} =>
           \/ jobs'[j] = jobs[j]
           \/ jobs'[j].status = "deleted"]_vars
    BY OutcomeStep DEF Settled
<1> QED BY <1>1, Claims, PTL DEF Spec, OutcomeIsFinal

----------------------------------------------------------------------------
(* Questions and answers.                                                  *)

\* What the row of a job says, and whether its conversation still exists.
StatusOK(j) ==
  /\ jobs[j].status = "deleted" => ConvOf[j] \notin convs
  /\ ConvOf[j] \notin convs => jobs[j].status \in {"absent", "deleted"}
  /\ jobs[j].status = "completed" => jobs[j].assistant \in Replies(j)

\* A worker that has claimed a job and has not failed at it yet.
Active == {"ensure", "find", "chat", "complete"}

\* What a worker knows of its job: until it saves a reply there is none, and a reply
\* that it holds is the answer to its own question.
ChatOfWorker(w, j) ==
  /\ chat[w].request = jobs[j].request
  /\ chat[w].stage \in {"history", "generate", "save", "finish"} =>
       chat[w].call \in DOMAIN calls /\ calls[chat[w].call].request = jobs[j].request
  /\ chat[w].stage \in {"start", "history", "generate", "save"} /\ ConvOf[j] \in convs =>
       Replies(j) = {}
  /\ chat[w].stage # "done" => chat[w].reply = None
  /\ chat[w].reply # None => chat[w].reply \in Replies(j)

WorkerInv(w) == LET j == worker[w].job IN
  /\ worker[w].pc \in Active => jobs[j].status \in {"processing", "deleted"}
  /\ worker[w].pc \in Active \ {"ensure"} => jobs[j].request # None
  /\ worker[w].pc = "chat" => ChatOfWorker(w, j)
  /\ worker[w].pc = "complete" => worker[w].reply \in Replies(j)

WorkInv ==
  /\ TurnsInv
  /\ \A j \in Jobs : StatusOK(j)
  /\ \A w \in Workers : WorkerInv(w)

JobInv == TypeOK /\ ClaimInv /\ WorkInv

\* Conversations only go, and calls stay in the table with their questions.
Steady ==
  /\ convs' \subseteq convs
  /\ \A k \in DOMAIN calls : k \in DOMAIN calls' /\ calls'[k].request = calls[k].request

LEMMA WorkerAtRest ==
  ASSUME NEW w \in Workers, worker[w].pc \notin Active
  PROVE  WorkerInv(w)
BY DEF WorkerInv, Active

LEMMA OwnJob ==
  ASSUME JobInv, NEW w \in Workers, worker[w].pc \in Owning
  PROVE  /\ worker[w].job \in Jobs /\ jobs[worker[w].job] \in Job
         /\ worker[w] \in WorkerRecord
         /\ Owner(w, worker[w].job)
         /\ \A v \in Workers \ {w} : ~Owner(v, worker[w].job)
BY DEF JobInv, TypeOK, JobTypeOK, WorkersOK, StoreTypeOK, Owning, Owner, ClaimInv,
       ExclusiveProcessing

\* A step at job j leaves a worker alone that is at another job.
LEMMA OthersKeep ==
  ASSUME JobInv, Steady, NEW j \in Jobs, NEW v \in Workers, ~Owner(v, j),
         worker'[v] = worker[v], chat'[v] = chat[v],
         \A i \in Jobs \ {j} : jobs'[i] = jobs[i] /\ Replies(i)' = Replies(i)
  PROVE  WorkerInv(v)'
<1>1. CASE worker[v].pc \in Active
  <2> DEFINE i == worker[v].job
  <2>1. i \in Jobs \ {j}
      BY <1>1 DEF JobInv, TypeOK, JobTypeOK, WorkersOK, Active, Owner, Owning
  <2>2. WorkerInv(v)
      BY DEF JobInv, WorkInv
  <2>3. jobs'[i] = jobs[i] /\ Replies(i)' = Replies(i)
      BY <2>1
  <2>4. ChatOfWorker(v, i) => ChatOfWorker(v, i)'
      BY <2>3 DEF ChatOfWorker, Steady
  <2> QED BY <2>2, <2>3, <2>4 DEF WorkerInv
<1>2. CASE worker[v].pc \notin Active
    BY <1>2 DEF WorkerInv, Active
<1> QED BY <1>1, <1>2

\* The step of a worker at its job j: what is left to show is what becomes of the row, of
\* the worker, and of the turns.
LEMMA StepAtJob ==
  ASSUME JobInv, Steady, UNCHANGED convs, NEW j \in Jobs, NEW w \in Workers,
         \A v \in Workers \ {w} : ~Owner(v, j) /\ worker'[v] = worker[v] /\ chat'[v] = chat[v],
         \A i \in Jobs \ {j} : jobs'[i] = jobs[i] /\ Replies(i)' = Replies(i),
         TurnsInv', StatusOK(j)', WorkerInv(w)'
  PROVE  WorkInv'
<1>1. \A i \in Jobs \ {j} : StatusOK(i)'
    BY DEF JobInv, WorkInv, StatusOK
<1>2. \A v \in Workers \ {w} : WorkerInv(v)'
    BY OthersKeep
<1> QED BY <1>1, <1>2 DEF WorkInv

\* Nothing that WorkInv speaks of changes, but for a worker that comes to rest.
LEMMA WorkerRestsAtJob ==
  ASSUME JobInv, UNCHANGED storeVars, NEW w \in Workers, worker'[w].pc \notin Active,
         \A v \in Workers \ {w} : worker'[v] = worker[v] /\ chat'[v] = chat[v]
  PROVE  WorkInv'
<1>1. TurnsInv' /\ SameReplies
    BY TurnsUnchanged DEF JobInv, WorkInv, storeVars
<1>2. \A j \in Jobs : StatusOK(j)'
    BY <1>1 DEF JobInv, WorkInv, StatusOK, storeVars, SameReplies
<1>3. ASSUME NEW v \in Workers \ {w}
      PROVE  WorkerInv(v)'
  <2>1. CASE worker[v].pc \in Active
    <3>1. WorkerInv(v) /\ worker[v].job \in Jobs
        BY <2>1 DEF JobInv, WorkInv, TypeOK, JobTypeOK, WorkersOK, Active
    <3>2. ChatOfWorker(v, worker[v].job) => ChatOfWorker(v, worker[v].job)'
        BY <1>1, <3>1 DEF ChatOfWorker, storeVars, SameReplies
    <3> QED BY <1>1, <3>1, <3>2 DEF WorkerInv, storeVars, SameReplies
  <2>2. CASE worker[v].pc \notin Active
      BY <2>2 DEF WorkerInv, Active
  <2> QED BY <2>1, <2>2
<1>4. WorkerInv(w)'
    BY DEF WorkerInv, Active
<1> QED BY <1>1, <1>2, <1>3, <1>4 DEF WorkInv

\* The fields that a step of a worker leaves alone.
LEMMA GotoKeeps ==
  ASSUME WorkersOK, NEW w \in Workers, NEW pc, GotoPc(w, pc)
  PROVE  /\ worker'[w].pc = pc
         /\ worker'[w].job = worker[w].job
         /\ worker'[w].reply = worker[w].reply
         /\ \A v \in Workers \ {w} : worker'[v] = worker[v]
<1> DEFINE r == [worker[w] EXCEPT !.pc = pc]
<1>1. r.pc = pc /\ r.job = worker[w].job /\ r.reply = worker[w].reply
    BY DEF WorkersOK, WorkerRecord
<1>2. worker'[w] = r /\ \A v \in Workers \ {w} : worker'[v] = worker[v]
    BY DEF GotoPc, WorkersOK
<1> QED BY <1>1, <1>2

LEMMA AttemptFailedKeeps ==
  ASSUME WorkersOK, NEW w \in Workers, NEW code, AttemptFailed(w, code)
  PROVE  /\ worker'[w].pc \in {"retry", "fail"}
         /\ worker'[w].job = worker[w].job
         /\ \A v \in Workers \ {w} : worker'[v] = worker[v]
<1>1. CASE GotoPc(w, "retry")
    BY <1>1, GotoKeeps
<1>2. CASE worker' = [worker EXCEPT ![w].pc = "fail", ![w].code = code]
  <2> DEFINE r == [worker[w] EXCEPT !.pc = "fail", !.code = code]
  <2>1. r.pc = "fail" /\ r.job = worker[w].job
      BY DEF WorkersOK, WorkerRecord
  <2>2. worker'[w] = r /\ \A v \in Workers \ {w} : worker'[v] = worker[v]
      BY <1>2 DEF WorkersOK
  <2> QED BY <2>1, <2>2
<1> QED BY <1>1, <1>2 DEF AttemptFailed

LEMMA HasReplyKeeps ==
  ASSUME WorkersOK, NEW w \in Workers, NEW m,
         worker' = [worker EXCEPT ![w].pc = "complete", ![w].reply = m]
  PROVE  /\ worker'[w].pc = "complete"
         /\ worker'[w].reply = m
         /\ worker'[w].job = worker[w].job
         /\ \A v \in Workers \ {w} : worker'[v] = worker[v]
<1> DEFINE r == [worker[w] EXCEPT !.pc = "complete", !.reply = m]
<1>1. r.pc = "complete" /\ r.reply = m /\ r.job = worker[w].job
    BY DEF WorkersOK, WorkerRecord
<1>2. worker'[w] = r /\ \A v \in Workers \ {w} : worker'[v] = worker[v]
    BY DEF WorkersOK
<1> QED BY <1>1, <1>2

\* A statement replaces the row of job j by q; the worker has nothing left to do with it,
\* or has just claimed it.
LEMMA RowStep ==
  ASSUME JobInv, UNCHANGED <<convs, messages, calls, chat>>, NEW j \in Jobs, NEW w \in Workers,
         \A v \in Workers \ {w} : ~Owner(v, j) /\ worker'[v] = worker[v],
         NEW q, jobs' = [jobs EXCEPT ![j] = q], q.request = jobs[j].request,
         q.status \in {"pending", "processing", "completed", "failed"}, ConvOf[j] \in convs,
         q.status = "completed" => q.assistant \in Replies(j),
         \/ worker'[w].pc \notin Active
         \/ worker'[w].pc = "ensure" /\ worker'[w].job = j /\ q.status = "processing"
  PROVE  WorkInv'
<1>1. jobs'[j] = q /\ \A i \in Jobs \ {j} : jobs'[i] = jobs[i]
    BY DEF JobInv, TypeOK, StoreTypeOK
<1>2. TurnsInv' /\ SameReplies
    BY <1>1, TurnsUnchanged DEF JobInv, WorkInv
<1>3. Steady
    BY DEF Steady
<1>4. StatusOK(j)'
    BY <1>1, <1>2 DEF StatusOK, SameReplies
<1>5. WorkerInv(w)'
    BY <1>1 DEF WorkerInv, Active
<1> QED BY <1>1, <1>2, <1>3, <1>4, <1>5, StepAtJob DEF SameReplies

LEMMA NobodyOwns ==
  ASSUME JobInv, NEW j \in Jobs, jobs[j].status \in {"absent", "pending"}
  PROVE  \A v \in Workers : ~Owner(v, j)
BY DEF JobInv, ClaimInv, OwnersHoldRows

LEMMA WorkUnchanged ==
  ASSUME JobInv, UNCHANGED <<storeVars, chat, worker>>
  PROVE  WorkInv'
<1>1. TurnsInv' /\ SameReplies
    BY TurnsUnchanged DEF JobInv, WorkInv, storeVars
<1>2. \A j \in Jobs : StatusOK(j)'
    BY <1>1 DEF JobInv, WorkInv, StatusOK, storeVars, SameReplies
<1>3. ASSUME NEW v \in Workers
      PROVE  WorkerInv(v)'
  <2>1. CASE worker[v].pc \in Active
    <3>1. WorkerInv(v) /\ worker[v].job \in Jobs
        BY <2>1 DEF JobInv, WorkInv, TypeOK, JobTypeOK, WorkersOK, Active
    <3>2. ChatOfWorker(v, worker[v].job) => ChatOfWorker(v, worker[v].job)'
        BY <1>1, <3>1 DEF ChatOfWorker, storeVars, SameReplies
    <3> QED BY <1>1, <3>1, <3>2 DEF WorkerInv, storeVars, SameReplies
  <2>2. CASE worker[v].pc \notin Active
      BY <2>2 DEF WorkerInv, Active
  <2> QED BY <2>1, <2>2
<1> QED BY <1>1, <1>2, <1>3 DEF WorkInv

LEMMA WorkInsertJob ==
  ASSUME JobInv, NEW j \in Jobs, InsertJob(j)
  PROVE  WorkInv'
<1>0. jobs \in [Jobs -> Job] /\ jobs[j] \in Job
    BY DEF JobInv, TypeOK, StoreTypeOK
<1>1. UNCHANGED <<convs, messages, calls, chat, worker>>
    BY DEF InsertJob, chatVars
<1>2. CASE UNCHANGED jobs
    BY <1>1, <1>2, WorkUnchanged DEF storeVars
<1>3. CASE ConvOf[j] \in convs /\ InsertPendingChatJob(j)
  <2>1. jobs[j].status = "absent"
      BY DEF InsertJob, JobInv, ClaimInv, AttemptsLeft
  <2> DEFINE q == [jobs[j] EXCEPT !.status = "pending"]
  <2>2. q.status = "pending" /\ q.request = jobs[j].request
      BY <1>0 DEF Job
  <2>3. jobs'[j] = q /\ \A i \in Jobs \ {j} : jobs'[i] = jobs[i]
      BY <1>0, <1>3 DEF InsertPendingChatJob
  <2>4. TurnsInv' /\ SameReplies
      BY <1>1, <2>2, <2>3, TurnsUnchanged DEF JobInv, WorkInv
  <2>5. Steady
      BY <1>1 DEF Steady
  <2>6. \A v \in Workers : WorkerInv(v)'
      BY <1>1, <2>1, <2>3, <2>4, <2>5, NobodyOwns, OthersKeep DEF SameReplies
  <2>7. \A i \in Jobs : StatusOK(i)'
      BY <1>1, <1>3, <2>2, <2>3, <2>4 DEF JobInv, WorkInv, StatusOK, SameReplies
  <2> QED BY <2>4, <2>6, <2>7 DEF WorkInv
<1> QED BY <1>2, <1>3 DEF InsertJob

LEMMA WorkRests ==
  ASSUME JobInv, NEW w \in Workers, Deliver(w) \/ Ack(w) \/ Nack(w) \/ Crash(w)
  PROVE  WorkInv'
<1>0. WorkersOK /\ chat \in [Workers -> ChatRecord]
    BY DEF JobInv, TypeOK, JobTypeOK, ChatTypeOK, ChatsOK
<1>1. UNCHANGED storeVars /\ \A v \in Workers \ {w} : chat'[v] = chat[v]
    BY <1>0 DEF Deliver, Ack, Nack, Crash, chatVars
<1>2. CASE Deliver(w)
  <2>1. PICK j \in queue : worker' = [worker EXCEPT ![w].pc = "claim", ![w].job = j]
      BY <1>2 DEF Deliver
  <2> DEFINE r == [worker[w] EXCEPT !.pc = "claim", !.job = j]
  <2>2. r.pc = "claim"
      BY <1>0 DEF WorkersOK, WorkerRecord
  <2>3. worker'[w] = r /\ \A v \in Workers \ {w} : worker'[v] = worker[v]
      BY <1>0, <2>1 DEF WorkersOK
  <2> QED BY <1>1, <2>2, <2>3, WorkerRestsAtJob DEF Active
<1>3. CASE worker' = [worker EXCEPT ![w] = Idle]
  <2>1. worker'[w].pc = "idle" /\ \A v \in Workers \ {w} : worker'[v] = worker[v]
      BY <1>0, <1>3 DEF WorkersOK, Idle
  <2> QED BY <1>1, <2>1, WorkerRestsAtJob DEF Active
<1> QED BY <1>2, <1>3 DEF Ack, Nack, Crash

LEMMA WorkClaim ==
  ASSUME JobInv, NEW w \in Workers, Claim(w)
  PROVE  WorkInv'
<1> DEFINE j == worker[w].job
<1>0. WorkersOK /\ j \in Jobs /\ jobs \in [Jobs -> Job] /\ jobs[j] \in Job
    BY DEF Claim, At, JobInv, TypeOK, StoreTypeOK, JobTypeOK, WorkersOK
<1>1. UNCHANGED <<convs, messages, calls, chat>>
    BY DEF Claim
<1>2. CASE UNCHANGED jobs /\ \E pc \in {"ack", "nack"} : GotoPc(w, pc)
  <2>1. worker'[w].pc \notin Active /\ \A v \in Workers \ {w} : worker'[v] = worker[v]
      BY <1>0, <1>2, GotoKeeps DEF Active
  <2> QED BY <1>1, <1>2, <2>1, WorkerRestsAtJob DEF storeVars
<1>3. CASE /\ Claimable(j)
           /\ ClaimPendingChatJob(j)
           /\ \/ GotoPc(w, "nack")
              \/ worker' = [worker EXCEPT ![w].pc = "ensure", ![w].attempt = jobs[j].attempts + 1]
  <2> DEFINE q == [jobs[j] EXCEPT !.status = "processing", !.attempts = jobs[j].attempts + 1]
             r == [worker[w] EXCEPT !.pc = "ensure", !.attempt = jobs[j].attempts + 1]
  <2>1. jobs' = [jobs EXCEPT ![j] = q]
      BY <1>0, <1>3 DEF ClaimPendingChatJob
  <2>2. q.status = "processing" /\ q.request = jobs[j].request
      BY <1>0 DEF Job
  <2>3. ConvOf[j] \in convs
      BY <1>0, <1>3 DEF Claimable, JobInv, WorkInv, StatusOK
  <2>4. \A v \in Workers : ~Owner(v, j)
      BY <1>0, <1>3, NobodyOwns DEF Claimable
  <2>5. /\ \/ worker'[w].pc = "nack"
           \/ worker'[w].pc = "ensure" /\ worker'[w].job = j
        /\ \A v \in Workers \ {w} : worker'[v] = worker[v]
    <3>1. CASE GotoPc(w, "nack")
        BY <1>0, <3>1, GotoKeeps
    <3>2. CASE worker' = [worker EXCEPT ![w].pc = "ensure", ![w].attempt = jobs[j].attempts + 1]
      <4>1. r.pc = "ensure" /\ r.job = j
          BY <1>0 DEF WorkersOK, WorkerRecord
      <4>2. worker'[w] = r /\ \A v \in Workers \ {w} : worker'[v] = worker[v]
          BY <1>0, <3>2 DEF WorkersOK
      <4> QED BY <4>1, <4>2
    <3> QED BY <1>3, <3>1, <3>2
  <2> HIDE DEF q, r, j
  <2> QED BY <1>0, <1>1, <2>1, <2>2, <2>3, <2>4, <2>5, RowStep DEF Active
<1> QED BY <1>2, <1>3 DEF Claim

LEMMA WorkEnsure ==
  ASSUME JobInv, NEW w \in Workers, Ensure(w)
  PROVE  WorkInv'
<1>a. PICK j \in Jobs : j = worker[w].job
    BY OwnJob DEF Ensure, At, Owning
<1>0. /\ WorkersOK /\ StoreTypeOK /\ jobs \in [Jobs -> Job]
      /\ worker[w].pc = "ensure" /\ j \in Jobs /\ jobs[j] \in Job
      /\ \A v \in Workers \ {w} : ~Owner(v, j)
    BY <1>a, OwnJob DEF Ensure, At, Owning, JobInv, TypeOK, StoreTypeOK, JobTypeOK
<1>1. UNCHANGED <<convs, calls, chat>>
    BY DEF Ensure
<1>2. ASSUME UNCHANGED <<messages, jobs>>, \E code : AttemptFailed(w, code)
      PROVE  WorkInv'
  <2>1. worker'[w].pc \notin Active /\ \A v \in Workers \ {w} : worker'[v] = worker[v]
      BY <1>0, <1>a, <1>2, AttemptFailedKeeps DEF Active
  <2> QED BY <1>1, <1>2, <2>1, WorkerRestsAtJob DEF storeVars
<1>3. ASSUME Processing(j), EnsureChatJobRequestMessage(j),
             GotoPc(w, "find") \/ \E code : AttemptFailed(w, code)
      PROVE  WorkInv'
  <2> DEFINE q == [jobs[j] EXCEPT !.request = RequestMessageOf(j)]
  <2>1. /\ q.status = jobs[j].status
        /\ q.assistant = jobs[j].assistant
        /\ q.request = RequestMessageOf(j)
      BY <1>0, <1>a DEF Job
  <2>2. jobs'[j] = q /\ \A i \in Jobs \ {j} : jobs'[i] = jobs[i]
      BY <1>0, <1>a, <1>3 DEF EnsureChatJobRequestMessage
  <2> HIDE DEF q
  <2>3. TurnsInv' /\ SameReplies
    <3>1. CASE jobs[j].request # None
        BY <1>1, <1>3, <2>1, <2>2, <3>1, TurnsUnchanged
           DEF JobInv, WorkInv, EnsureChatJobRequestMessage, RequestMessageOf
    <3>2. CASE jobs[j].request = None
        BY <1>0, <1>a, <1>1, <1>3, <2>1, <2>2, <3>2, TurnsAfterQuestion
           DEF JobInv, WorkInv, EnsureChatJobRequestMessage, RequestMessageOf
    <3> QED BY <3>1, <3>2
  <2>4. Steady
      BY <1>1 DEF Steady
  <2>5. q.request # None
      BY <1>0, <1>a, <2>1, MessageRows DEF RequestMessageOf, None
  <2>6. /\ worker'[w].pc \in {"find", "retry", "fail"}
        /\ worker'[w].job = j
        /\ \A v \in Workers \ {w} : worker'[v] = worker[v]
      BY <1>0, <1>a, <1>3, GotoKeeps, AttemptFailedKeeps
  <2>7. StatusOK(j)'
      BY <1>0, <1>a, <1>1, <2>1, <2>2, <2>3 DEF JobInv, WorkInv, StatusOK, SameReplies
  <2>8. WorkerInv(w)'
      BY <1>3, <2>1, <2>2, <2>5, <2>6 DEF WorkerInv, Active, Processing
  <2> QED BY <1>0, <1>a, <1>1, <2>2, <2>3, <2>4, <2>6, <2>7, <2>8, StepAtJob DEF SameReplies
<1> QED BY <1>a, <1>2, <1>3 DEF Ensure

LEMMA WorkFindReply ==
  ASSUME JobInv, NEW w \in Workers, FindReply(w)
  PROVE  WorkInv'
<1>a. PICK j \in Jobs : j = worker[w].job
    BY OwnJob DEF FindReply, At, Owning
<1> DEFINE done == IF Processing(j) THEN CompletedCalls(j) ELSE {}
<1>0. /\ WorkersOK /\ chat \in [Workers -> ChatRecord]
      /\ worker[w].pc = "find" /\ j \in Jobs
      /\ \A v \in Workers \ {w} : ~Owner(v, j)
      /\ UNCHANGED storeVars
    BY <1>a, OwnJob DEF FindReply, At, Owning, JobInv, TypeOK, JobTypeOK, ChatTypeOK, ChatsOK
<1>1. /\ jobs[j].status \in {"processing", "deleted"}
      /\ jobs[j].request # None
      /\ StatusOK(j)
    BY <1>0, <1>a DEF JobInv, WorkInv, WorkerInv, Active
<1>2. TurnsInv' /\ SameReplies /\ Steady /\ UNCHANGED <<convs, jobs>>
    BY <1>0, <1>a, TurnsUnchanged DEF JobInv, WorkInv, storeVars, Steady
<1>3. StatusOK(j)'
    BY <1>0, <1>a, <1>1, <1>2 DEF StatusOK, SameReplies
<1>4. ASSUME NEW k \in Latest(done), UNCHANGED chat,
             worker' = [worker EXCEPT ![w].pc = "complete", ![w].reply = calls[k].assistant]
      PROVE  WorkInv'
  <2>1. calls[k].assistant \in Replies(j)
      BY <1>4 DEF Latest, Replies
  <2>2. /\ worker'[w].pc = "complete"
        /\ worker'[w].reply = calls[k].assistant
        /\ worker'[w].job = j
        /\ \A v \in Workers \ {w} : worker'[v] = worker[v]
      BY <1>0, <1>a, <1>4, HasReplyKeeps
  <2>3. WorkerInv(w)'
      BY <1>0, <1>a, <1>1, <1>2, <2>1, <2>2 DEF WorkerInv, SameReplies
  <2> QED BY <1>0, <1>a, <1>2, <1>3, <1>4, <2>2, <2>3, StepAtJob DEF SameReplies
<1>5. ASSUME done = {}, GotoPc(w, "chat"), BeginChat(w, jobs[j].request)
      PROVE  WorkInv'
  <2>1. /\ worker'[w].pc = "chat"
        /\ worker'[w].job = j
        /\ \A v \in Workers \ {w} : worker'[v] = worker[v]
      BY <1>0, <1>a, <1>5, GotoKeeps
  <2>2. /\ chat'[w].stage = "start"
        /\ chat'[w].request = jobs[j].request
        /\ chat'[w].reply = None
        /\ \A v \in Workers \ {w} : chat'[v] = chat[v]
      BY <1>0, <1>a, <1>5 DEF BeginChat, NoChat
  <2>3. ConvOf[j] \in convs => Replies(j) = {}
      BY <1>0, <1>a, <1>1, <1>5 DEF StatusOK, Processing, Replies
  <2>4. ChatOfWorker(w, j)'
      BY <1>0, <1>a, <1>2, <2>2, <2>3 DEF ChatOfWorker, SameReplies
  <2>5. WorkerInv(w)'
      BY <1>0, <1>a, <1>1, <1>2, <2>1, <2>4 DEF WorkerInv
  <2> QED BY <1>0, <1>a, <1>2, <1>3, <2>1, <2>2, <2>5, StepAtJob DEF SameReplies
<1>6. ASSUME UNCHANGED chat, AttemptFailed(w, "over_max_retry_time")
      PROVE  WorkInv'
    BY <1>0, <1>a, <1>6, AttemptFailedKeeps, WorkerRestsAtJob DEF Active
<1> QED BY <1>a, <1>4, <1>5, <1>6 DEF FindReply

LEMMA WorkChatReturns ==
  ASSUME JobInv, NEW w \in Workers, ChatReturns(w)
  PROVE  WorkInv'
<1>a. PICK j \in Jobs : j = worker[w].job
    BY OwnJob DEF ChatReturns, At, Owning
<1>0. /\ WorkersOK
      /\ worker[w].pc = "chat" /\ j \in Jobs
      /\ \A v \in Workers \ {w} : ~Owner(v, j)
      /\ UNCHANGED storeVars
    BY <1>a, OwnJob DEF ChatReturns, At, Owning, JobInv, TypeOK, JobTypeOK
<1>1. \A v \in Workers \ {w} : chat'[v] = chat[v]
    BY DEF ChatReturns, JobInv, TypeOK, ChatTypeOK, ChatsOK
<1>2. TurnsInv' /\ SameReplies /\ Steady /\ UNCHANGED <<convs, jobs>>
    BY <1>0, <1>a, TurnsUnchanged DEF JobInv, WorkInv, storeVars, Steady
<1>3. CASE chat[w].reply # None
  <2>1. worker' = [worker EXCEPT ![w].pc = "complete", ![w].reply = chat[w].reply]
      BY <1>3 DEF ChatReturns
  <2>2. /\ worker'[w].pc = "complete"
        /\ worker'[w].reply = chat[w].reply
        /\ worker'[w].job = j
        /\ \A v \in Workers \ {w} : worker'[v] = worker[v]
      BY <1>0, <1>a, <2>1, HasReplyKeeps
  <2>3. /\ jobs[j].status \in {"processing", "deleted"}
        /\ jobs[j].request # None
        /\ chat[w].reply \in Replies(j)
        /\ StatusOK(j)
      BY <1>0, <1>a, <1>3 DEF JobInv, WorkInv, WorkerInv, ChatOfWorker, Active
  <2>4. WorkerInv(w)' /\ StatusOK(j)'
      BY <1>0, <1>a, <1>2, <2>2, <2>3 DEF WorkerInv, StatusOK, SameReplies
  <2> QED BY <1>0, <1>a, <1>1, <1>2, <2>2, <2>4, StepAtJob DEF SameReplies
<1>4. CASE chat[w].reply = None
  <2>1. \E code : AttemptFailed(w, code)
      BY <1>4 DEF ChatReturns
  <2> QED BY <1>0, <1>a, <1>1, <2>1, AttemptFailedKeeps, WorkerRestsAtJob DEF Active
<1> QED BY <1>a, <1>3, <1>4

LEMMA WorkDecides ==
  ASSUME JobInv, NEW w \in Workers, Complete(w) \/ Retry(w) \/ Fail(w)
  PROVE  WorkInv'
<1>a. PICK j \in Jobs : j = worker[w].job
    BY OwnJob DEF Complete, Retry, Fail, At, Owning
<1> DEFINE m == worker[w].reply
<1>0. /\ WorkersOK /\ jobs \in [Jobs -> Job] /\ j \in Jobs /\ jobs[j] \in Job
      /\ \A v \in Workers \ {w} : ~Owner(v, j)
    BY <1>a, OwnJob DEF Complete, Retry, Fail, At, Owning, JobInv, TypeOK, JobTypeOK, StoreTypeOK
<1>1. UNCHANGED <<convs, messages, calls, chat>>
    BY DEF Complete, Retry, Fail, chatVars
<1>2. /\ worker'[w].pc \notin Active
      /\ \A v \in Workers \ {w} : worker'[v] = worker[v]
    BY <1>0, <1>a, GotoKeeps, AttemptFailedKeeps DEF Complete, Retry, Fail, Active
<1>3. CASE UNCHANGED jobs
    BY <1>1, <1>2, <1>3, WorkerRestsAtJob DEF storeVars
<1>4. ASSUME Processing(j), NEW q, jobs' = [jobs EXCEPT ![j] = q], q.request = jobs[j].request,
             q.status \in {"pending", "completed", "failed"},
             q.status = "completed" => q.assistant \in Replies(j)
      PROVE  WorkInv'
  <2>1. ConvOf[j] \in convs
      BY <1>0, <1>a, <1>4 DEF Processing, JobInv, WorkInv, StatusOK
  <2> QED BY <1>0, <1>a, <1>1, <1>2, <1>4, <2>1, RowStep
<1>5. CASE At(w, "complete") /\ Processing(j) /\ CompleteChatJob(j, m)
  <2> DEFINE q == [jobs[j] EXCEPT !.status = "completed", !.assistant = m]
  <2>1. q.status = "completed" /\ q.assistant = m /\ q.request = jobs[j].request
      BY <1>0, <1>a DEF Job
  <2>2. jobs' = [jobs EXCEPT ![j] = q]
      BY <1>0, <1>a, <1>5 DEF CompleteChatJob
  <2>3. m \in Replies(j)
      BY <1>0, <1>a, <1>5 DEF At, JobInv, WorkInv, WorkerInv
  <2> QED BY <1>4, <1>5, <2>1, <2>2, <2>3
<1>6. CASE Processing(j) /\ RetryChatJob(j)
  <2> DEFINE q == [jobs[j] EXCEPT !.status = "pending"]
  <2>1. q.status = "pending" /\ q.request = jobs[j].request
      BY <1>0, <1>a DEF Job
  <2>2. jobs' = [jobs EXCEPT ![j] = q]
      BY <1>0, <1>a, <1>6 DEF RetryChatJob
  <2> QED BY <1>4, <1>6, <2>1, <2>2
<1>7. CASE Processing(j) /\ FailChatJob(j, worker[w].code)
  <2> DEFINE q == [jobs[j] EXCEPT !.status = "failed", !.error = worker[w].code]
  <2>1. q.status = "failed" /\ q.request = jobs[j].request
      BY <1>0, <1>a DEF Job
  <2>2. jobs' = [jobs EXCEPT ![j] = q]
      BY <1>0, <1>a, <1>7 DEF FailChatJob
  <2> QED BY <1>4, <1>7, <2>1, <2>2
<1> QED BY <1>a, <1>3, <1>5, <1>6, <1>7 DEF Complete, Retry, Fail, Completable

\* The transaction that saves a reply finds its job processing and unanswered.
LEMMA ReplyAtJob ==
  ASSUME JobInv, NEW w \in Workers, At(w, "chat"), chat[w].stage = "save",
         LiveCall(chat[w].call), InsertReplyAndCompleteModelCall(chat[w].call), UNCHANGED jobs,
         NEW j \in Jobs, j = worker[w].job
  PROVE  /\ jobs[j].status = "processing"
         /\ Replies(j) = {}
         /\ TurnsInv'
         /\ Replies(j)' = {Len(messages) + 1}
         /\ \A i \in Jobs \ {j} : Replies(i)' = Replies(i)
<1>1. /\ jobs[j].status \in {"processing", "deleted"}
      /\ jobs[j].request # None
      /\ ChatOfWorker(w, j) /\ StatusOK(j) /\ TurnsInv /\ StoreTypeOK
    BY DEF At, JobInv, WorkInv, WorkerInv, Active, TypeOK
<1>2. calls[chat[w].call].request = jobs[j].request
    BY <1>1 DEF ChatOfWorker
<1>3. ConvOf[j] \in convs
  <2>1. messages[jobs[j].request].conv \in convs
      BY <1>2 DEF LiveCall, Visible
  <2>2. messages[jobs[j].request] = QuestionOf(j)
      BY <1>1 DEF TurnsInv, QuestionInv
  <2> QED BY <2>1, <2>2 DEF QuestionOf
<1>4. jobs[j].status = "processing" /\ Replies(j) = {}
    BY <1>1, <1>3 DEF ChatOfWorker, StatusOK
<1> QED BY <1>1, <1>2, <1>4, TurnsAfterReply

LEMMA WorkRunChat ==
  ASSUME JobInv, NEW w \in Workers, RunChat(w)
  PROVE  WorkInv'
<1>a. PICK j \in Jobs : j = worker[w].job
    BY OwnJob DEF RunChat, At, Owning
<1>0. /\ StoreTypeOK /\ ChatsOK /\ w \in Procs /\ Procs = Workers
      /\ worker[w].pc = "chat"
      /\ \A v \in Workers \ {w} : ~Owner(v, j)
      /\ UNCHANGED worker
    BY <1>a, OwnJob DEF RunChat, At, Owning, jobVars, JobInv, TypeOK, ChatTypeOK
<1>1. /\ jobs[j].status \in {"processing", "deleted"}
      /\ jobs[j].request # None /\ jobs[j].request \in Nat
      /\ ChatOfWorker(w, j) /\ StatusOK(j) /\ TurnsInv
    BY <1>a, <1>0 DEF JobInv, WorkInv, WorkerInv, Active, StoreTypeOK, Job
<1>2. UNCHANGED <<convs, jobs>>
    BY DEF RunChat, ChatStep, StartModelCall, LoadHistory, Generate, SaveReply, FinishCall,
           storeVars
<1>3. chat[w].cause \in Causes \/ chat[w].stage # "finish"
    BY <1>0 DEF ChatsOK
\* It is enough to show what the step does to the worker's own chat and to the answers.
<1>4. ASSUME Steady, TurnsInv', \A i \in Jobs \ {j} : Replies(i)' = Replies(i),
             ChatOfWorker(w, j)', Replies(j) \subseteq Replies(j)',
             \A v \in Workers \ {w} : chat'[v] = chat[v]
      PROVE  WorkInv'
  <2>1. StatusOK(j)'
      BY <1>1, <1>2, <1>4 DEF StatusOK
  <2>2. WorkerInv(w)'
      BY <1>a, <1>0, <1>1, <1>2, <1>4 DEF WorkerInv
  <2> QED BY <1>0, <1>2, <1>4, <2>1, <2>2, StepAtJob
<1>5. ASSUME UNCHANGED <<messages, calls>>, NEW stage \in {"generate", "save", "finish", "done"},
             chat[w].stage \in {"history", "generate"} \/ stage \in {"finish", "done"},
             chat[w].stage # "start" \/ stage = "done",
             chat[w].stage # "done",
             \/ Goto(w, stage)
             \/ stage = "done" /\ \E cause : Abandon(w, cause)
             \/ stage = "finish" /\ \E cause : FailWith(w, cause)
      PROVE  WorkInv'
  <2>1. /\ chat'[w].stage = stage
        /\ chat'[w].request = chat[w].request
        /\ chat'[w].call = chat[w].call
        /\ chat'[w].reply = chat[w].reply
        /\ \A v \in Workers \ {w} : chat'[v] = chat[v]
      BY <1>0, <1>5, ChatMoves
  <2>2. TurnsInv' /\ SameReplies /\ Steady
      BY <1>1, <1>2, <1>5, TurnsUnchanged DEF Steady
  <2>3. chat[w].stage # "off"
      BY <1>5 DEF RunChat, ChatStep, StartModelCall, LoadHistory, Generate, SaveReply, FinishCall
  <2>4. ChatOfWorker(w, j)'
      BY <1>0, <1>1, <1>2, <1>5, <2>1, <2>2, <2>3 DEF ChatOfWorker, SameReplies, ChatsOK, ChatRecord, ChatStage
  <2> QED BY <1>4, <2>1, <2>2, <2>4 DEF SameReplies
<1>6. CASE StartModelCall(w)
  <2>1. ASSUME Visible(chat[w].request), InsertRunningModelCall(chat[w].request), NEW stage,
               \/ stage = "history" /\ chat' = [chat EXCEPT ![w].stage = "history",
                                                           ![w].call = Len(calls) + 1]
               \/ stage = "done" /\ \E cause : Abandon(w, cause)
        PROVE  WorkInv'
    <3>1. chat[w].stage = "start" /\ UNCHANGED messages
        BY <1>6 DEF StartModelCall
    <3>2. InsertRunningModelCall(jobs[j].request)
        BY <1>1, <2>1 DEF ChatOfWorker
    <3>3. TurnsInv' /\ SameReplies
        BY <1>0, <1>1, <1>2, <3>1, <3>2, TurnsAfterCall
    <3>4. Steady
        BY <1>0, <1>1, <1>2, <3>2, CallsSteady DEF Steady
    <3>5. /\ Len(calls) + 1 \in DOMAIN calls'
          /\ calls'[Len(calls) + 1].request = jobs[j].request
      <4>1. /\ DOMAIN calls' = DOMAIN calls \cup {Len(calls) + 1}
            /\ calls'[Len(calls) + 1] = [request |-> jobs[j].request, status |-> "running",
                                         assistant |-> None]
          BY <1>0, <1>1, <3>2, CallAppended
      <4> QED BY <4>1
    <3>6. /\ chat'[w].stage = stage
          /\ chat'[w].request = chat[w].request
          /\ chat'[w].reply = chat[w].reply
          /\ stage = "history" => chat'[w].call = Len(calls) + 1
          /\ \A v \in Workers \ {w} : chat'[v] = chat[v]
      <4>1. CASE stage = "history" /\ chat' = [chat EXCEPT ![w].stage = "history",
                                                        ![w].call = Len(calls) + 1]
        <5>1. chat' = [chat EXCEPT ![w].stage = "history", ![w].call = Len(calls) + 1]
            BY <4>1
        <5>2. /\ chat'[w].stage = "history"
              /\ chat'[w].request = chat[w].request
              /\ chat'[w].call = Len(calls) + 1
              /\ chat'[w].reply = chat[w].reply
              /\ \A q \in Procs \ {w} : chat'[q] = chat[q]
            BY <1>0, <5>1, ChatHasCall
        <5> QED BY <1>0, <4>1, <5>2
      <4>2. CASE stage = "done" /\ \E cause : Abandon(w, cause)
          BY <1>0, <4>2, ChatMoves
      <4> QED BY <2>1, <4>1, <4>2
    <3>7. ChatOfWorker(w, j)'
        BY <1>0, <1>1, <1>2, <2>1, <3>1, <3>3, <3>5, <3>6 DEF ChatOfWorker, SameReplies
    <3> QED BY <1>4, <3>3, <3>4, <3>6, <3>7 DEF SameReplies
  <2>2. CASE UNCHANGED calls /\ \E cause : Abandon(w, cause)
      BY <1>5, <1>6, <2>2 DEF StartModelCall
  <2> QED BY <1>6, <2>1, <2>2 DEF StartModelCall
<1>7. CASE LoadHistory(w)
    BY <1>5, <1>7 DEF LoadHistory, storeVars
<1>8. CASE Generate(w)
    BY <1>5, <1>8 DEF Generate, storeVars
<1>9. CASE SaveReply(w)
  <2>1. ASSUME LiveCall(chat[w].call), InsertReplyAndCompleteModelCall(chat[w].call), NEW stage,
               \/ stage = "done" /\ chat' = [chat EXCEPT ![w].stage = "done",
                                                        ![w].reply = Len(messages) + 1]
               \/ stage = "finish" /\ \E cause : FailWith(w, cause)
        PROVE  WorkInv'
    <3>1. chat[w].stage = "save" /\ calls[chat[w].call].request = jobs[j].request
        BY <1>1, <1>9 DEF SaveReply, ChatOfWorker
    <3>2. /\ TurnsInv'
          /\ Replies(j) = {}
          /\ Replies(j)' = {Len(messages) + 1}
          /\ \A i \in Jobs \ {j} : Replies(i)' = Replies(i)
        BY <1>a, <1>0, <1>2, <2>1, <3>1, ReplyAtJob DEF At
    <3>3. Steady
        BY <1>0, <1>2, <2>1, CallsSteady DEF Steady
    <3>4. /\ chat'[w].stage = stage
          /\ chat'[w].request = chat[w].request
          /\ chat'[w].call = chat[w].call
          /\ chat'[w].reply = IF stage = "done" THEN Len(messages) + 1 ELSE chat[w].reply
          /\ \A v \in Workers \ {w} : chat'[v] = chat[v]
      <4>1. CASE stage = "done" /\ chat' = [chat EXCEPT ![w].stage = "done",
                                                     ![w].reply = Len(messages) + 1]
        <5>1. chat' = [chat EXCEPT ![w].stage = "done", ![w].reply = Len(messages) + 1]
            BY <4>1
        <5>2. /\ chat'[w].stage = "done"
              /\ chat'[w].request = chat[w].request
              /\ chat'[w].call = chat[w].call
              /\ chat'[w].reply = Len(messages) + 1
              /\ \A q \in Procs \ {w} : chat'[q] = chat[q]
            BY <1>0, <5>1, ChatHasReply
        <5> QED BY <1>0, <4>1, <5>2
      <4>2. CASE stage = "finish" /\ \E cause : FailWith(w, cause)
          BY <1>0, <4>2, ChatMoves
      <4> QED BY <2>1, <4>1, <4>2
    <3>5. ChatOfWorker(w, j)'
      <4>1. chat'[w].call \in DOMAIN calls' /\ calls'[chat'[w].call].request = jobs'[j].request
          BY <1>1, <1>2, <2>1, <3>1, <3>3, <3>4 DEF LiveCall, Steady
      <4>2. chat'[w].reply # None => chat'[w].reply \in Replies(j)'
          BY <1>1, <2>1, <3>1, <3>2, <3>4 DEF ChatOfWorker
      <4>3. chat'[w].stage # "done" => chat'[w].reply = None
          BY <1>1, <2>1, <3>1, <3>4 DEF ChatOfWorker
      <4>4. chat'[w].stage \in {"finish", "done"} /\ chat'[w].request = jobs'[j].request
          BY <1>1, <1>2, <2>1, <3>4 DEF ChatOfWorker
      <4> QED BY <4>1, <4>2, <4>3, <4>4 DEF ChatOfWorker
    <3> QED BY <1>4, <3>2, <3>3, <3>4, <3>5
  <2>2. CASE UNCHANGED <<messages, calls>> /\ \E cause : FailWith(w, cause)
      BY <1>5, <1>9, <2>2 DEF SaveReply
  <2> QED BY <1>9, <2>1, <2>2 DEF SaveReply
<1>10. CASE FinishCall(w)
  <2>1. CASE LiveCall(chat[w].call) /\ FinishModelCall(chat[w].call, chat[w].cause) /\ Goto(w, "done")
    <3>1. UNCHANGED messages /\ chat[w].stage = "finish" /\ chat[w].cause \in Causes
        BY <1>3, <1>10 DEF FinishCall
    <3>2. TurnsInv' /\ SameReplies
        BY <1>0, <1>1, <1>2, <2>1, <3>1, TurnsAfterFinish
    <3>3. Steady
        BY <1>0, <1>2, <2>1, <3>1, CallsSteady DEF Steady
    <3>4. /\ chat'[w].stage = "done"
          /\ chat'[w].request = chat[w].request
          /\ chat'[w].reply = chat[w].reply
          /\ \A v \in Workers \ {w} : chat'[v] = chat[v]
        BY <1>0, <2>1, ChatMoves
    <3>5. ChatOfWorker(w, j)'
        BY <1>1, <1>2, <3>1, <3>2, <3>4 DEF ChatOfWorker, SameReplies
    <3> QED BY <1>4, <3>2, <3>3, <3>4, <3>5 DEF SameReplies
  <2>2. CASE UNCHANGED <<messages, calls>> /\ (Goto(w, "done") \/ \E cause : Abandon(w, cause))
      BY <1>5, <1>10, <2>2 DEF FinishCall
  <2> QED BY <1>10, <2>1, <2>2 DEF FinishCall
<1> QED BY <1>6, <1>7, <1>8, <1>9, <1>10 DEF RunChat, ChatStep

LEMMA WorkDeleteConversation ==
  ASSUME JobInv, NEW c \in Convs, DeleteConversation(c)
  PROVE  WorkInv'
<1>0. /\ UNCHANGED <<messages, calls, chat, worker>>
      /\ convs' = convs \ {c}
      /\ jobs \in [Jobs -> Job] /\ TurnsInv
    BY DEF DeleteConversation, DeleteConversationRow, chatVars, jobVars, JobInv, WorkInv, TypeOK,
           StoreTypeOK
<1>1. \A j \in Jobs :
        /\ jobs'[j].request = jobs[j].request
        /\ jobs'[j].assistant = jobs[j].assistant
        /\ jobs'[j].status = IF ConvOf[j] = c /\ jobs[j].status # "absent"
                             THEN "deleted" ELSE jobs[j].status
  <2> SUFFICES ASSUME NEW j \in Jobs
               PROVE  /\ jobs'[j].request = jobs[j].request
                      /\ jobs'[j].assistant = jobs[j].assistant
                      /\ jobs'[j].status = IF ConvOf[j] = c /\ jobs[j].status # "absent"
                                           THEN "deleted" ELSE jobs[j].status
      OBVIOUS
  <2>1. jobs'[j] = IF ConvOf[j] = c /\ jobs[j].status # "absent"
                   THEN [jobs[j] EXCEPT !.status = "deleted"] ELSE jobs[j]
      BY DEF DeleteConversation, DeleteConversationRow
  <2>2. jobs[j] \in Job
      BY <1>0
  <2> QED BY <2>1, <2>2 DEF Job
<1>2. TurnsInv' /\ SameReplies
    BY <1>0, <1>1, TurnsUnchanged
<1>3. \A j \in Jobs : StatusOK(j)'
    BY <1>0, <1>1, <1>2 DEF StatusOK, SameReplies, JobInv, WorkInv
<1>4. ASSUME NEW v \in Workers
      PROVE  WorkerInv(v)'
  <2>1. CASE worker[v].pc \in Active
    <3>1. WorkerInv(v) /\ worker[v].job \in Jobs
        BY <2>1 DEF JobInv, WorkInv, TypeOK, JobTypeOK, WorkersOK, Active
    <3>2. ChatOfWorker(v, worker[v].job) => ChatOfWorker(v, worker[v].job)'
        BY <1>0, <1>1, <1>2, <3>1 DEF ChatOfWorker, SameReplies
    <3> QED BY <1>0, <1>1, <1>2, <3>1, <3>2 DEF WorkerInv, SameReplies
  <2>2. CASE worker[v].pc \notin Active
      BY <1>0, <2>2 DEF WorkerInv, Active
  <2> QED BY <2>1, <2>2
<1> QED BY <1>2, <1>3, <1>4 DEF WorkInv

LEMMA WorkPostMessage ==
  ASSUME JobInv, NEW c \in Convs, PostMessage(c)
  PROVE  WorkInv'
<1>0. UNCHANGED <<convs, calls, jobs, chat, worker>>
    BY DEF PostMessage, chatVars, jobVars
<1>1. TurnsInv' /\ SameReplies
    BY <1>0, TurnsAfterPost DEF PostMessage, JobInv, WorkInv, TypeOK
<1>2. \A j \in Jobs : StatusOK(j)'
    BY <1>0, <1>1 DEF JobInv, WorkInv, StatusOK, SameReplies
<1>3. ASSUME NEW v \in Workers
      PROVE  WorkerInv(v)'
  <2>1. CASE worker[v].pc \in Active
    <3>1. WorkerInv(v) /\ worker[v].job \in Jobs
        BY <2>1 DEF JobInv, WorkInv, TypeOK, JobTypeOK, WorkersOK, Active
    <3>2. ChatOfWorker(v, worker[v].job) => ChatOfWorker(v, worker[v].job)'
        BY <1>0, <1>1, <3>1 DEF ChatOfWorker, SameReplies
    <3> QED BY <1>0, <1>1, <3>1, <3>2 DEF WorkerInv, SameReplies
  <2>2. CASE worker[v].pc \notin Active
      BY <1>0, <2>2 DEF WorkerInv, Active
  <2> QED BY <2>1, <2>2
<1> QED BY <1>1, <1>2, <1>3 DEF WorkInv

LEMMA WorkInit == Init => WorkInv
<1> SUFFICES ASSUME Init
             PROVE  WorkInv
    OBVIOUS
<1>1. /\ messages = <<>> /\ calls = <<>> /\ convs = Convs
      /\ \A j \in Jobs : jobs[j].status = "absent" /\ jobs[j].request = None
      /\ \A w \in Workers : worker[w].pc = "idle"
    BY DEF Init, StoreInit, Idle
<1>2. \A j \in Jobs : Replies(j) = {} /\ AnswersTo(j) = {}
    BY <1>1 DEF Replies, CompletedCalls, AnswersTo
<1>3. QuestionInv /\ CallInv /\ AnswerInv
  <2>1. DOMAIN messages = {} /\ DOMAIN calls = {}
      BY <1>1
  <2> QED BY <1>1, <1>2, <2>1 DEF QuestionInv, CallInv, AnswerInv
<1>4. \A j \in Jobs : StatusOK(j)
    BY <1>1 DEF StatusOK
<1>5. \A w \in Workers : WorkerInv(w)
    BY <1>1 DEF WorkerInv, Active
<1> QED BY <1>3, <1>4, <1>5 DEF WorkInv, TurnsInv

LEMMA WorkStep == JobInv /\ [Next]_vars => WorkInv'
<1> SUFFICES ASSUME JobInv, [Next]_vars
             PROVE  WorkInv'
    OBVIOUS
<1>1. ASSUME UNCHANGED <<storeVars, chat, worker>>
      PROVE  WorkInv'
    BY <1>1, WorkUnchanged
<1>2. \A j \in Jobs : Publish(j) => UNCHANGED <<storeVars, chat, worker>>
    BY DEF Publish, chatVars
<1>3. \A w \in Workers : LoseChannel(w) => UNCHANGED <<storeVars, chat, worker>>
    BY DEF LoseChannel, chatVars
<1>4. UNCHANGED vars => UNCHANGED <<storeVars, chat, worker>>
    BY DEF vars, chatVars, jobVars
<1> QED
    BY <1>1, <1>2, <1>3, <1>4, WorkInsertJob, WorkRests, WorkClaim, WorkEnsure, WorkFindReply,
       WorkRunChat, WorkChatReturns, WorkDecides, WorkDeleteConversation, WorkPostMessage
       DEF Next, Process

LEMMA Turns == Spec => []JobInv
<1>1. Init => JobInv
    BY TypeInit, ClaimInit, WorkInit DEF JobInv
<1>2. JobInv /\ [Next]_vars => JobInv'
    BY InvStep, WorkStep DEF JobInv
<1> QED BY <1>1, <1>2, PTL DEF Spec

\* However often a job is delivered, attempted and retried, and whatever of its database
\* calls loses its reply, its conversation holds its question once and one answer to it.
THEOREM TurnsAreSingle == Spec => []NoDuplicateTurns
<1>1. JobInv => NoDuplicateTurns
  <2> SUFFICES ASSUME JobInv, NEW j \in Jobs, NEW r \in Roles
               PROVE  Cardinality({m \in DOMAIN messages :
                                     messages[m].topic = j /\ messages[m].role = r}) <= 1
      BY DEF NoDuplicateTurns
  <2> DEFINE turns == {m \in DOMAIN messages : messages[m].topic = j /\ messages[m].role = r}
  <2>1. \A m, n \in turns : m = n
    <3>1. CASE r = "user"
        BY <3>1 DEF JobInv, WorkInv, TurnsInv, QuestionInv
    <3>2. CASE r = "assistant"
        BY <3>2 DEF JobInv, WorkInv, TurnsInv, AnswerInv, AnswersTo
    <3> QED BY <3>1, <3>2 DEF Roles
  <2> HIDE DEF turns
  <2>2. turns = {} \/ \E m : turns = {m}
      BY <2>1
  <2>3. Cardinality(turns) <= 1
    <3>1. CASE turns = {}
        BY <3>1, FS_EmptySet
    <3>2. ASSUME NEW m, turns = {m}
          PROVE  Cardinality(turns) <= 1
      <4>1. Cardinality({m}) = 1
          BY FS_Singleton
      <4> QED BY <3>2, <4>1
    <3> QED BY <2>2, <3>1, <3>2
  <2> QED BY <2>3 DEF turns
<1> QED BY <1>1, Turns, PTL

\* A job that a client reads as completed points at the visible reply of a completed call
\* for its own question, whichever attempt generated it.
THEOREM CompletedJobsHaveTheirReply == Spec => []CompletedWithOwnReply
<1>1. JobInv => CompletedWithOwnReply
  <2> SUFFICES ASSUME JobInv, NEW j \in Jobs, jobs[j].status = "completed"
               PROVE  /\ Visible(jobs[j].assistant)
                      /\ messages[jobs[j].assistant].topic = j
                      /\ \E k \in CompletedCalls(j) : calls[k].assistant = jobs[j].assistant
      BY DEF CompletedWithOwnReply
  <2>1. ConvOf[j] \in convs /\ jobs[j].assistant \in Replies(j)
      BY DEF JobInv, WorkInv, StatusOK
  <2>2. /\ jobs[j].assistant \in DOMAIN messages
        /\ messages[jobs[j].assistant] = AnswerOf(j)
      BY <2>1 DEF JobInv, WorkInv, TurnsInv, AnswerInv, AnswersTo
  <2> QED BY <2>1, <2>2 DEF Visible, AnswerOf, Replies
<1> QED BY <1>1, Turns, PTL

----------------------------------------------------------------------------
(* The life of a job.                                                      *)

\* A worker gives a job up only when it was claimed for the last time.
LastAttempt == \A w \in Workers : At(w, "fail") => worker[w].attempt >= MaxAttempts

LEMMA LastAttemptInit == Init => LastAttempt
<1> SUFFICES ASSUME Init
             PROVE  LastAttempt
    OBVIOUS
<1>1. \A w \in Workers : worker[w].pc = "idle"
    BY DEF Init, Idle
<1> QED BY <1>1 DEF LastAttempt, At

LEMMA LastAttemptStep == TypeOK /\ LastAttempt /\ [Next]_vars => LastAttempt'
<1> SUFFICES ASSUME TypeOK, LastAttempt, [Next]_vars
             PROVE  LastAttempt'
    OBVIOUS
<1>0. WorkersOK
    BY DEF TypeOK, JobTypeOK
<1>1. ASSUME NEW w \in Workers, NEW r, worker' = [worker EXCEPT ![w] = r],
             r.pc = "fail" => r.attempt >= MaxAttempts
      PROVE  LastAttempt'
  <2>1. worker'[w] = r /\ \A v \in Workers \ {w} : worker'[v] = worker[v]
      BY <1>0, <1>1 DEF WorkersOK
  <2> QED BY <1>1, <2>1 DEF LastAttempt, At
<1>2. ASSUME NEW w \in Workers, NEW pc, pc # "fail", GotoPc(w, pc)
      PROVE  LastAttempt'
  <2> DEFINE r == [worker[w] EXCEPT !.pc = pc]
  <2>1. worker' = [worker EXCEPT ![w] = r] /\ r.pc = pc
      BY <1>0, <1>2 DEF GotoPc, WorkersOK, WorkerRecord
  <2> QED BY <1>1, <1>2, <2>1
<1>3. ASSUME NEW w \in Workers, NEW code, AttemptFailed(w, code)
      PROVE  LastAttempt'
  <2>1. CASE GotoPc(w, "retry")
      BY <1>2, <2>1
  <2>2. CASE /\ ~(worker[w].attempt < MaxAttempts)
             /\ worker' = [worker EXCEPT ![w].pc = "fail", ![w].code = code]
    <3> DEFINE r == [worker[w] EXCEPT !.pc = "fail", !.code = code]
    <3>1. /\ worker' = [worker EXCEPT ![w] = r]
          /\ r.attempt = worker[w].attempt
          /\ worker[w].attempt \in Nat
        BY <1>0, <2>2 DEF WorkersOK, WorkerRecord
    <3>2. r.attempt >= MaxAttempts
        BY <2>2, <3>1
    <3> QED BY <1>1, <3>1, <3>2
  <2> QED BY <1>3, <2>1, <2>2 DEF AttemptFailed
<1>4. ASSUME NEW w \in Workers, NEW m,
             worker' = [worker EXCEPT ![w].pc = "complete", ![w].reply = m]
      PROVE  LastAttempt'
  <2> DEFINE r == [worker[w] EXCEPT !.pc = "complete", !.reply = m]
  <2>1. worker' = [worker EXCEPT ![w] = r] /\ r.pc = "complete"
      BY <1>0, <1>4 DEF WorkersOK, WorkerRecord
  <2> QED BY <1>1, <2>1
<1>5. ASSUME NEW w \in Workers, Claim(w)
      PROVE  LastAttempt'
  <2>1. CASE worker' = [worker EXCEPT ![w].pc = "ensure",
                                      ![w].attempt = jobs[worker[w].job].attempts + 1]
    <3> DEFINE r == [worker[w] EXCEPT !.pc = "ensure", !.attempt = jobs[worker[w].job].attempts + 1]
    <3>1. worker' = [worker EXCEPT ![w] = r] /\ r.pc = "ensure"
        BY <1>0, <2>1 DEF WorkersOK, WorkerRecord
    <3> QED BY <1>1, <3>1
  <2> QED BY <1>2, <1>5, <2>1 DEF Claim
<1>6. ASSUME NEW w \in Workers, Deliver(w)
      PROVE  LastAttempt'
  <2>1. PICK j \in queue : worker' = [worker EXCEPT ![w].pc = "claim", ![w].job = j]
      BY <1>6 DEF Deliver
  <2> DEFINE r == [worker[w] EXCEPT !.pc = "claim", !.job = j]
  <2>2. worker' = [worker EXCEPT ![w] = r] /\ r.pc = "claim"
      BY <1>0, <2>1 DEF WorkersOK, WorkerRecord
  <2> QED BY <1>1, <2>2
<1>7. ASSUME NEW w \in Workers, Ack(w) \/ Nack(w) \/ Crash(w)
      PROVE  LastAttempt'
    BY <1>1, <1>7 DEF Ack, Nack, Crash, Idle
<1>8. ASSUME NEW w \in Workers, Ensure(w) \/ FindReply(w) \/ ChatReturns(w) \/ Complete(w)
                                \/ Retry(w) \/ Fail(w)
      PROVE  LastAttempt'
    BY <1>2, <1>3, <1>4, <1>8 DEF Ensure, FindReply, ChatReturns, Complete, Retry, Fail
<1>9. UNCHANGED worker => LastAttempt'
    BY DEF LastAttempt, At
<1>10. /\ \A j \in Jobs : InsertJob(j) \/ Publish(j) => UNCHANGED worker
       /\ \A w \in Workers : RunChat(w) \/ LoseChannel(w) => UNCHANGED worker
       /\ \A c \in Convs : DeleteConversation(c) \/ PostMessage(c) => UNCHANGED worker
       /\ UNCHANGED vars => UNCHANGED worker
    BY DEF InsertJob, Publish, RunChat, LoseChannel, DeleteConversation, PostMessage, jobVars, vars
<1> QED BY <1>5, <1>6, <1>7, <1>8, <1>9, <1>10 DEF Next, Process

\* The state of JobLifecycle.
IsAnswered(j) == \E m \in DOMAIN messages :
                   messages[m].topic = j /\ messages[m].role = "assistant"

Statuses == [j \in Jobs |-> jobs[j].status]
Starts == [j \in Jobs |-> jobs[j].attempts]
Answered == [j \in Jobs |-> IsAnswered(j)]

LEMMA IsAnsweredBy ==
  ASSUME NEW j \in Jobs
  PROVE  /\ IsAnswered(j) <=> AnswersTo(j) # {}
         /\ Answered[j] <=> AnswersTo(j) # {}
<1>1. IsAnswered(j) <=> AnswersTo(j) # {}
    BY DEF IsAnswered, AnswersTo
<1>2. Answered[j] = IsAnswered(j)
    BY DEF Answered
<1> QED BY <1>1, <1>2

LEMMA AnsweredUnchanged ==
  ASSUME \A j \in Jobs : AnswersTo(j)' = AnswersTo(j)
  PROVE  UNCHANGED Answered
<1>1. ASSUME NEW j \in Jobs
      PROVE  IsAnswered(j)' = IsAnswered(j)
  <2>1. IsAnswered(j) <=> AnswersTo(j) # {}
      BY DEF IsAnswered, AnswersTo
  <2>2. IsAnswered(j)' <=> AnswersTo(j)' # {}
      BY DEF IsAnswered, AnswersTo
  <2>3. IsAnswered(j) \in BOOLEAN /\ IsAnswered(j)' \in BOOLEAN
      BY DEF IsAnswered
  <2> QED BY <2>1, <2>2, <2>3
<1> QED BY <1>1 DEF Answered

\* The row of job j is replaced by q.
LEMMA RowMoves ==
  ASSUME TypeOK, NEW j \in Jobs, NEW q, jobs' = [jobs EXCEPT ![j] = q],
         q.attempts = jobs[j].attempts
  PROVE  /\ Statuses' = [Statuses EXCEPT ![j] = q.status]
         /\ UNCHANGED Starts
<1>1. jobs'[j] = q /\ \A i \in Jobs \ {j} : jobs'[i] = jobs[i]
    BY DEF TypeOK, StoreTypeOK
<1>2. Statuses' = [Statuses EXCEPT ![j] = q.status]
  <2>1. \A i \in Jobs : jobs'[i].status = IF i = j THEN q.status ELSE jobs[i].status
      BY <1>1
  <2> QED BY <2>1, Zenon DEF Statuses
<1>3. \A i \in Jobs : jobs'[i].attempts = jobs[i].attempts
    BY <1>1
<1> QED BY <1>2, <1>3 DEF Starts

LEMMA LifecycleInit == Init => Lifecycle!Init
<1> SUFFICES ASSUME Init
             PROVE  Lifecycle!Init
    OBVIOUS
<1>1. /\ \A j \in Jobs : jobs[j].status = "absent" /\ jobs[j].attempts = 0
      /\ messages = <<>>
    BY DEF Init, StoreInit
<1>2. /\ Statuses = [j \in Jobs |-> "absent"]
      /\ Starts = [j \in Jobs |-> 0]
    BY <1>1 DEF Statuses, Starts
<1>3. Answered = [j \in Jobs |-> FALSE]
  <2>1. DOMAIN messages = {}
      BY <1>1
  <2> QED BY <2>1 DEF Answered, IsAnswered
<1> QED BY <1>2, <1>3 DEF Lifecycle!Init, Statuses, Starts, Answered, IsAnswered

\* One job goes from one status to another.
LEMMA LifecycleMoves ==
  ASSUME NEW j \in Jobs, UNCHANGED <<Starts, Answered>>, NEW to,
         Statuses' = [Statuses EXCEPT ![j] = to],
         \/ jobs[j].status = "absent" /\ to = "pending"
         \/ jobs[j].status = "processing" /\ to = "pending" /\ jobs[j].attempts < MaxAttempts
         \/ jobs[j].status = "processing" /\ to = "completed" /\ AnswersTo(j) # {}
         \/ jobs[j].status = "processing" /\ to = "failed" /\ jobs[j].attempts = MaxAttempts
  PROVE  Lifecycle!Next
<1>1. Statuses[j] = jobs[j].status /\ Starts[j] = jobs[j].attempts
    BY DEF Statuses, Starts
<1>2. Answered[j] <=> AnswersTo(j) # {}
    BY IsAnsweredBy
<1>3. CASE jobs[j].status = "absent" /\ to = "pending"
  <2>1. Lifecycle!Submit(j)
      BY <1>1, <1>3 DEF Lifecycle!Submit, Lifecycle!Move, Statuses, Starts, Answered, IsAnswered
  <2> QED BY <2>1 DEF Lifecycle!Next
<1>4. CASE jobs[j].status = "processing" /\ to = "pending" /\ jobs[j].attempts < MaxAttempts
  <2>1. Lifecycle!GoBack(j)
      BY <1>1, <1>4 DEF Lifecycle!GoBack, Lifecycle!Move, Statuses, Starts, Answered, IsAnswered
  <2> QED BY <2>1 DEF Lifecycle!Next
<1>5. CASE jobs[j].status = "processing" /\ to = "completed" /\ AnswersTo(j) # {}
  <2>1. Lifecycle!Succeed(j)
      BY <1>1, <1>2, <1>5 DEF Lifecycle!Succeed, Lifecycle!Move, Statuses, Starts, Answered, IsAnswered
  <2> QED BY <2>1 DEF Lifecycle!Next
<1>6. CASE jobs[j].status = "processing" /\ to = "failed" /\ jobs[j].attempts = MaxAttempts
  <2>1. Lifecycle!GiveUp(j)
      BY <1>1, <1>6 DEF Lifecycle!GiveUp, Lifecycle!Move, Statuses, Starts, Answered, IsAnswered
  <2> QED BY <2>1 DEF Lifecycle!Next
<1> QED BY <1>3, <1>4, <1>5, <1>6

\* The state that a client can see stays as it was.
LEMMA LifecycleStutters ==
  ASSUME \A j \in Jobs : /\ jobs'[j].status = jobs[j].status
                         /\ jobs'[j].attempts = jobs[j].attempts
                         /\ AnswersTo(j)' = AnswersTo(j)
  PROVE  [Lifecycle!Next]_Lifecycle!vars
<1>1. UNCHANGED <<Statuses, Starts>>
    BY DEF Statuses, Starts
<1>2. UNCHANGED Answered
    BY AnsweredUnchanged
<1> QED BY <1>1, <1>2 DEF Lifecycle!vars, Statuses, Starts, Answered, IsAnswered

LEMMA LifecycleStep == JobInv /\ LastAttempt /\ [Next]_vars => [Lifecycle!Next]_Lifecycle!vars
<1> SUFFICES ASSUME JobInv, LastAttempt, [Next]_vars
             PROVE  [Lifecycle!Next]_Lifecycle!vars
    OBVIOUS
<1>0. /\ TypeOK /\ StoreTypeOK /\ WorkersOK /\ ClaimInv
      /\ jobs \in [Jobs -> Job]
      /\ TurnsInv
      /\ \A j \in Jobs : AnswersTo(j) = Replies(j)
    BY DEF JobInv, TypeOK, StoreTypeOK, JobTypeOK, WorkInv, TurnsInv, AnswerInv
<1>1. UNCHANGED messages => \A j \in Jobs : AnswersTo(j)' = AnswersTo(j)
    BY DEF AnswersTo
<1>2. UNCHANGED <<messages, jobs>> => [Lifecycle!Next]_Lifecycle!vars
    BY <1>1, LifecycleStutters
<1>3. ASSUME NEW j \in Jobs, InsertJob(j)
      PROVE  [Lifecycle!Next]_Lifecycle!vars
  <2>1. CASE InsertPendingChatJob(j)
    <3> DEFINE q == [jobs[j] EXCEPT !.status = "pending"]
    <3>1. jobs' = [jobs EXCEPT ![j] = q] /\ q.status = "pending" /\ q.attempts = jobs[j].attempts
        BY <1>0, <2>1 DEF InsertPendingChatJob, Job
    <3>2. jobs[j].status = "absent" /\ UNCHANGED messages
        BY <1>0, <1>3 DEF InsertJob, ClaimInv, AttemptsLeft
    <3> QED BY <1>0, <1>1, <3>1, <3>2, RowMoves, AnsweredUnchanged, LifecycleMoves
  <2> QED BY <1>2, <1>3, <2>1 DEF InsertJob
<1>4. ASSUME NEW w \in Workers, Claim(w)
      PROVE  [Lifecycle!Next]_Lifecycle!vars
  <2>a. PICK j \in Jobs : j = worker[w].job
      BY <1>0, <1>4 DEF Claim, At, WorkersOK
  <2>1. CASE Claimable(j) /\ ClaimPendingChatJob(j)
    <3>1. UNCHANGED Answered
        BY <1>1, <1>4, AnsweredUnchanged DEF Claim
    <3>2. jobs[j].status = "pending" /\ jobs[j].attempts < MaxAttempts /\ jobs[j] \in Job
        BY <1>0, <2>1 DEF Claimable, ClaimInv, AttemptsLeft
    <3> DEFINE q == [jobs[j] EXCEPT !.status = "processing", !.attempts = jobs[j].attempts + 1]
    <3>3. /\ jobs' = [jobs EXCEPT ![j] = q]
          /\ q.status = "processing"
          /\ q.attempts = jobs[j].attempts + 1
        BY <1>0, <2>1, <3>2 DEF ClaimPendingChatJob, Job
    <3> HIDE DEF q
    <3>4. \A i \in Jobs : /\ jobs'[i].status = IF i = j THEN "processing" ELSE jobs[i].status
                          /\ jobs'[i].attempts = IF i = j THEN jobs[j].attempts + 1
                                                          ELSE jobs[i].attempts
        BY <1>0, <3>3
    <3>5. Statuses' = [Statuses EXCEPT ![j] = "processing"]
        BY <3>4, Zenon DEF Statuses
    <3>6. Starts' = [Starts EXCEPT ![j] = Starts[j] + 1]
        BY <3>4 DEF Starts
    <3>7. Statuses[j] = "pending" /\ Starts[j] < MaxAttempts
        BY <3>2 DEF Statuses, Starts
    <3>8. Lifecycle!Start(j)
        BY <3>1, <3>5, <3>6, <3>7
           DEF Lifecycle!Start, Lifecycle!Move, Statuses, Starts, Answered, IsAnswered
    <3> QED BY <3>8 DEF Lifecycle!Next
  <2> QED BY <1>2, <1>4, <2>a, <2>1 DEF Claim
<1>5. ASSUME NEW w \in Workers, Ensure(w)
      PROVE  [Lifecycle!Next]_Lifecycle!vars
  <2>a. PICK j \in Jobs : j = worker[w].job
      BY <1>0, <1>5 DEF Ensure, At, WorkersOK
  <2>1. CASE EnsureChatJobRequestMessage(j)
    <3> DEFINE q == [jobs[j] EXCEPT !.request = RequestMessageOf(j)]
    <3>1. /\ jobs' = [jobs EXCEPT ![j] = q]
          /\ q.status = jobs[j].status
          /\ q.attempts = jobs[j].attempts
        BY <1>0, <2>1 DEF EnsureChatJobRequestMessage, Job
    <3>2. \A i \in Jobs : AnswersTo(i)' = AnswersTo(i)
      <4>1. CASE InsertMessage(ConvOf[j], "user", j)
        <5>1. ConvOf[j] \in Convs /\ j \in Topics
            OBVIOUS
        <5> QED BY <1>0, <4>1, <5>1, QuestionsAnswerNothing
      <4> QED BY <1>1, <2>1, <4>1 DEF EnsureChatJobRequestMessage
    <3> HIDE DEF q
    <3> QED BY <1>0, <3>1, <3>2, LifecycleStutters
  <2> QED BY <1>2, <1>5, <2>a, <2>1 DEF Ensure
<1>6. ASSUME NEW w \in Workers, RunChat(w)
      PROVE  [Lifecycle!Next]_Lifecycle!vars
  <2>a. PICK j \in Jobs : j = worker[w].job
      BY <1>0, <1>6 DEF RunChat, At, WorkersOK
  <2>1. CASE SaveReply(w) /\ LiveCall(chat[w].call) /\ InsertReplyAndCompleteModelCall(chat[w].call)
    <3>1. /\ jobs[j].status = "processing"
          /\ Replies(j) = {}
          /\ TurnsInv'
          /\ Replies(j)' = {Len(messages) + 1}
          /\ \A i \in Jobs \ {j} : Replies(i)' = Replies(i)
          /\ UNCHANGED jobs
        BY <1>6, <2>a, <2>1, ReplyAtJob DEF RunChat, SaveReply
    <3>2. \A i \in Jobs : AnswersTo(i)' = Replies(i)'
        BY <3>1 DEF TurnsInv, AnswerInv
    <3>3. ASSUME NEW i \in Jobs
          PROVE  IsAnswered(i)' = IF i = j THEN TRUE ELSE IsAnswered(i)
      <4>1. IsAnswered(i) <=> Replies(i) # {}
          BY <1>0, IsAnsweredBy
      <4>2. IsAnswered(i)' <=> Replies(i)' # {}
          BY <3>2 DEF IsAnswered, AnswersTo
      <4>3. IsAnswered(i) \in BOOLEAN /\ IsAnswered(i)' \in BOOLEAN
          BY DEF IsAnswered
      <4> QED BY <3>1, <4>1, <4>2, <4>3
    <3>4. UNCHANGED <<Statuses, Starts>>
        BY <3>1 DEF Statuses, Starts
    <3>5. Statuses[j] = "processing" /\ ~Answered[j]
        BY <1>0, <3>1, IsAnsweredBy DEF Statuses
    <3>6. Answered' = [Answered EXCEPT ![j] = TRUE]
        BY <3>3 DEF Answered
    <3>7. Lifecycle!Reply(j)
        BY <3>4, <3>5, <3>6
           DEF Lifecycle!Reply, Lifecycle!Move, Statuses, Starts, Answered, IsAnswered
    <3> QED BY <3>7 DEF Lifecycle!Next
  <2>2. CASE UNCHANGED <<messages, jobs>>
      BY <1>2, <2>2
  <2> QED BY <1>6, <2>1, <2>2
         DEF RunChat, ChatStep, StartModelCall, LoadHistory, Generate, SaveReply, FinishCall,
             storeVars
<1>7. ASSUME NEW w \in Workers, Complete(w) \/ Retry(w) \/ Fail(w)
      PROVE  [Lifecycle!Next]_Lifecycle!vars
  <2>a. PICK j \in Jobs : j = worker[w].job
      BY <1>0, <1>7 DEF Complete, Retry, Fail, At, WorkersOK
  <2>1. /\ jobs[j] \in Job /\ jobs[j].attempts = worker[w].attempt
        /\ jobs[j].attempts \in Nat /\ jobs[j].attempts <= MaxAttempts
        /\ At(w, "retry") => jobs[j].attempts < MaxAttempts
    <3>1. Owner(w, j) /\ jobs[j] \in Job
        BY <1>0, <1>7, <2>a DEF Complete, Retry, Fail, At, Owner, Owning
    <3>2. /\ jobs[j].attempts = worker[w].attempt
          /\ jobs[j].attempts <= MaxAttempts
          /\ At(w, "retry") => jobs[j].attempts < MaxAttempts
        BY <1>0, <3>1 DEF ClaimInv, OwnersHoldRows, AttemptsBounded
    <3> QED BY <3>1, <3>2 DEF Job
  <2>2. UNCHANGED messages /\ UNCHANGED Answered
      BY <1>1, <1>7, AnsweredUnchanged DEF Complete, Retry, Fail
  <2>3. CASE At(w, "complete") /\ Processing(j) /\ CompleteChatJob(j, worker[w].reply)
    <3> DEFINE q == [jobs[j] EXCEPT !.status = "completed", !.assistant = worker[w].reply]
    <3>1. jobs' = [jobs EXCEPT ![j] = q] /\ q.status = "completed" /\ q.attempts = jobs[j].attempts
        BY <1>0, <2>1, <2>3 DEF CompleteChatJob, Job
    <3>2. AnswersTo(j) # {}
        BY <1>0, <2>a, <2>3 DEF At, JobInv, WorkInv, WorkerInv
    <3> HIDE DEF q
    <3>3. Statuses' = [Statuses EXCEPT ![j] = "completed"] /\ UNCHANGED Starts
        BY <1>0, <3>1, RowMoves
    <3>4. jobs[j].status = "processing"
        BY <2>3 DEF Processing
    <3>5. Lifecycle!Next
        BY <2>2, <3>2, <3>3, <3>4, LifecycleMoves
    <3> QED BY <3>5
  <2>4. CASE At(w, "retry") /\ Processing(j) /\ RetryChatJob(j)
    <3> DEFINE q == [jobs[j] EXCEPT !.status = "pending"]
    <3>1. jobs' = [jobs EXCEPT ![j] = q] /\ q.status = "pending" /\ q.attempts = jobs[j].attempts
        BY <1>0, <2>1, <2>4 DEF RetryChatJob, Job
    <3> HIDE DEF q
    <3>2. Statuses' = [Statuses EXCEPT ![j] = "pending"] /\ UNCHANGED Starts
        BY <1>0, <3>1, RowMoves
    <3>3. jobs[j].status = "processing" /\ jobs[j].attempts < MaxAttempts
        BY <2>1, <2>4 DEF Processing
    <3>4. Lifecycle!Next
        BY <2>2, <3>2, <3>3, LifecycleMoves
    <3> QED BY <3>4
  <2>5. CASE At(w, "fail") /\ Processing(j) /\ FailChatJob(j, worker[w].code)
    <3> DEFINE q == [jobs[j] EXCEPT !.status = "failed", !.error = worker[w].code]
    <3>1. jobs' = [jobs EXCEPT ![j] = q] /\ q.status = "failed" /\ q.attempts = jobs[j].attempts
        BY <1>0, <2>1, <2>5 DEF FailChatJob, Job
    <3>2. jobs[j].attempts = MaxAttempts
        BY <2>1, <2>5 DEF LastAttempt
    <3> HIDE DEF q
    <3>3. Statuses' = [Statuses EXCEPT ![j] = "failed"] /\ UNCHANGED Starts
        BY <1>0, <3>1, RowMoves
    <3>4. jobs[j].status = "processing"
        BY <2>5 DEF Processing
    <3> QED BY <2>2, <3>2, <3>3, <3>4, LifecycleMoves
  <2> QED BY <1>2, <1>7, <2>a, <2>2, <2>3, <2>4, <2>5 DEF Complete, Retry, Fail, Completable
<1>8. ASSUME NEW c \in Convs, DeleteConversation(c)
      PROVE  [Lifecycle!Next]_Lifecycle!vars
  <2>0. PICK S : S = {j \in Jobs : ConvOf[j] = c /\ jobs[j].status # "absent"}
      OBVIOUS
  <2>1. UNCHANGED messages /\ UNCHANGED Answered
      BY <1>1, <1>8, AnsweredUnchanged DEF DeleteConversation
  <2>2. \A j \in Jobs : /\ jobs'[j].status = IF j \in S THEN "deleted" ELSE jobs[j].status
                        /\ jobs'[j].attempts = jobs[j].attempts
    <3> SUFFICES ASSUME NEW j \in Jobs
                 PROVE  /\ jobs'[j].status = IF j \in S THEN "deleted" ELSE jobs[j].status
                        /\ jobs'[j].attempts = jobs[j].attempts
        OBVIOUS
    <3>1. jobs'[j] = IF j \in S THEN [jobs[j] EXCEPT !.status = "deleted"] ELSE jobs[j]
        BY <1>8, <2>0 DEF DeleteConversation, DeleteConversationRow
    <3>2. jobs[j] \in Job
        BY <1>0
    <3> QED BY <3>1, <3>2 DEF Job
  <2>3. S \in SUBSET {j \in Jobs : [i \in Jobs |-> jobs[i].status][j] # "absent"}
      BY <2>0
  <2>4. Statuses' = [j \in Jobs |-> IF j \in S THEN "deleted" ELSE Statuses[j]]
      BY <2>2 DEF Statuses
  <2>5. UNCHANGED Starts
      BY <2>2 DEF Starts
  <2>6. Lifecycle!Remove(S)
      BY <2>1, <2>4, <2>5 DEF Lifecycle!Remove, Statuses, Starts, Answered, IsAnswered
  <2>7. \E T \in SUBSET {j \in Jobs : [i \in Jobs |-> jobs[i].status][j] # "absent"} :
          Lifecycle!Remove(T)
      BY <2>3, <2>6, Zenon
  <2> QED BY <2>7 DEF Lifecycle!Next
<1>9. ASSUME NEW c \in Convs, PostMessage(c)
      PROVE  [Lifecycle!Next]_Lifecycle!vars
  <2>1. PICK t \in Topics \ Jobs : InsertMessage(c, "user", t)
      BY <1>9 DEF PostMessage
  <2>2. \A i \in Jobs : AnswersTo(i)' = AnswersTo(i)
      BY <1>0, <2>1, QuestionsAnswerNothing
  <2> QED BY <1>9, <2>2, LifecycleStutters DEF PostMessage
<1>10. /\ \A j \in Jobs : Publish(j) => UNCHANGED <<messages, jobs>>
       /\ \A w \in Workers :
            Deliver(w) \/ FindReply(w) \/ ChatReturns(w) \/ Ack(w) \/ Nack(w) \/ LoseChannel(w)
              \/ Crash(w) => UNCHANGED <<messages, jobs>>
       /\ UNCHANGED vars => UNCHANGED <<messages, jobs>>
    BY DEF Publish, Deliver, FindReply, ChatReturns, Ack, Nack, LoseChannel, Crash, vars, storeVars
<1> QED BY <1>2, <1>3, <1>4, <1>5, <1>6, <1>7, <1>8, <1>9, <1>10 DEF Next, Process

\* What a client sees of a job is JobLifecycle, whatever the queue, the workers and the
\* database do: it starts only while attempts are left, is answered once and only while it
\* is processing, succeeds only with its answer, and fails only after its last attempt.
THEOREM JobsFollowLifecycle == Spec => ImplementsLifecycle
<1>1. Init => JobInv /\ LastAttempt /\ Lifecycle!Init
    BY TypeInit, ClaimInit, WorkInit, LastAttemptInit, LifecycleInit DEF JobInv
<1>2. JobInv /\ LastAttempt /\ [Next]_vars => (JobInv /\ LastAttempt)'
    BY InvStep, WorkStep, LastAttemptStep DEF JobInv
<1>3. JobInv /\ LastAttempt /\ [Next]_vars => [Lifecycle!Next]_Lifecycle!vars
    BY LifecycleStep
<1> QED BY <1>1, <1>2, <1>3, PTL DEF Spec, ImplementsLifecycle, Lifecycle!Spec

----------------------------------------------------------------------------
(* Calls that stay running.                                                *)

\* Running calls that no chat is going to finish: its own, if it is still there, has its
\* result and will not look at it again.
Doomed == {k \in DOMAIN calls : LiveCall(k) /\ \A p \in Procs : chat[p].call = k =>
                                                                chat[p].stage = "done"}

\* A chat is where its worker is, and has a call once it has started one.
ChatPlace ==
  \A w \in Workers :
    /\ worker[w].pc # "chat" => chat[w] = NoChat
    /\ chat[w].stage \in {"off", "start"} => chat[w].call = None

DoomedInv ==
  /\ ChatPlace
  /\ IsFiniteSet(Doomed)
  /\ Cardinality(Doomed) <= failures + outages

LEMMA NoChatHasNoCall == NoChat.call = None
BY DEF NoChat

LEMMA DoomedKept ==
  ASSUME TypeOK, TypeOK', DoomedInv, Doomed' \subseteq Doomed, failures' >= failures,
         outages' >= outages, ChatPlace'
  PROVE  DoomedInv'
<1>1. IsFiniteSet(Doomed') /\ Cardinality(Doomed') <= Cardinality(Doomed)
    BY FS_Subset DEF DoomedInv
<1>2. Cardinality(Doomed) \in Nat /\ Cardinality(Doomed') \in Nat
    BY <1>1, FS_CardinalityType DEF DoomedInv
<1>3. failures \in Nat /\ failures' \in Nat /\ outages \in Nat /\ outages' \in Nat
    BY DEF TypeOK, ChatTypeOK, JobTypeOK, BrokerOK
<1> QED BY <1>1, <1>2, <1>3 DEF DoomedInv

LEMMA DoomedGrows ==
  ASSUME TypeOK, TypeOK', DoomedInv, NEW k, Doomed' \subseteq Doomed \cup {k}, ChatPlace',
         \/ failures' = failures + 1 /\ outages' = outages
         \/ failures' = failures /\ outages' = outages + 1
  PROVE  DoomedInv'
<1>1. /\ IsFiniteSet(Doomed \cup {k})
      /\ Cardinality(Doomed \cup {k}) <= Cardinality(Doomed) + 1
  <2>1. IsFiniteSet(Doomed)
      BY DEF DoomedInv
  <2>2. Cardinality(Doomed) \in Nat
      BY <2>1, FS_CardinalityType
  <2>3. /\ IsFiniteSet(Doomed \cup {k})
        /\ Cardinality(Doomed \cup {k}) =
             IF k \in Doomed THEN Cardinality(Doomed) ELSE Cardinality(Doomed) + 1
      BY <2>1, FS_AddElement
  <2> QED BY <2>2, <2>3
<1>2. IsFiniteSet(Doomed') /\ Cardinality(Doomed') <= Cardinality(Doomed \cup {k})
    BY <1>1, FS_Subset
<1>3. /\ Cardinality(Doomed) \in Nat /\ Cardinality(Doomed') \in Nat
      /\ Cardinality(Doomed \cup {k}) \in Nat
    BY <1>1, <1>2, FS_CardinalityType DEF DoomedInv
<1>4. failures \in Nat /\ failures' \in Nat /\ outages \in Nat /\ outages' \in Nat
    BY DEF TypeOK, ChatTypeOK, JobTypeOK, BrokerOK
<1> QED BY <1>1, <1>2, <1>3, <1>4 DEF DoomedInv

LEMMA DoomedInit == Init => DoomedInv
<1> SUFFICES ASSUME Init
             PROVE  DoomedInv
    OBVIOUS
<1>1. calls = <<>> /\ failures = 0 /\ outages = 0
    BY DEF Init, StoreInit, ChatInit
<1>2. chat = [w \in Workers |-> NoChat]
    BY DEF Init, ChatInit
<1>3. ChatPlace
    BY <1>2 DEF ChatPlace, NoChat
<1>4. Doomed = {}
  <2>1. DOMAIN calls = {}
      BY <1>1
  <2> QED BY <2>1 DEF Doomed
<1> QED BY <1>1, <1>3, <1>4, FS_EmptySet DEF DoomedInv

LEMMA JobRequestsStored ==
  ASSUME JobInv
  PROVE  RequestsStored
BY DEF RequestsStored, JobInv, WorkInv, TurnsInv, CallInv, QuestionInv

\* A failure, or none: the count does not go down.
LEMMA Counted ==
  ASSUME TypeOK, Failure \/ NoFailure
  PROVE  failures' >= failures
BY DEF TypeOK, ChatTypeOK, Failure, NoFailure

LEMMA DoomedRunChat ==
  ASSUME JobInv, TypeOK', DoomedInv, NEW w \in Workers, RunChat(w)
  PROVE  DoomedInv'
<1> DEFINE Moved(stage) == /\ chat'[w].stage = stage
                           /\ chat'[w].call = chat[w].call
                           /\ \A v \in Procs \ {w} : chat'[v] = chat[v]
<1>0. /\ TypeOK /\ StoreTypeOK /\ ChatsOK /\ RequestsStored /\ ChatPlace
      /\ w \in Procs /\ Procs = Workers
      /\ failures \in Nat /\ outages \in Nat
    BY JobRequestsStored DEF JobInv, TypeOK, ChatTypeOK, JobTypeOK, BrokerOK, DoomedInv
<1>1. worker[w].pc = "chat" /\ worker' = worker /\ outages' = outages /\ convs' = convs
    BY DEF RunChat, At, jobVars, budgets, ChatStep, StartModelCall, LoadHistory, Generate,
           SaveReply, FinishCall, storeVars
\* What the chat does keeps it in place.
<1>2. ASSUME \A v \in Procs \ {w} : chat'[v] = chat[v], chat'[w].stage \notin {"off", "start"}
      PROVE  ChatPlace'
    BY <1>0, <1>1, <1>2 DEF ChatPlace
<1>3. ASSUME NEW stage \in {"generate", "save", "finish"}, chat[w].stage # "done",
             UNCHANGED <<storeVars, failures>>, Moved(stage)
      PROVE  DoomedInv'
  <2>2. \A k : LiveCall(k)' => LiveCall(k)
      BY <1>3 DEF LiveCall, Visible, storeVars
  <2>3. Doomed' \subseteq Doomed
      BY <1>3, <2>2 DEF Doomed, LiveCall
  <2>4. ChatPlace'
      BY <1>2, <1>3
  <2> QED BY <1>0, <1>1, <1>3, <2>3, <2>4, DoomedKept
<1>4. CASE StartModelCall(w)
  <2>1. chat[w].call = None /\ UNCHANGED messages /\ chat[w].request \in Nat
      BY <1>0, <1>4 DEF StartModelCall, ChatPlace, ChatsOK, ChatRecord
  <2>2. None \notin DOMAIN calls /\ Len(calls) + 1 \notin DOMAIN calls
      BY <1>0, CallRows DEF None
  <2>3. CASE /\ InsertRunningModelCall(chat[w].request)
             /\ chat' = [chat EXCEPT ![w].stage = "history", ![w].call = Len(calls) + 1]
             /\ NoFailure
    <3>1. /\ chat'[w].stage = "history"
          /\ chat'[w].call = Len(calls) + 1
          /\ \A v \in Procs \ {w} : chat'[v] = chat[v]
        BY <1>0, <2>3, ChatHasCall
    <3>2. \A k : LiveCall(k)' => LiveCall(k) \/ k = Len(calls) + 1
        BY <1>0, <1>1, <2>1, <2>3, LiveAfterCall
    <3>3. Doomed' \subseteq Doomed
        BY <1>0, <2>1, <2>2, <3>1, <3>2 DEF Doomed, LiveCall
    <3>4. ChatPlace'
        BY <1>2, <3>1
    <3>5. failures' >= failures
        BY <1>0, <2>3 DEF NoFailure
    <3> QED BY <1>0, <1>1, <3>3, <3>4, <3>5, DoomedKept
  <2>4. CASE UNCHANGED calls /\ (\E cause \in Causes : Abandon(w, cause)) /\ NoFailure
    <3>1. /\ chat'[w].stage = "done"
          /\ chat'[w].call = None
          /\ \A v \in Procs \ {w} : chat'[v] = chat[v]
        BY <1>0, <2>1, <2>4, ChatMoves
    <3>2. \A k : LiveCall(k)' => LiveCall(k)
        BY <1>1, <2>1, <2>4 DEF LiveCall, Visible
    <3>3. Doomed' \subseteq Doomed
        BY <2>1, <2>2, <3>1, <3>2 DEF Doomed, LiveCall
    <3> QED BY <1>0, <1>1, <1>2, <2>4, <3>1, <3>3, DoomedKept, Counted
  <2>5. CASE /\ InsertRunningModelCall(chat[w].request)
             /\ \E cause \in Causes : Abandon(w, cause)
             /\ Failure
    <3>1. /\ chat'[w].stage = "done"
          /\ chat'[w].call = None
          /\ \A v \in Procs \ {w} : chat'[v] = chat[v]
        BY <1>0, <2>1, <2>5, ChatMoves
    <3>2. \A k : LiveCall(k)' => LiveCall(k) \/ k = Len(calls) + 1
        BY <1>0, <1>1, <2>1, <2>5, LiveAfterCall
    <3>3. Doomed' \subseteq Doomed \cup {Len(calls) + 1}
        BY <2>1, <2>2, <3>1, <3>2 DEF Doomed, LiveCall
    <3> QED BY <1>0, <1>1, <1>2, <2>5, <3>1, <3>3, DoomedGrows DEF Failure
  <2> QED BY <1>4, <2>3, <2>4, <2>5 DEF StartModelCall
<1>5. CASE LoadHistory(w)
  <2>1. chat[w].stage # "done" /\ UNCHANGED <<storeVars, failures>>
      BY <1>5 DEF LoadHistory
  <2>2. CASE Goto(w, "generate")
    <3>1. Moved("generate")
        BY <1>0, <2>2, ChatMoves
    <3> QED BY <1>3, <2>1, <3>1
  <2>3. CASE \E cause \in Causes : FailWith(w, cause)
    <3>1. Moved("finish")
        BY <1>0, <2>3, ChatMoves
    <3> QED BY <1>3, <2>1, <3>1
  <2> QED BY <1>5, <2>2, <2>3 DEF LoadHistory
<1>6. CASE Generate(w)
  <2>1. chat[w].stage # "done" /\ UNCHANGED <<storeVars, failures>>
      BY <1>6 DEF Generate
  <2>2. CASE Goto(w, "save")
    <3>1. Moved("save")
        BY <1>0, <2>2, ChatMoves
    <3> QED BY <1>3, <2>1, <3>1
  <2>3. CASE \E cause \in Causes : FailWith(w, cause)
    <3>1. Moved("finish")
        BY <1>0, <2>3, ChatMoves
    <3> QED BY <1>3, <2>1, <3>1
  <2> QED BY <1>6, <2>2, <2>3 DEF Generate
<1>7. CASE SaveReply(w)
  <2>1. ASSUME LiveCall(chat[w].call), InsertReplyAndCompleteModelCall(chat[w].call),
               \/ chat' = [chat EXCEPT ![w].stage = "done", ![w].reply = Len(messages) + 1]
               \/ \E cause : FailWith(w, cause)
        PROVE  DoomedInv'
    <3>1. /\ chat'[w].stage \in {"done", "finish"}
          /\ chat'[w].call = chat[w].call
          /\ \A v \in Procs \ {w} : chat'[v] = chat[v]
      <4>1. CASE chat' = [chat EXCEPT ![w].stage = "done", ![w].reply = Len(messages) + 1]
        <5>1. /\ chat'[w].stage = "done"
              /\ chat'[w].call = chat[w].call
              /\ \A v \in Procs \ {w} : chat'[v] = chat[v]
            BY <1>0, <4>1, ChatHasReply
        <5> QED BY <5>1
      <4>2. CASE \E cause : FailWith(w, cause)
          BY <1>0, <4>2, ChatMoves
      <4> QED BY <2>1, <4>1, <4>2
    <3>2. \A k : LiveCall(k)' => LiveCall(k) /\ k # chat[w].call
        BY <1>0, <1>1, <2>1, LiveAfterReply
    <3>3. Doomed' \subseteq Doomed
        BY <3>1, <3>2 DEF Doomed, LiveCall
    <3>4. failures' >= failures
        BY <1>0, <1>7, Counted DEF SaveReply
    <3> QED BY <1>0, <1>1, <1>2, <3>1, <3>3, <3>4, DoomedKept
  <2>2. CASE (\E cause : FailWith(w, cause)) /\ UNCHANGED <<messages, calls>> /\ NoFailure
    <3>1. Moved("finish")
        BY <1>0, <2>2, ChatMoves
    <3>2. chat[w].stage # "done" /\ UNCHANGED <<storeVars, failures>>
        BY <1>7, <2>2 DEF SaveReply, NoFailure, storeVars
    <3> QED BY <1>3, <3>1, <3>2
  <2> QED BY <1>7, <2>1, <2>2 DEF SaveReply
<1>8. CASE FinishCall(w)
  <2>1. chat[w].stage = "finish" /\ chat[w].cause \in Causes /\ UNCHANGED messages
      BY <1>0, <1>8 DEF FinishCall, ChatsOK
  <2>2. CASE /\ IF LiveCall(chat[w].call)
                THEN FinishModelCall(chat[w].call, chat[w].cause)
                ELSE UNCHANGED calls
             /\ Goto(w, "done")
             /\ NoFailure
    <3>1. /\ chat'[w].stage = "done"
          /\ chat'[w].call = chat[w].call
          /\ \A v \in Procs \ {w} : chat'[v] = chat[v]
        BY <1>0, <2>2, ChatMoves
    <3>2. \A k : LiveCall(k)' => LiveCall(k) /\ k # chat[w].call
      <4>1. CASE LiveCall(chat[w].call)
          BY <1>0, <1>1, <2>1, <2>2, <4>1, LiveAfterFinish
      <4>2. CASE ~LiveCall(chat[w].call)
          BY <1>1, <2>1, <2>2, <4>2 DEF LiveCall, Visible
      <4> QED BY <4>1, <4>2
    <3>3. Doomed' \subseteq Doomed
        BY <3>1, <3>2 DEF Doomed, LiveCall
    <3> QED BY <1>0, <1>1, <1>2, <2>2, <3>1, <3>3, DoomedKept, Counted
  <2>3. CASE UNCHANGED calls /\ (\E cause : Abandon(w, cause)) /\ Failure
    <3>1. /\ chat'[w].stage = "done"
          /\ chat'[w].call = chat[w].call
          /\ \A v \in Procs \ {w} : chat'[v] = chat[v]
        BY <1>0, <2>3, ChatMoves
    <3>2. \A k : LiveCall(k)' => LiveCall(k)
        BY <1>1, <2>1, <2>3 DEF LiveCall, Visible
    <3>3. Doomed' \subseteq Doomed \cup {chat[w].call}
        BY <3>1, <3>2 DEF Doomed, LiveCall
    <3> QED BY <1>0, <1>1, <1>2, <2>3, <3>1, <3>3, DoomedGrows DEF Failure
  <2> QED BY <1>8, <2>2, <2>3 DEF FinishCall
<1> QED BY <1>4, <1>5, <1>6, <1>7, <1>8 DEF RunChat, ChatStep

\* Ending the chat of a worker, wherever the worker goes.
LEMMA NoChatPlace ==
  ASSUME ChatPlace, NEW w \in Workers, chat'[w] = NoChat,
         \A v \in Workers \ {w} : chat'[v] = chat[v] /\ worker'[v] = worker[v]
  PROVE  ChatPlace'
<1>1. chat'[w].call = None
    BY NoChatHasNoCall
<1>2. \A v \in Workers \ {w} : /\ worker'[v].pc # "chat" => chat'[v] = NoChat
                               /\ chat'[v].stage \in {"off", "start"} => chat'[v].call = None
    BY DEF ChatPlace
<1> QED BY <1>1, <1>2 DEF ChatPlace

\* A step after which no more calls are running, and which leaves the chats alone.
LEMMA DoomedAside ==
  ASSUME TypeOK, TypeOK', DoomedInv, UNCHANGED chat, \A k : LiveCall(k)' => LiveCall(k),
         DOMAIN calls' = DOMAIN calls, Failure \/ NoFailure, outages' >= outages,
         \A w \in Workers : worker[w].pc = "chat" => worker'[w].pc = "chat"
  PROVE  DoomedInv'
<1>1. Doomed' \subseteq Doomed
    BY DEF Doomed
<1>2. ChatPlace'
    BY DEF DoomedInv, ChatPlace
<1> QED BY <1>1, <1>2, DoomedKept, Counted

LEMMA DoomedStep == JobInv /\ DoomedInv /\ [Next]_vars => DoomedInv'
<1> SUFFICES ASSUME JobInv, DoomedInv, [Next]_vars
             PROVE  DoomedInv'
    OBVIOUS
<1>0. /\ TypeOK /\ TypeOK' /\ StoreTypeOK /\ RequestsStored /\ ChatPlace /\ WorkersOK
      /\ chat \in [Workers -> ChatRecord] /\ Procs = Workers
      /\ failures \in Nat /\ outages \in Nat /\ outages + 1 >= outages
      /\ None \notin DOMAIN calls
    BY InvStep, JobRequestsStored, CallRows
       DEF JobInv, TypeOK, ChatTypeOK, ChatsOK, JobTypeOK, BrokerOK, DoomedInv, None
<1>1. UNCHANGED <<convs, messages, calls>> => \A k : LiveCall(k)' => LiveCall(k)
    BY DEF LiveCall, Visible
<1>2. ASSUME NEW j \in Jobs, InsertJob(j) \/ Publish(j)
      PROVE  DoomedInv'
    BY <1>0, <1>1, <1>2, DoomedAside
       DEF InsertJob, Publish, chatVars, storeVars, budgets, NoFailure
\* Steps of one worker, not at its chat, that begin or end none.
<1>3. ASSUME NEW w \in Workers, ~At(w, "chat"), UNCHANGED chat,
             \A v \in Workers \ {w} : worker'[v] = worker[v],
             \A k : LiveCall(k)' => LiveCall(k), DOMAIN calls' = DOMAIN calls,
             Failure \/ NoFailure, outages' >= outages
      PROVE  DoomedInv'
    BY <1>0, <1>3, DoomedAside DEF At
<1>4. ASSUME NEW w \in Workers, Deliver(w) \/ Claim(w) \/ Complete(w) \/ Retry(w) \/ Fail(w)
                                \/ Ack(w) \/ Nack(w)
      PROVE  DoomedInv'
  <2>1. ~At(w, "chat") /\ UNCHANGED <<chat, convs, messages, calls>> /\ (Failure \/ NoFailure)
      BY <1>4 DEF Deliver, Claim, Complete, Retry, Fail, Ack, Nack, At, chatVars, storeVars,
                  NoFailure
  <2>2. outages' >= outages
      BY <1>0, <1>4 DEF Deliver, Claim, Complete, Retry, Fail, Ack, Nack, budgets, Outage, NoOutage
  <2>3. \A v \in Workers \ {w} : worker'[v] = worker[v]
      BY <1>0, <1>4, AttemptFailedKeeps
         DEF Deliver, Claim, Complete, Retry, Fail, Ack, Nack, GotoPc, WorkersOK
  <2> QED BY <1>1, <1>3, <2>1, <2>2, <2>3
<1>5. ASSUME NEW w \in Workers, Ensure(w)
      PROVE  DoomedInv'
  <2>1. /\ ~At(w, "chat") /\ UNCHANGED <<chat, convs, calls>> /\ (Failure \/ NoFailure)
        /\ outages' = outages
      BY <1>5 DEF Ensure, At, budgets
  <2>2. \A v \in Workers \ {w} : worker'[v] = worker[v]
      BY <1>0, <1>5, AttemptFailedKeeps, GotoKeeps DEF Ensure
  <2>3. \A k : LiveCall(k)' => LiveCall(k)
    <3>1. CASE UNCHANGED messages
        BY <1>1, <2>1, <3>1
    <3>2. ASSUME NEW j \in Jobs, InsertMessage(ConvOf[j], "user", j)
          PROVE  \A k : LiveCall(k)' => LiveCall(k)
      <4>1. ConvOf[j] \in Convs /\ "user" \in Roles /\ j \in Topics
          BY DEF Roles
      <4> QED BY <1>0, <2>1, <3>2, <4>1, LiveAfterMessage
    <3>3. worker[w].job \in Jobs
        BY <1>0, <1>5 DEF Ensure, At, WorkersOK
    <3> QED BY <1>5, <3>1, <3>2, <3>3 DEF Ensure, EnsureChatJobRequestMessage
  <2> QED BY <1>0, <1>3, <2>1, <2>2, <2>3
<1>6. ASSUME NEW w \in Workers, FindReply(w)
      PROVE  DoomedInv'
  <2>1. /\ worker[w].pc = "find" /\ UNCHANGED <<convs, messages, calls>>
        /\ (Failure \/ NoFailure) /\ outages' = outages
      BY <1>6 DEF FindReply, At, budgets, storeVars
  <2>2. \A v \in Workers \ {w} : worker'[v] = worker[v]
      BY <1>0, <1>6, AttemptFailedKeeps, GotoKeeps, HasReplyKeeps DEF FindReply
  <2>3. CASE UNCHANGED chat
      BY <1>0, <1>1, <1>3, <2>1, <2>2, <2>3 DEF At
  <2>4. CASE GotoPc(w, "chat") /\ BeginChat(w, jobs[worker[w].job].request)
    <3>1. /\ chat'[w].stage = "start" /\ chat'[w].call = None
          /\ \A v \in Workers \ {w} : chat'[v] = chat[v]
        BY <1>0, <2>4 DEF BeginChat, NoChat
    <3>2. chat[w].call = None
      <4>1. chat[w] = NoChat
          BY <1>0, <2>1 DEF ChatPlace
      <4> QED BY <4>1, NoChatHasNoCall
    <3>3. Doomed' \subseteq Doomed
        BY <1>0, <1>1, <2>1, <3>1, <3>2 DEF Doomed
    <3>4. worker'[w].pc = "chat"
        BY <1>0, <2>4, GotoKeeps
    <3>5. ChatPlace'
        BY <1>0, <2>2, <3>1, <3>4 DEF ChatPlace
    <3> QED BY <1>0, <2>1, <3>3, <3>5, DoomedKept, Counted
  <2> QED BY <1>6, <2>3, <2>4 DEF FindReply
<1>7. ASSUME NEW w \in Workers, ChatReturns(w)
      PROVE  DoomedInv'
  <2>1. /\ UNCHANGED <<convs, messages, calls, failures, outages>>
        /\ chat[w].stage = "done"
        /\ chat' = [chat EXCEPT ![w] = NoChat]
      BY <1>7 DEF ChatReturns, storeVars, budgets
  <2>2. chat'[w] = NoChat /\ \A v \in Workers \ {w} : chat'[v] = chat[v]
      BY <1>0, <2>1
  <2>3. \A v \in Workers \ {w} : worker'[v] = worker[v]
      BY <1>0, <1>7, AttemptFailedKeeps, HasReplyKeeps DEF ChatReturns
  <2>4. Doomed' \subseteq Doomed
      BY <1>0, <1>1, <2>1, <2>2 DEF Doomed
  <2>5. ChatPlace'
      BY <1>0, <2>2, <2>3, NoChatPlace
  <2> QED BY <1>0, <2>1, <2>4, <2>5, DoomedKept
<1>8. ASSUME NEW w \in Workers, Crash(w)
      PROVE  DoomedInv'
  <2>1. /\ UNCHANGED <<convs, messages, calls, failures>>
        /\ outages' = outages + 1
        /\ chat' = [chat EXCEPT ![w] = NoChat]
        /\ worker' = [worker EXCEPT ![w] = Idle]
      BY <1>8 DEF Crash, storeVars, Outage
  <2>2. /\ chat'[w] = NoChat /\ \A v \in Workers \ {w} : chat'[v] = chat[v]
        /\ \A v \in Workers \ {w} : worker'[v] = worker[v]
      BY <1>0, <2>1 DEF WorkersOK
  <2>3. Doomed' \subseteq Doomed \cup {chat[w].call}
      BY <1>0, <1>1, <2>1, <2>2 DEF Doomed
  <2>4. ChatPlace'
      BY <1>0, <2>2, NoChatPlace
  <2> QED BY <1>0, <2>1, <2>3, <2>4, DoomedGrows
<1>9. ASSUME NEW w \in Workers, LoseChannel(w)
      PROVE  DoomedInv'
    BY <1>0, <1>1, <1>9, DoomedAside DEF LoseChannel, chatVars, storeVars, NoFailure
<1>10. ASSUME NEW c \in Convs, DeleteConversation(c)
       PROVE  DoomedInv'
  <2>1. /\ UNCHANGED <<messages, calls, chat, failures, outages, worker>>
        /\ convs' \subseteq convs
      BY <1>10 DEF DeleteConversation, DeleteConversationRow, chatVars, jobVars, budgets
  <2>2. \A k : LiveCall(k)' => LiveCall(k)
      BY <2>1 DEF LiveCall, Visible
  <2> QED BY <1>0, <2>1, <2>2, DoomedAside DEF NoFailure
<1>11. ASSUME NEW c \in Convs, PostMessage(c)
       PROVE  DoomedInv'
  <2>1. UNCHANGED <<convs, calls, chat, failures, outages, worker>>
      BY <1>11 DEF PostMessage, chatVars, jobVars, budgets
  <2>2. "user" \in Roles
      BY DEF Roles
  <2>3. \A k : LiveCall(k)' => LiveCall(k)
      BY <1>0, <1>11, <2>1, <2>2, LiveAfterMessage DEF PostMessage
  <2> QED BY <1>0, <2>1, <2>3, DoomedAside DEF NoFailure
<1>12. CASE UNCHANGED vars
    BY <1>0, <1>1, <1>12, DoomedAside DEF vars, storeVars, chatVars, jobVars, budgets, NoFailure
<1>13. ASSUME NEW w \in Workers, RunChat(w)
       PROVE  DoomedInv'
    BY <1>0, <1>13, DoomedRunChat
<1> QED
    BY <1>2, <1>4, <1>5, <1>6, <1>7, <1>8, <1>9, <1>10, <1>11, <1>12, <1>13 DEF Next, Process

\* With any number of workers and calls: a call that stays running for ever is the price of
\* a database call that failed or of a process that died.
THEOREM OrphansAreFew == Spec => []OrphansBounded
<1>1. Init => JobInv /\ DoomedInv
    BY TypeInit, ClaimInit, WorkInit, DoomedInit DEF JobInv
<1>2. JobInv /\ DoomedInv /\ [Next]_vars => (JobInv /\ DoomedInv)'
    BY InvStep, WorkStep, DoomedStep DEF JobInv
<1>3. JobInv /\ DoomedInv => OrphansBounded
  <2> SUFFICES ASSUME JobInv, DoomedInv
               PROVE  OrphansBounded
      OBVIOUS
  <2>1. OrphanCalls \subseteq Doomed
      BY DEF OrphanCalls, Doomed
  <2>2. IsFiniteSet(OrphanCalls) /\ Cardinality(OrphanCalls) <= Cardinality(Doomed)
      BY <2>1, FS_Subset DEF DoomedInv
  <2>3. Cardinality(OrphanCalls) \in Nat /\ Cardinality(Doomed) \in Nat
      BY <2>2, FS_CardinalityType DEF DoomedInv
  <2>4. failures \in Nat /\ outages \in Nat
      BY DEF JobInv, TypeOK, ChatTypeOK, JobTypeOK, BrokerOK
  <2> QED BY <2>2, <2>3, <2>4 DEF DoomedInv, OrphansBounded
<1> QED BY <1>1, <1>2, <1>3, PTL DEF Spec

----------------------------------------------------------------------------
(* Jobs that nobody is going to process.                                   *)

Single == Cardinality(Workers) = 1

\* What worker w is doing for job j is not done by anybody else: its delivery is its own,
\* or comes back to it alone.
Held(w, j) == unacked[w] = j \/ (Single /\ j \in queue)

\* The message of job j is where a claim, or the owner of the row, still needs it.
Safe(j) ==
  /\ jobs[j].status = "pending" =>
       j \in queue \/ \E w \in Workers : unacked[w] = j /\ worker[w].pc \in {"claim", "nack"}
  /\ jobs[j].status = "processing" => \E w \in Workers : Owner(w, j) /\ Held(w, j)
  /\ \A w \in Workers : worker[w].job = j /\ worker[w].pc = "claim" => Held(w, j)

Unsettled(j) == answer[j] = "accepted" /\ jobs[j].status \in {"pending", "processing"}

\* Jobs that are stranded, or will be unless somebody is lucky.
Forsaken == {j \in Jobs : Unsettled(j) /\ ~Safe(j)}

\* The broker holds for a worker what the worker works on, and a job that was not
\* published has never been delivered.
BrokerInv ==
  /\ \A w \in Workers : unacked[w] # NoJob => worker[w].job = unacked[w] /\ worker[w].pc # "idle"
  /\ \A j \in Jobs : answer[j] \in {"none", "publish"} =>
       /\ j \notin queue
       /\ \A w \in Workers : worker[w].job # j
       /\ jobs[j].status \in {"absent", "pending", "deleted"}

ForsakenInv ==
  /\ BrokerInv
  /\ IsFiniteSet(Forsaken)
  /\ Cardinality(Forsaken) <= outages + (IF Single THEN 0 ELSE losses)

LEMMA SingleIsAlone ==
  ASSUME Single, NEW v \in Workers, NEW w \in Workers
  PROVE  v = w
<1>1. \E x : Workers = {x}
    BY FS_Singleton DEF Single
<1> QED BY <1>1

LEMMA ForsakenKept ==
  ASSUME TypeOK, TypeOK', ForsakenInv, BrokerInv', Forsaken' \subseteq Forsaken,
         outages' >= outages, losses' >= losses
  PROVE  ForsakenInv'
<1>1. IsFiniteSet(Forsaken') /\ Cardinality(Forsaken') <= Cardinality(Forsaken)
    BY FS_Subset DEF ForsakenInv
<1>2. Cardinality(Forsaken) \in Nat /\ Cardinality(Forsaken') \in Nat
    BY <1>1, FS_CardinalityType DEF ForsakenInv
<1>3. outages \in Nat /\ outages' \in Nat /\ losses \in Nat /\ losses' \in Nat
    BY DEF TypeOK, JobTypeOK, BrokerOK
<1>4. Single' = Single
    BY DEF Single
<1> QED BY <1>1, <1>2, <1>3, <1>4 DEF ForsakenInv

LEMMA ForsakenGrows ==
  ASSUME TypeOK, TypeOK', ForsakenInv, BrokerInv', NEW j, Forsaken' \subseteq Forsaken \cup {j},
         \/ outages' = outages + 1 /\ losses' = losses
         \/ outages' = outages /\ losses' = losses + 1 /\ ~Single
  PROVE  ForsakenInv'
<1>1. /\ IsFiniteSet(Forsaken \cup {j})
      /\ Cardinality(Forsaken \cup {j}) <= Cardinality(Forsaken) + 1
  <2>1. IsFiniteSet(Forsaken)
      BY DEF ForsakenInv
  <2>2. Cardinality(Forsaken) \in Nat
      BY <2>1, FS_CardinalityType
  <2>3. /\ IsFiniteSet(Forsaken \cup {j})
        /\ Cardinality(Forsaken \cup {j}) =
             IF j \in Forsaken THEN Cardinality(Forsaken) ELSE Cardinality(Forsaken) + 1
      BY <2>1, FS_AddElement
  <2> QED BY <2>2, <2>3
<1>2. IsFiniteSet(Forsaken') /\ Cardinality(Forsaken') <= Cardinality(Forsaken \cup {j})
    BY <1>1, FS_Subset
<1>3. /\ Cardinality(Forsaken) \in Nat /\ Cardinality(Forsaken') \in Nat
      /\ Cardinality(Forsaken \cup {j}) \in Nat
    BY <1>1, <1>2, FS_CardinalityType DEF ForsakenInv
<1>4. outages \in Nat /\ outages' \in Nat /\ losses \in Nat /\ losses' \in Nat
    BY DEF TypeOK, JobTypeOK, BrokerOK
<1>5. Single' = Single
    BY DEF Single
<1> QED BY <1>1, <1>2, <1>3, <1>4, <1>5 DEF ForsakenInv

\* A step of worker w that leaves the status of job j alone: it is safe as long as w keeps
\* what it had, or returns the message to the queue.
LEMMA SafeAside ==
  ASSUME NEW j \in Jobs, Safe(j), NEW w \in Workers,
         \A v \in Workers \ {w} : worker'[v] = worker[v] /\ unacked'[v] = unacked[v],
         jobs'[j].status = jobs[j].status,
         j \in queue => j \in queue',
         Owner(w, j) => Owner(w, j)' /\ unacked'[w] = unacked[w],
         worker'[w].job = j /\ worker'[w].pc = "claim" =>
           worker[w].job = j /\ worker[w].pc = "claim" /\ unacked'[w] = unacked[w],
         unacked[w] = j /\ worker[w].pc \in {"claim", "nack"} =>
           j \in queue' \/ (unacked'[w] = j /\ worker'[w].pc \in {"claim", "nack"})
  PROVE  Safe(j)'
<1>1. \A v \in Workers : unacked'[v] = unacked[v] /\ Held(v, j) => Held(v, j)'
    BY DEF Held, Single
<1>2. jobs'[j].status = "pending" =>
        j \in queue' \/ \E v \in Workers : unacked'[v] = j /\ worker'[v].pc \in {"claim", "nack"}
  <2> SUFFICES ASSUME jobs'[j].status = "pending", j \notin queue'
               PROVE  \E v \in Workers : unacked'[v] = j /\ worker'[v].pc \in {"claim", "nack"}
      OBVIOUS
  <2>1. PICK v \in Workers : unacked[v] = j /\ worker[v].pc \in {"claim", "nack"}
      BY DEF Safe
  <2>2. unacked'[v] = j /\ worker'[v].pc \in {"claim", "nack"}
      BY <2>1
  <2> QED BY <2>2
<1>3. jobs'[j].status = "processing" => \E v \in Workers : Owner(v, j)' /\ Held(v, j)'
  <2> SUFFICES ASSUME jobs'[j].status = "processing"
               PROVE  \E v \in Workers : Owner(v, j)' /\ Held(v, j)'
      OBVIOUS
  <2>1. PICK v \in Workers : Owner(v, j) /\ Held(v, j)
      BY DEF Safe
  <2>2. Owner(v, j)' /\ unacked'[v] = unacked[v]
      BY <2>1 DEF Owner
  <2> QED BY <1>1, <2>1, <2>2
<1>4. \A v \in Workers : worker'[v].job = j /\ worker'[v].pc = "claim" => Held(v, j)'
    BY <1>1 DEF Safe
<1> QED BY <1>2, <1>3, <1>4 DEF Safe

\* A job that has nothing to do with what worker w does.
LEMMA SafeElsewhere ==
  ASSUME NEW j \in Jobs, NEW w \in Workers, BrokerInv, worker[w].job # j,
         worker[w].pc # "idle", worker'[w].job # j,
         \A v \in Workers \ {w} : worker'[v] = worker[v] /\ unacked'[v] = unacked[v],
         jobs'[j] = jobs[j], answer' = answer,
         j \in queue => j \in queue', j \in Forsaken'
  PROVE  j \in Forsaken
<1>1. unacked[w] # j
    BY DEF BrokerInv
<1>2. Safe(j) => Safe(j)'
    BY <1>1, SafeAside DEF Owner
<1> QED BY <1>2 DEF Forsaken, Unsettled

LEMMA ForsakenInit == Init => ForsakenInv
<1> SUFFICES ASSUME Init
             PROVE  ForsakenInv
    OBVIOUS
<1>1. /\ answer = [j \in Jobs |-> "none"] /\ queue = {}
      /\ unacked = [w \in Workers |-> NoJob] /\ worker = [w \in Workers |-> Idle]
      /\ outages = 0 /\ losses = 0
    BY DEF Init
<1>2. \A j \in Jobs : jobs[j].status = "absent"
    BY TypeInit, ClaimInit, <1>1 DEF ClaimInv, AttemptsLeft
<1>3. Forsaken = {}
    BY <1>1 DEF Forsaken, Unsettled
<1>4. \A w \in Workers : worker[w].job = NoJob
    BY <1>1 DEF Idle
<1>5. BrokerInv
    BY <1>1, <1>2, <1>4 DEF BrokerInv
<1> QED BY <1>1, <1>3, <1>5, FS_EmptySet DEF ForsakenInv

\* What the steps between a claim and its acknowledgement have in common.
LEMMA WorkerMoves ==
  ASSUME TypeOK, NEW w \in Workers,
         \/ Claim(w) \/ Ensure(w) \/ FindReply(w) \/ RunChat(w) \/ ChatReturns(w)
         \/ Complete(w) \/ Retry(w) \/ Fail(w)
  PROVE  /\ worker[w].job \in Jobs /\ worker[w].pc # "idle"
         /\ worker'[w].job = worker[w].job /\ worker'[w].pc \notin {"idle", "claim"}
         /\ \A v \in Workers \ {w} : worker'[v] = worker[v]
         /\ \A i \in Jobs \ {worker[w].job} : jobs'[i] = jobs[i]
         /\ UNCHANGED <<answer, queue, unacked>>
<1>0. WorkersOK /\ jobs \in [Jobs -> Job]
    BY DEF TypeOK, JobTypeOK, StoreTypeOK
<1>1. worker[w].pc \notin {"idle"} /\ worker[w].job \in Jobs
    BY <1>0 DEF Claim, Ensure, FindReply, RunChat, ChatReturns, Complete, Retry, Fail, At, WorkersOK
<1>2. UNCHANGED <<answer, queue, unacked>>
    BY DEF Claim, Ensure, FindReply, RunChat, ChatReturns, Complete, Retry, Fail, jobVars
<1>3. /\ worker'[w].job = worker[w].job /\ worker'[w].pc \notin {"idle", "claim"}
      /\ \A v \in Workers \ {w} : worker'[v] = worker[v]
  <2>1. CASE Claim(w)
    <3>1. CASE worker' = [worker EXCEPT ![w].pc = "ensure",
                                        ![w].attempt = jobs[worker[w].job].attempts + 1]
      <4> DEFINE r == [worker[w] EXCEPT !.pc = "ensure",
                                        !.attempt = jobs[worker[w].job].attempts + 1]
      <4>1. r.pc = "ensure" /\ r.job = worker[w].job
          BY <1>0 DEF WorkersOK, WorkerRecord
      <4>2. worker'[w] = r /\ \A v \in Workers \ {w} : worker'[v] = worker[v]
          BY <1>0, <3>1 DEF WorkersOK
      <4> QED BY <4>1, <4>2
    <3>2. CASE GotoPc(w, "ack") \/ GotoPc(w, "nack")
        BY <1>0, <3>2, GotoKeeps
    <3> QED BY <2>1, <3>1, <3>2 DEF Claim
  <2>2. CASE Ensure(w)
      BY <1>0, <2>2, AttemptFailedKeeps, GotoKeeps DEF Ensure
  <2>3. CASE FindReply(w)
      BY <1>0, <2>3, AttemptFailedKeeps, GotoKeeps, HasReplyKeeps DEF FindReply
  <2>4. CASE RunChat(w)
      BY <1>0, <2>4 DEF RunChat, At, jobVars
  <2>5. CASE ChatReturns(w)
      BY <1>0, <2>5, AttemptFailedKeeps, HasReplyKeeps DEF ChatReturns
  <2>6. CASE Complete(w)
      BY <1>0, <2>6, AttemptFailedKeeps, GotoKeeps DEF Complete
  <2>7. CASE Retry(w) \/ Fail(w)
      BY <1>0, <2>7, GotoKeeps DEF Retry, Fail
  <2> QED BY <2>1, <2>2, <2>3, <2>4, <2>5, <2>6, <2>7
<1>4. \A i \in Jobs \ {worker[w].job} : jobs'[i] = jobs[i]
  <2>1. CASE UNCHANGED jobs
      BY <2>1
  <2>2. CASE Claim(w)
      BY <1>0, <1>1, <2>2 DEF Claim, ClaimPendingChatJob
  <2>3. CASE Ensure(w)
      BY <1>0, <1>1, <2>3 DEF Ensure, EnsureChatJobRequestMessage
  <2>4. CASE Complete(w)
      BY <1>0, <1>1, <2>4 DEF Complete, CompleteChatJob
  <2>5. CASE Retry(w)
      BY <1>0, <1>1, <2>5 DEF Retry, RetryChatJob
  <2>6. CASE Fail(w)
      BY <1>0, <1>1, <2>6 DEF Fail, FailChatJob
  <2>7. FindReply(w) \/ ChatReturns(w) \/ RunChat(w) => UNCHANGED jobs
      BY DEF FindReply, ChatReturns, RunChat, ChatStep, StartModelCall, LoadHistory, Generate,
             SaveReply, FinishCall, storeVars
  <2> QED BY <2>1, <2>2, <2>3, <2>4, <2>5, <2>6, <2>7
<1> QED BY <1>1, <1>2, <1>3, <1>4

\* A worker that goes on with its job, or rests, with its delivery or without.
LEMMA BrokerWorks ==
  ASSUME BrokerInv, NEW w \in Workers, UNCHANGED answer,
         \A v \in Workers \ {w} : worker'[v] = worker[v] /\ unacked'[v] = unacked[v],
         \/ /\ worker'[w].job = worker[w].job /\ worker'[w].pc # "idle"
            /\ unacked'[w] \in {unacked[w], NoJob}
         \/ worker'[w] = Idle /\ unacked'[w] = NoJob,
         queue' \subseteq queue \cup ({unacked[w]} \ {NoJob}),
         \A i \in Jobs \ {worker[w].job} : jobs'[i].status = jobs[i].status
  PROVE  BrokerInv'
<1>1. \A v \in Workers : unacked'[v] # NoJob =>
                           worker'[v].job = unacked'[v] /\ worker'[v].pc # "idle"
    BY DEF BrokerInv
<1>2. ASSUME NEW i \in Jobs, answer'[i] \in {"none", "publish"}
      PROVE  /\ i \notin queue'
             /\ \A v \in Workers : worker'[v].job # i
             /\ jobs'[i].status \in {"absent", "pending", "deleted"}
  <2>1. /\ i \notin queue /\ \A v \in Workers : worker[v].job # i
        /\ jobs[i].status \in {"absent", "pending", "deleted"}
      BY <1>2 DEF BrokerInv
  <2>2. i \notin queue'
      BY <2>1 DEF BrokerInv
  <2>3. Idle.job # i
      BY DEF Idle
  <2> QED BY <2>1, <2>2, <2>3
<1> QED BY <1>1, <1>2 DEF BrokerInv

\* What worker w does between a claim and its acknowledgement endangers its own job only.
LEMMA ForsakenAtJob ==
  ASSUME TypeOK, TypeOK', ForsakenInv, NEW w \in Workers,
         \/ Claim(w) \/ Ensure(w) \/ FindReply(w) \/ RunChat(w) \/ ChatReturns(w)
         \/ Complete(w) \/ Retry(w) \/ Fail(w),
         NEW j, j = worker[w].job,
         \/ (j \in Forsaken' => j \in Forsaken) /\ UNCHANGED <<outages, losses>>
         \/ Outage
  PROVE  ForsakenInv'
<1>0. /\ BrokerInv /\ outages \in Nat /\ losses \in Nat /\ j \in Jobs
      /\ outages >= outages /\ losses >= losses
    BY WorkerMoves DEF ForsakenInv, TypeOK, JobTypeOK, BrokerOK
<1>1. BrokerInv'
    BY <1>0, WorkerMoves, BrokerWorks
<1>2. \A i \in Jobs \ {j} : i \in Forsaken' => i \in Forsaken
    BY <1>0, WorkerMoves, SafeElsewhere
<1>3. Forsaken' \subseteq Forsaken \cup {j}
    BY <1>2 DEF Forsaken
<1>4. CASE (j \in Forsaken' => j \in Forsaken) /\ UNCHANGED <<outages, losses>>
  <2>1. Forsaken' \subseteq Forsaken
      BY <1>3, <1>4
  <2> QED BY <1>0, <1>1, <1>4, <2>1, ForsakenKept
<1>5. CASE Outage
    BY <1>1, <1>3, <1>5, ForsakenGrows DEF Outage
<1> QED BY <1>4, <1>5

\* An owner that goes on owning.
LEMMA ForsakenWorks ==
  ASSUME TypeOK, TypeOK', ForsakenInv, NEW w \in Workers,
         \/ Ensure(w) \/ FindReply(w) \/ RunChat(w) \/ ChatReturns(w) \/ Complete(w),
         NEW j, j = worker[w].job, jobs'[j].status = jobs[j].status, worker'[w].pc \in Owning,
         UNCHANGED <<outages, losses>>
  PROVE  ForsakenInv'
<1>0. worker[w].pc \in Owning
    BY DEF Ensure, FindReply, RunChat, ChatReturns, Complete, At, Owning
<1>1. Owner(w, j) /\ Owner(w, j)' /\ j \in Jobs
    BY <1>0, WorkerMoves DEF Owner
<1>2. Safe(j) => Safe(j)'
    BY <1>0, <1>1, WorkerMoves, SafeAside DEF Owning
<1>3. j \in Forsaken' => j \in Forsaken
    BY <1>2, WorkerMoves DEF Forsaken, Unsettled
<1> QED BY <1>3, ForsakenAtJob

LEMMA ForsakenStep == TypeOK /\ ClaimInv /\ ForsakenInv /\ [Next]_vars => ForsakenInv'
<1> SUFFICES ASSUME TypeOK, ClaimInv, ForsakenInv, [Next]_vars
             PROVE  ForsakenInv'
    OBVIOUS
<1>0. /\ TypeOK' /\ BrokerInv /\ WorkersOK /\ BrokerOK /\ jobs \in [Jobs -> Job]
      /\ outages \in Nat /\ losses \in Nat
      /\ outages >= outages /\ losses >= losses
    BY InvStep DEF ForsakenInv, TypeOK, JobTypeOK, BrokerOK, StoreTypeOK
<1>1. ASSUME NEW j \in Jobs, InsertJob(j)
      PROVE  ForsakenInv'
  <2>1. /\ answer[j] = "none" /\ answer'[j] \in {"publish", "error"}
        /\ \A i \in Jobs \ {j} : answer'[i] = answer[i]
        /\ UNCHANGED <<queue, unacked, worker, outages, losses>>
      BY <1>0, <1>1 DEF InsertJob, Answers, BrokerOK, budgets
  <2>2. /\ jobs'[j].status \in {jobs[j].status, "pending"}
        /\ \A i \in Jobs \ {j} : jobs'[i] = jobs[i]
      BY <1>0, <1>1 DEF InsertJob, InsertPendingChatJob, Job
  <2>3. BrokerInv'
      BY <1>0, <2>1, <2>2 DEF BrokerInv
  <2>4. \A i \in Jobs \ {j} : Safe(i) => Safe(i)'
      BY <2>1, <2>2 DEF Safe, Owner, Held, Single
  <2>5. Forsaken' \subseteq Forsaken
      BY <2>1, <2>2, <2>4 DEF Forsaken, Unsettled
  <2> QED BY <1>0, <2>1, <2>3, <2>5, ForsakenKept
<1>2. ASSUME NEW j \in Jobs, Publish(j)
      PROVE  ForsakenInv'
  <2>1. /\ answer[j] = "publish" /\ answer'[j] \in {"accepted", "error"}
        /\ answer'[j] = "accepted" => j \in queue'
        /\ \A i \in Jobs \ {j} : answer'[i] = answer[i]
        /\ queue \subseteq queue' /\ queue' \subseteq queue \cup {j}
        /\ UNCHANGED <<jobs, unacked, worker, outages, losses>>
      BY <1>0, <1>2 DEF Publish, Answers, BrokerOK, budgets, storeVars
  <2>2. BrokerInv'
      BY <1>0, <2>1 DEF BrokerInv
  <2>3. \A i \in Jobs \ {j} : Safe(i) => Safe(i)'
      BY <2>1 DEF Safe, Owner, Held, Single
  <2>4. jobs[j].status # "processing" /\ \A v \in Workers : worker[v].job # j
      BY <1>0, <2>1 DEF BrokerInv
  <2>5. answer'[j] = "accepted" => Safe(j)'
      BY <2>1, <2>4 DEF Safe
  <2>6. Forsaken' \subseteq Forsaken
      BY <2>1, <2>3, <2>5 DEF Forsaken, Unsettled
  <2> QED BY <1>0, <2>1, <2>2, <2>6, ForsakenKept
<1>3. ASSUME NEW w \in Workers, Deliver(w)
      PROVE  ForsakenInv'
  <2>1. PICK j \in queue : /\ queue' = queue \ {j}
                           /\ unacked' = [unacked EXCEPT ![w] = j]
                           /\ worker' = [worker EXCEPT ![w].pc = "claim", ![w].job = j]
      BY <1>3 DEF Deliver
  <2>2. /\ worker[w].pc = "idle" /\ j \in Jobs
        /\ UNCHANGED <<jobs, answer, outages, losses>>
      BY <1>0, <1>3 DEF Deliver, At, BrokerOK, budgets, storeVars
  <2>3. /\ worker'[w].pc = "claim" /\ worker'[w].job = j
        /\ \A v \in Workers \ {w} : worker'[v] = worker[v]
    <3> DEFINE r == [worker[w] EXCEPT !.pc = "claim", !.job = j]
    <3>1. r.pc = "claim" /\ r.job = j
        BY <1>0 DEF WorkersOK, WorkerRecord
    <3>2. worker'[w] = r /\ \A v \in Workers \ {w} : worker'[v] = worker[v]
        BY <1>0, <2>1 DEF WorkersOK
    <3> QED BY <3>1, <3>2
  <2>4. unacked'[w] = j /\ \A v \in Workers \ {w} : unacked'[v] = unacked[v]
      BY <1>0, <2>1 DEF BrokerOK
  <2>5. BrokerInv'
    <3>1. answer[j] \notin {"none", "publish"}
        BY <1>0, <2>2 DEF BrokerInv
    <3>2. \A v \in Workers : unacked'[v] # NoJob =>
                               worker'[v].job = unacked'[v] /\ worker'[v].pc # "idle"
        BY <1>0, <2>3, <2>4 DEF BrokerInv
    <3>3. ASSUME NEW i \in Jobs, answer'[i] \in {"none", "publish"}
          PROVE  /\ i \notin queue'
                 /\ \A v \in Workers : worker'[v].job # i
                 /\ jobs'[i].status \in {"absent", "pending", "deleted"}
      <4>1. i # j /\ answer[i] \in {"none", "publish"}
          BY <2>2, <3>1, <3>3
      <4>2. /\ i \notin queue /\ \A v \in Workers : worker[v].job # i
            /\ jobs[i].status \in {"absent", "pending", "deleted"}
          BY <1>0, <4>1 DEF BrokerInv
      <4>3. i \notin queue'
          BY <2>1, <4>2
      <4>4. \A v \in Workers : worker'[v].job # i
          BY <2>3, <4>1, <4>2
      <4> QED BY <2>2, <4>2, <4>3, <4>4
    <3> QED BY <3>2, <3>3 DEF BrokerInv
  <2>6. \A i \in Jobs \ {j} : Safe(i) => Safe(i)'
      BY <2>1, <2>2, <2>3, <2>4, SafeAside DEF Owner, Owning
  <2>7. Safe(j) => Safe(j)'
    <3> SUFFICES ASSUME Safe(j)
                 PROVE  Safe(j)'
        OBVIOUS
    <3>1. jobs'[j].status = "pending" =>
            \E v \in Workers : unacked'[v] = j /\ worker'[v].pc \in {"claim", "nack"}
        BY <2>3, <2>4
    \* Whoever else works on j has the message itself: with one worker there is nobody else.
    <3>2. \A v \in Workers : v # w /\ Held(v, j) => Held(v, j)'
      <4>1. \A v \in Workers : v # w /\ Held(v, j) => unacked[v] = j
          BY SingleIsAlone DEF Held
      <4> QED BY <2>4, <4>1 DEF Held, Single
    <3>3. \A v \in Workers : Owner(v, j) => v # w /\ Owner(v, j)'
        BY <2>2, <2>3 DEF Owner, Owning
    <3>4. jobs'[j].status = "processing" => \E v \in Workers : Owner(v, j)' /\ Held(v, j)'
        BY <2>2, <3>2, <3>3 DEF Safe
    <3>5. Held(w, j)'
        BY <2>4 DEF Held, Single
    <3>6. \A v \in Workers : worker'[v].job = j /\ worker'[v].pc = "claim" => Held(v, j)'
        BY <2>3, <3>2, <3>5 DEF Safe
    <3> QED BY <3>1, <3>4, <3>6 DEF Safe
  <2>8. Forsaken' \subseteq Forsaken
      BY <2>2, <2>6, <2>7 DEF Forsaken, Unsettled
  <2> QED BY <1>0, <2>2, <2>5, <2>8, ForsakenKept
<1>4. ASSUME NEW w \in Workers, Claim(w)
      PROVE  ForsakenInv'
  <2>0. PICK j : j = worker[w].job
      OBVIOUS
  <2>1. /\ j \in Jobs /\ worker[w].pc = "claim" /\ worker'[w].job = j
        /\ \A v \in Workers \ {w} : worker'[v] = worker[v]
        /\ UNCHANGED <<answer, queue, unacked>>
      BY <1>0, <1>4, <2>0, WorkerMoves DEF Claim, At
  <2>2. CASE NoOutage /\ ClaimPendingChatJob(j) /\
             worker' = [worker EXCEPT ![w].pc = "ensure", ![w].attempt = jobs[j].attempts + 1]
    <3> DEFINE r == [worker[w] EXCEPT !.pc = "ensure", !.attempt = jobs[j].attempts + 1]
    <3>1. worker'[w] = r /\ r.pc = "ensure"
        BY <1>0, <2>2 DEF WorkersOK, WorkerRecord
    <3>2. jobs'[j].status = "processing"
        BY <1>0, <2>1, <2>2 DEF ClaimPendingChatJob, Job
    <3>3. Owner(w, j)'
        BY <2>1, <3>1 DEF Owner, Owning
    <3>4. Safe(j) => Held(w, j)'
        BY <2>0, <2>1 DEF Safe, Held, Single
    <3>5. \A v \in Workers : worker'[v].job = j /\ worker'[v].pc = "claim" =>
                               v # w /\ worker[v].job = j /\ worker[v].pc = "claim"
        BY <2>1, <3>1
    <3>6. Safe(j) => Safe(j)'
        BY <2>1, <3>2, <3>3, <3>4, <3>5 DEF Safe, Held, Single
    <3>7. j \in Forsaken' => j \in Forsaken
      <4>0. worker'[w].pc = "ensure"
          BY <3>1
      <4>1. ~GotoPc(w, "ack") /\ ~GotoPc(w, "nack")
        <5>1. GotoPc(w, "ack") => worker'[w].pc = "ack"
            BY <1>0, GotoKeeps
        <5>2. GotoPc(w, "nack") => worker'[w].pc = "nack"
            BY <1>0, GotoKeeps
        <5> QED BY <4>0, <5>1, <5>2
      <4>2. Claimable(j)
          BY <1>4, <2>0, <4>1 DEF Claim
      <4> QED BY <2>1, <3>6, <4>2 DEF Forsaken, Unsettled, Claimable
    <3> QED BY <1>0, <1>4, <2>0, <2>2, <3>7, ForsakenAtJob DEF NoOutage, budgets
  <2>3. CASE NoOutage /\ UNCHANGED jobs /\ ((GotoPc(w, "ack") /\ ~Claimable(j)) \/ GotoPc(w, "nack"))
    <3>1. worker'[w].pc \in {"ack", "nack"} /\ (worker'[w].pc = "ack" => ~Claimable(j))
        BY <1>0, <2>3, GotoKeeps
    <3>2. Safe(j) => Safe(j)'
      <4>1. CASE worker'[w].pc = "nack"
          BY <2>1, <2>3, <4>1, SafeAside DEF Owner, Owning
      <4>2. CASE worker'[w].pc = "ack"
        <5>1. jobs'[j].status # "pending"
            BY <2>3, <3>1, <4>2 DEF Claimable
        <5>2. \A v \in Workers : Owner(v, j) => Owner(v, j)'
            BY <2>1 DEF Owner, Owning
        <5>3. \A v \in Workers : Held(v, j) => Held(v, j)'
            BY <2>1 DEF Held, Single
        <5>4. \A v \in Workers : worker'[v].job = j /\ worker'[v].pc = "claim" =>
                                   worker[v].job = j /\ worker[v].pc = "claim"
            BY <2>1, <4>2
        <5> QED BY <2>3, <5>1, <5>2, <5>3, <5>4 DEF Safe
      <4> QED BY <3>1, <4>1, <4>2
    <3>3. j \in Forsaken' => j \in Forsaken
        BY <2>1, <2>3, <3>2 DEF Forsaken, Unsettled
    <3> QED BY <1>0, <1>4, <2>0, <2>3, <3>3, ForsakenAtJob DEF NoOutage, budgets
  <2>4. CASE Outage
      BY <1>0, <1>4, <2>0, <2>4, ForsakenAtJob
  <2> QED BY <1>4, <2>0, <2>2, <2>3, <2>4 DEF Claim
<1>5. ASSUME NEW w \in Workers, Ensure(w) \/ FindReply(w) \/ RunChat(w) \/ ChatReturns(w)
      PROVE  ForsakenInv'
  <2>0. PICK j \in Jobs : j = worker[w].job
      BY <1>5, WorkerMoves
  <2>1. UNCHANGED <<outages, losses>>
      BY <1>5 DEF Ensure, FindReply, RunChat, ChatReturns, jobVars, budgets
  <2>2. jobs'[j].status = jobs[j].status
    <3>1. CASE UNCHANGED jobs
        BY <3>1
    <3>2. CASE Ensure(w) /\ EnsureChatJobRequestMessage(j)
        BY <1>0, <3>2 DEF EnsureChatJobRequestMessage, Job
    <3>3. FindReply(w) \/ ChatReturns(w) \/ RunChat(w) => UNCHANGED jobs
        BY DEF FindReply, ChatReturns, RunChat, ChatStep, StartModelCall, LoadHistory, Generate,
               SaveReply, FinishCall, storeVars
    <3> QED BY <1>5, <2>0, <3>1, <3>2, <3>3 DEF Ensure
  <2>3. worker'[w].pc \in Owning
    <3>1. CASE RunChat(w)
        BY <3>1 DEF RunChat, At, Owning, jobVars
    <3>2. CASE Ensure(w)
        BY <1>0, <3>2, AttemptFailedKeeps, GotoKeeps DEF Ensure, Owning
    <3>3. CASE FindReply(w)
        BY <1>0, <3>3, AttemptFailedKeeps, GotoKeeps, HasReplyKeeps DEF FindReply, Owning
    <3>4. CASE ChatReturns(w)
        BY <1>0, <3>4, AttemptFailedKeeps, HasReplyKeeps DEF ChatReturns, Owning
    <3> QED BY <1>5, <3>1, <3>2, <3>3, <3>4
  <2> QED BY <1>0, <1>5, <2>0, <2>1, <2>2, <2>3, ForsakenWorks
<1>6. ASSUME NEW w \in Workers, Complete(w)
      PROVE  ForsakenInv'
  <2>0. PICK j \in Jobs : j = worker[w].job
      BY <1>6, WorkerMoves
  <2>1. UNCHANGED <<outages, losses>>
      BY <1>6 DEF Complete, budgets
  <2>2. CASE CompleteChatJob(j, worker[w].reply)
    <3>1. jobs'[j].status = "completed"
        BY <1>0, <2>2 DEF CompleteChatJob, Job
    <3>2. j \notin Forsaken'
        BY <3>1 DEF Forsaken, Unsettled
    <3> QED BY <1>0, <1>6, <2>0, <2>1, <3>2, ForsakenAtJob
  <2>3. CASE UNCHANGED jobs /\ AttemptFailed(w, "complete_failed")
    <3>1. worker'[w].pc \in Owning
        BY <1>0, <2>3, AttemptFailedKeeps DEF Owning
    <3> QED BY <1>0, <1>6, <2>0, <2>1, <2>3, <3>1, ForsakenWorks
  <2> QED BY <1>6, <2>0, <2>2, <2>3 DEF Complete
<1>7. ASSUME NEW w \in Workers, Retry(w)
      PROVE  ForsakenInv'
  <2>0. PICK j \in Jobs : j = worker[w].job
      BY <1>7, WorkerMoves
  <2>1. /\ worker[w].pc = "retry" /\ Owner(w, j) /\ worker'[w].pc = "nack"
        /\ worker'[w].job = j
        /\ \A v \in Workers \ {w} : worker'[v] = worker[v]
        /\ UNCHANGED <<answer, queue, unacked>>
      BY <1>0, <1>7, <2>0, GotoKeeps DEF Retry, At, Owner, Owning
  <2>2. CASE Outage
      BY <1>0, <1>7, <2>0, <2>2, ForsakenAtJob
  <2>3. CASE NoOutage /\ Processing(j) /\ RetryChatJob(j)
    <3>1. jobs'[j].status = "pending" /\ jobs[j].status = "processing"
        BY <1>0, <2>3 DEF RetryChatJob, Processing, Job
    <3>2. \A v \in Workers : Owner(v, j) => v = w
        BY <2>1 DEF ClaimInv, ExclusiveProcessing
    <3>3. Safe(j) => Held(w, j)
        BY <3>1, <3>2 DEF Safe
    <3>4. Safe(j) => j \in queue' \/ unacked'[w] = j
        BY <2>1, <3>3 DEF Held
    <3>5. \A v \in Workers : worker'[v].job = j /\ worker'[v].pc = "claim" =>
                               worker[v].job = j /\ worker[v].pc = "claim"
        BY <2>1
    <3>6. Safe(j) => Safe(j)'
        BY <2>1, <3>1, <3>4, <3>5 DEF Safe, Held, Single
    <3>7. j \in Forsaken' => j \in Forsaken
        BY <2>1, <3>1, <3>6 DEF Forsaken, Unsettled
    <3> QED BY <1>0, <1>7, <2>0, <2>3, <3>7, ForsakenAtJob DEF NoOutage, budgets
  <2>4. CASE NoOutage /\ ~Processing(j) /\ UNCHANGED jobs
    <3>1. jobs'[j].status \notin {"pending", "processing"}
        BY <2>1, <2>4 DEF ClaimInv, OwnersHoldRows, Processing
    <3>2. j \notin Forsaken'
        BY <3>1 DEF Forsaken, Unsettled
    <3> QED BY <1>0, <1>7, <2>0, <2>4, <3>2, ForsakenAtJob DEF NoOutage, budgets
  <2> QED BY <1>7, <2>0, <2>2, <2>3, <2>4 DEF Retry
<1>8. ASSUME NEW w \in Workers, Fail(w)
      PROVE  ForsakenInv'
  <2>0. PICK j \in Jobs : j = worker[w].job
      BY <1>8, WorkerMoves
  <2>1. Owner(w, j)
      BY <1>8, <2>0 DEF Fail, At, Owner, Owning
  <2>2. CASE Outage
      BY <1>0, <1>8, <2>0, <2>2, ForsakenAtJob
  <2>3. CASE NoOutage /\ FailChatJob(j, worker[w].code)
    <3>1. jobs'[j].status = "failed"
        BY <1>0, <2>3 DEF FailChatJob, Job
    <3>2. j \notin Forsaken'
        BY <3>1 DEF Forsaken, Unsettled
    <3> QED BY <1>0, <1>8, <2>0, <2>3, <3>2, ForsakenAtJob DEF NoOutage, budgets
  <2>4. CASE NoOutage /\ ~Processing(j) /\ UNCHANGED jobs
    <3>1. jobs'[j].status \notin {"pending", "processing"}
        BY <2>1, <2>4 DEF ClaimInv, OwnersHoldRows, Processing
    <3>2. j \notin Forsaken'
        BY <3>1 DEF Forsaken, Unsettled
    <3> QED BY <1>0, <1>8, <2>0, <2>4, <3>2, ForsakenAtJob DEF NoOutage, budgets
  <2> QED BY <1>8, <2>0, <2>2, <2>3, <2>4 DEF Fail
<1>9. ASSUME NEW w \in Workers, Ack(w) \/ Nack(w)
      PROVE  ForsakenInv'
  <2>1. /\ worker[w].pc \in {"ack", "nack"} /\ worker'[w] = Idle
        /\ worker[w].pc = "nack" => queue' = queue \cup ({unacked[w]} \ {NoJob})
        /\ \A v \in Workers \ {w} : worker'[v] = worker[v] /\ unacked'[v] = unacked[v]
        /\ unacked'[w] = NoJob
        /\ queue \subseteq queue' /\ queue' \subseteq queue \cup ({unacked[w]} \ {NoJob})
        /\ UNCHANGED <<jobs, answer, outages, losses>>
      BY <1>0, <1>9 DEF Ack, Nack, At, WorkersOK, BrokerOK, budgets, storeVars
  <2>2. BrokerInv'
      BY <1>0, <2>1, BrokerWorks
  <2>3. ASSUME NEW i \in Jobs
        PROVE  Safe(i) => Safe(i)'
    <3>1. ~Owner(w, i) /\ Idle.pc = "idle"
        BY <2>1 DEF Owner, Owning, Idle
    <3>2. unacked[w] = i /\ worker[w].pc \in {"claim", "nack"} => i \in queue'
        BY <2>1
    <3>3. ~(worker'[w].job = i /\ worker'[w].pc = "claim")
        BY <2>1, <3>1
    <3>4. i \in queue => i \in queue'
        BY <2>1
    <3>5. Owner(w, i) => Owner(w, i)' /\ unacked'[w] = unacked[w]
        BY <3>1
    <3>6. jobs'[i].status = jobs[i].status
        BY <2>1
    <3>7. \A v \in Workers \ {w} : worker'[v] = worker[v] /\ unacked'[v] = unacked[v]
        BY <2>1
    <3> QED BY <3>2, <3>3, <3>4, <3>5, <3>6, <3>7, SafeAside
  <2>4. Forsaken' \subseteq Forsaken
      BY <2>1, <2>3 DEF Forsaken, Unsettled
  <2> QED BY <1>0, <2>1, <2>2, <2>4, ForsakenKept
<1>10. ASSUME NEW w \in Workers, LoseChannel(w)
       PROVE  ForsakenInv'
  <2>0. PICK j \in Jobs : j = unacked[w]
      BY <1>0, <1>10 DEF LoseChannel, BrokerOK
  <2>1. /\ unacked[w] # NoJob /\ losses' = losses + 1 /\ outages' = outages
        /\ queue' = queue \cup {j}
        /\ \A v \in Workers \ {w} : unacked'[v] = unacked[v]
        /\ unacked'[w] = NoJob
        /\ UNCHANGED <<jobs, answer, worker>>
      BY <1>0, <1>10, <2>0 DEF LoseChannel, BrokerOK, storeVars
  <2>2. worker[w].job = j /\ worker[w].pc # "idle"
      BY <1>0, <2>0, <2>1 DEF BrokerInv
  <2>3. BrokerInv'
      BY <1>0, <2>0, <2>1, <2>2, BrokerWorks
  <2>4. \A i \in Jobs \ {j} : i \in Forsaken' => i \in Forsaken
      BY <1>0, <2>1, <2>2, SafeElsewhere
  <2>5. CASE ~Single
    <3>1. Forsaken' \subseteq Forsaken \cup {j}
        BY <2>4 DEF Forsaken
    <3> QED BY <1>0, <2>1, <2>3, <2>5, <3>1, ForsakenGrows
  <2>6. CASE Single
    <3>1. \A v \in Workers : Held(v, j)' /\ (Owner(v, j) => Owner(v, j)')
        BY <2>1, <2>6 DEF Held, Single, Owner
    <3>2. Safe(j) => Safe(j)'
        BY <2>1, <3>1 DEF Safe
    <3>3. Forsaken' \subseteq Forsaken
        BY <2>1, <2>4, <3>2 DEF Forsaken, Unsettled
    <3>4. losses' >= losses
        BY <1>0, <2>1
    <3> QED BY <1>0, <2>1, <2>3, <3>3, <3>4, ForsakenKept
  <2> QED BY <2>5, <2>6
<1>11. ASSUME NEW w \in Workers, Crash(w)
       PROVE  ForsakenInv'
  <2>0. PICK j \in Jobs : j = worker[w].job
      BY <1>0, <1>11 DEF Crash, WorkersOK
  <2>1. /\ worker[w].pc # "idle" /\ outages' = outages + 1 /\ losses' = losses
        /\ queue' = queue \cup ({unacked[w]} \ {NoJob})
        /\ \A v \in Workers \ {w} : worker'[v] = worker[v] /\ unacked'[v] = unacked[v]
        /\ worker'[w] = Idle /\ unacked'[w] = NoJob
        /\ UNCHANGED <<jobs, answer>>
      BY <1>0, <1>11 DEF Crash, Outage, WorkersOK, BrokerOK, storeVars
  <2>2. BrokerInv'
      BY <1>0, <2>0, <2>1, BrokerWorks
  <2>3. \A i \in Jobs : worker'[w].job # i
    <3>1. \A i \in Jobs : Idle.job # i
        BY DEF Idle
    <3> QED BY <2>1, <3>1
  <2>4. \A i \in Jobs \ {j} : i \in Forsaken' => i \in Forsaken
      BY <1>0, <2>0, <2>1, <2>3, SafeElsewhere
  <2>5. Forsaken' \subseteq Forsaken \cup {j}
      BY <2>4 DEF Forsaken
  <2> QED BY <1>0, <2>1, <2>2, <2>5, ForsakenGrows
<1>12. ASSUME NEW c \in Convs, DeleteConversation(c) \/ PostMessage(c)
       PROVE  ForsakenInv'
  <2>1. UNCHANGED <<answer, queue, unacked, worker, outages, losses>>
      BY <1>12 DEF DeleteConversation, PostMessage, jobVars, budgets
  <2>2. \A i \in Jobs : jobs'[i].status \in {jobs[i].status, "deleted"}
    <3>1. CASE UNCHANGED jobs
        BY <3>1
    <3>2. CASE DeleteConversationRow(c)
        BY <1>0, <3>2 DEF DeleteConversationRow, Job
    <3> QED BY <1>12, <3>1, <3>2 DEF DeleteConversation, PostMessage
  <2>3. BrokerInv'
      BY <1>0, <2>1, <2>2 DEF BrokerInv
  <2>4. \A i \in Jobs : jobs'[i].status = jobs[i].status => (Safe(i) => Safe(i)')
      BY <2>1 DEF Safe, Owner, Held, Single
  <2>5. Forsaken' \subseteq Forsaken
      BY <2>1, <2>2, <2>4 DEF Forsaken, Unsettled
  <2> QED BY <1>0, <2>1, <2>3, <2>5, ForsakenKept
<1>13. CASE UNCHANGED vars
  <2>1. UNCHANGED <<answer, queue, unacked, worker, outages, losses, jobs>>
      BY <1>13 DEF vars, jobVars, budgets, storeVars
  <2>2. BrokerInv'
      BY <1>0, <2>1 DEF BrokerInv
  <2>3. Forsaken' = Forsaken
      BY <2>1 DEF Forsaken, Unsettled, Safe, Owner, Held, Single
  <2> QED BY <1>0, <2>1, <2>2, <2>3, ForsakenKept
<1> QED BY <1>1, <1>2, <1>3, <1>4, <1>5, <1>6, <1>7, <1>8, <1>9, <1>10, <1>11, <1>12, <1>13
       DEF Next, Process

\* With any number of workers and jobs: each outage strands one accepted job at most, and so
\* does each lost channel, but with a single worker lost channels strand none.
THEOREM StrandedJobsAreFew == Spec => []StrandedByOutages
<1>1. Init => TypeOK /\ ClaimInv /\ ForsakenInv
    BY TypeInit, ClaimInit, ForsakenInit
<1>2. TypeOK /\ ClaimInv /\ ForsakenInv /\ [Next]_vars => (TypeOK /\ ClaimInv /\ ForsakenInv)'
    BY InvStep, ForsakenStep
<1>3. TypeOK /\ ForsakenInv => StrandedByOutages
  <2> SUFFICES ASSUME TypeOK, ForsakenInv
               PROVE  StrandedByOutages
      OBVIOUS
  <2>1. Stranded \subseteq Forsaken
      BY DEF Stranded, Forsaken, Unsettled, Safe
  <2>2. IsFiniteSet(Stranded) /\ Cardinality(Stranded) <= Cardinality(Forsaken)
      BY <2>1, FS_Subset DEF ForsakenInv
  <2>3. Cardinality(Stranded) \in Nat /\ Cardinality(Forsaken) \in Nat
      BY <2>2, FS_CardinalityType DEF ForsakenInv
  <2>4. outages \in Nat /\ losses \in Nat
      BY DEF TypeOK, JobTypeOK, BrokerOK
  <2> QED BY <2>2, <2>3, <2>4 DEF ForsakenInv, StrandedByOutages, Single
<1> QED BY <1>1, <1>2, <1>3, PTL DEF Spec
=============================================================================
