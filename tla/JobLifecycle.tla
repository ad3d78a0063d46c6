---------------------------- MODULE JobLifecycle ----------------------------
(***************************************************************************)
(* What a client may rely on when it polls a chat job: the life of one job *)
(* with no database calls, queue, workers or crashes in it.  ChatJob       *)
(* implements it (ChatJob!ImplementsLifecycle).                            *)
(*                                                                         *)
(* The state diagram is that of chatjob/repository.go, with the retry arc, *)
(* the number of attempts, and the answer in the conversation, which       *)
(* appears while the job is processing and at most once.                   *)
(***************************************************************************)
EXTENDS Naturals

CONSTANTS Jobs, MaxAttempts

VARIABLES
  status,    \* of each job
  attempts,  \* how often it was started
  answered   \* whether the conversation holds its answer

vars == <<status, attempts, answered>>

Init ==
  /\ status = [j \in Jobs |-> "absent"]
  /\ attempts = [j \in Jobs |-> 0]
  /\ answered = [j \in Jobs |-> FALSE]

Move(j, from, to) == status[j] = from /\ status' = [status EXCEPT ![j] = to]

Submit(j) == Move(j, "absent", "pending") /\ UNCHANGED <<attempts, answered>>

\* An attempt starts only while some are left.
Start(j) ==
  /\ attempts[j] < MaxAttempts
  /\ Move(j, "pending", "processing")
  /\ attempts' = [attempts EXCEPT ![j] = @ + 1]
  /\ UNCHANGED answered

\* Only a job that is processing is answered, and only one that was not.
Reply(j) ==
  /\ status[j] = "processing"
  /\ ~answered[j]
  /\ answered' = [answered EXCEPT ![j] = TRUE]
  /\ UNCHANGED <<status, attempts>>

GoBack(j) ==
  /\ attempts[j] < MaxAttempts
  /\ Move(j, "processing", "pending")
  /\ UNCHANGED <<attempts, answered>>

Succeed(j) ==
  /\ answered[j]
  /\ Move(j, "processing", "completed")
  /\ UNCHANGED <<attempts, answered>>

\* No job fails before it has had all its attempts.
GiveUp(j) ==
  /\ attempts[j] = MaxAttempts
  /\ Move(j, "processing", "failed")
  /\ UNCHANGED <<attempts, answered>>

\* The conversation of the jobs S is deleted.
Remove(S) ==
  /\ status' = [j \in Jobs |-> IF j \in S THEN "deleted" ELSE status[j]]
  /\ UNCHANGED <<attempts, answered>>

Next ==
  \/ \E j \in Jobs :
       \/ Submit(j)
       \/ Start(j)
       \/ Reply(j)
       \/ GoBack(j)
       \/ Succeed(j)
       \/ GiveUp(j)
  \/ \E S \in SUBSET {j \in Jobs : status[j] # "absent"} : Remove(S)

Spec == Init /\ [][Next]_vars
=============================================================================
