-------------------------- MODULE DocumentRegister --------------------------
(***************************************************************************)
(* What a user may rely on when uploading documents and chatting: one      *)
(* register that holds the document in force, with no files, Redis keys,   *)
(* expiry times or lost replies in it.  An upload that failed may have     *)
(* been put in the register, but never is after its end.  RagDocument      *)
(* implements it (RagDocument!ImplementsRegister).                         *)
(***************************************************************************)
CONSTANTS Uploads, Readers, NoVersion, Asking, Failed

VARIABLES
  value,    \* the upload whose document is in force, or NoVersion
  placed,   \* the uploads that were put in the register
  outcome,  \* of each upload
  answer    \* of each reader: the document it works with

vars == <<value, placed, outcome, answer>>

Init ==
  /\ value = NoVersion
  /\ placed = {}
  /\ outcome = [u \in Uploads |-> "running"]
  /\ answer = [r \in Readers |-> Asking]

Put(u) ==
  /\ outcome[u] = "running"
  /\ value' = u
  /\ placed' = placed \cup {u}
  /\ UNCHANGED answer

Accept(u) ==
  /\ outcome[u] = "running"
  /\ u \in placed
  /\ outcome' = [outcome EXCEPT ![u] = "accepted"]
  /\ UNCHANGED <<value, placed, answer>>

\* A reader gets the document in force at that moment.
Answer(r) ==
  /\ answer[r] = Asking
  /\ answer' = [answer EXCEPT ![r] = value]
  /\ UNCHANGED <<value, placed, outcome>>

GiveUp(r) ==
  /\ answer' = [answer EXCEPT ![r] = Failed]
  /\ UNCHANGED <<value, placed, outcome>>

\* Uploads fail, several at once when the server stops, the last one perhaps just after
\* it was put in the register.
Fail(us) ==
  /\ \A u \in us : outcome[u] = "running"
  /\ outcome' = [u \in Uploads |-> IF u \in us THEN "failed" ELSE outcome[u]]

Next ==
  \/ \E u \in Uploads : \/ Put(u) /\ (UNCHANGED outcome \/ Fail({u}))
                        \/ Accept(u)
  \/ \E r \in Readers : Answer(r) \/ GiveUp(r)
  \/ \E us \in SUBSET Uploads, rs \in SUBSET Readers :
       /\ Fail(us)
       /\ answer' = [r \in Readers |-> IF r \in rs THEN Failed ELSE answer[r]]
       /\ UNCHANGED <<value, placed>>

Spec == Init /\ [][Next]_vars
=============================================================================
