-------------------------------- MODULE Speech --------------------------------
(***************************************************************************)
(* The client of the speech provider: requests that create a task, and     *)
(* requests that poll one, share an access token.  The token is cached     *)
(* until shortly before it expires, and a mutex is held from the look at   *)
(* the cache until the provider has issued a new one.  This is one         *)
(* process: another one, also after a restart, has a cache of its own.     *)
(*                                                                         *)
(* Time goes by in ticks.  A call of the provider ends within the client's *)
(* timeout; replies take time, and may be lost.  The provider may revoke a *)
(* token before it expires.  Nothing in the code relates the timeout,      *)
(* which the environment sets, to the skew, which is a constant of it.     *)
(***************************************************************************)
EXTENDS Naturals, FiniteSets

CONSTANTS
  Creates,    \* requests that create a task; also the task that they create
  Polls,      \* requests that poll a task
  TaskOf,     \* of each poll
  NoRequest,
  Lifetimes,  \* expires_in of the tokens
  Timeout,    \* BAIDU_TTS_TIMEOUT_SECONDS, in ticks
  Skew,       \* tokenRefreshSkew, in ticks
  MaxRevoked  \* bound of the tokens that are revoked

Requests == Creates \cup Polls

\* A request asks for one token at most.
Tokens == 1..Cardinality(Requests)
NoToken == 0

ASSUME SpeechAssumption ==
  /\ IsFiniteSet(Requests) /\ NoRequest \notin Requests
  /\ TaskOf \in [Polls -> Creates] /\ Creates \cap Polls = {}
  /\ Lifetimes \subseteq Nat \ {0}
  /\ Timeout \in Nat \ {0} /\ Skew \in Nat
  /\ MaxRevoked \in Nat

VARIABLES
  token,   \* Client.token
  expires, \* Client.tokenExpiresAt, as the ticks until then
  holder,  \* of tokenMu
  req,     \* requests: where they are, the token they use, how old their call is, the
           \* provider's answer, and whether the client has left; in "token" and "call" the
           \* provider has to act, in "issued" and "done" its reply is on the way
  life,    \* of each token: expires_in, 0 if it was not issued
  left,    \* of each token: for how long the provider accepts it
  took,    \* of each token that arrived: how long the call that asked for it took
  task,    \* of each creating request: the state of its task
  revoked, \* the tokens that were revoked
  lost     \* tokens that were issued and never arrived

vars == <<token, expires, holder, req, life, left, took, task, revoked, lost>>

NewRequest == [pc |-> "new", token |-> NoToken, age |-> 0, reply |-> "none", gone |-> FALSE]

Init ==
  /\ token = NoToken /\ expires = 0 /\ holder = NoRequest
  /\ req = [r \in Requests |-> NewRequest]
  /\ life = [t \in Tokens |-> 0]
  /\ left = [t \in Tokens |-> 0]
  /\ took = [t \in Tokens |-> 0]
  /\ task = [c \in Creates |-> "none"]
  /\ revoked = {} /\ lost = 0

Goes(r, pc) == req' = [req EXCEPT ![r].pc = pc]

Ends(r, pc) == req' = [req EXCEPT ![r] = [NewRequest EXCEPT !.pc = pc]]

\* A call of the provider starts: its age is that of the call.
Calls(r, pc, t) == req' = [req EXCEPT ![r].pc = pc, ![r].token = t, ![r].age = 0]

----------------------------------------------------------------------------
(* The server                                                              *)

\* A request without a text or a task is turned away at once.
Arrive(r) ==
  /\ req[r].pc = "new"
  /\ Goes(r, "lock") \/ Ends(r, "bad_request")
  /\ UNCHANGED <<token, expires, holder, life, left, took, task, revoked, lost>>

\* The client goes away: the wait for the mutex goes on.  During a call it is one more
\* way for the call to fail.
Leave(r) ==
  /\ req[r].pc = "lock"
  /\ req' = [req EXCEPT ![r].gone = TRUE]
  /\ UNCHANGED <<token, expires, holder, life, left, took, task, revoked, lost>>

\* Mutant: a token is used until the moment it expires.
UsableToTheEnd == token # NoToken /\ expires > 0

Usable == token # NoToken /\ expires > Skew

\* Mutant: the cache is looked at without the mutex.
LookUpUnlocked(r) ==
  /\ req[r].pc = "lock"
  /\ ~req[r].gone
  /\ IF Usable THEN Calls(r, "call", token) /\ UNCHANGED holder
     ELSE Calls(r, "token", NoToken) /\ holder' = r
  /\ UNCHANGED <<token, expires, life, left, took, task, revoked, lost>>

\* The mutex is free: the cached token is used, or a new one asked for with the mutex held.
LookUp(r) ==
  /\ req[r].pc = "lock"
  /\ holder = NoRequest
  /\ \/ req[r].gone /\ Ends(r, "failed") /\ UNCHANGED holder
     \/ ~req[r].gone /\ Usable /\ Calls(r, "call", token) /\ UNCHANGED holder
     \/ ~req[r].gone /\ ~Usable /\ Calls(r, "token", NoToken) /\ holder' = r
  /\ UNCHANGED <<token, expires, life, left, took, task, revoked, lost>>

\* The new token is cached from now on: it may be older by the time of the call.
TokenArrives(r) ==
  /\ req[r].pc = "issued"
  /\ token' = req[r].token
  /\ expires' = life[req[r].token]
  /\ holder' = NoRequest
  /\ Calls(r, "call", req[r].token)
  /\ took' = [took EXCEPT ![req[r].token] = req[r].age]
  /\ UNCHANGED <<life, left, task, revoked, lost>>

\* Mutant: the mutex is kept when the call fails.
TokenFailsLocked(r) ==
  /\ req[r].pc \in {"token", "issued"}
  /\ Ends(r, "failed")
  /\ lost' = IF req[r].pc = "issued" THEN lost + 1 ELSE lost
  /\ UNCHANGED <<token, expires, holder, life, left, took, task, revoked>>

\* No reply, or one that makes no sense.
TokenFails(r) ==
  /\ req[r].pc \in {"token", "issued"}
  /\ Ends(r, "failed")
  /\ holder' = NoRequest
  /\ lost' = IF req[r].pc = "issued" THEN lost + 1 ELSE lost
  /\ UNCHANGED <<token, expires, life, left, took, task, revoked>>

\* The answer of the provider as the client of the API gets it.
Reply(r) ==
  /\ req[r].pc = "done"
  /\ Ends(r, req[r].reply)
  /\ UNCHANGED <<token, expires, holder, life, left, took, task, revoked, lost>>

CallFails(r) ==
  /\ req[r].pc \in {"call", "done"}
  /\ Ends(r, "failed")
  /\ UNCHANGED <<token, expires, holder, life, left, took, task, revoked, lost>>

----------------------------------------------------------------------------
(* The provider                                                            *)

Issue(r, n) ==
  LET t == 1 + Cardinality({x \in Tokens : life[x] > 0}) IN
  /\ req[r].pc = "token"
  /\ req' = [req EXCEPT ![r].pc = "issued", ![r].token = t]
  /\ life' = [life EXCEPT ![t] = n]
  /\ left' = [left EXCEPT ![t] = n]
  /\ UNCHANGED <<token, expires, holder, took, task, revoked, lost>>

Revoke(t) ==
  /\ left[t] > 0
  /\ Cardinality(revoked) < MaxRevoked
  /\ revoked' = revoked \cup {t}
  /\ left' = [left EXCEPT ![t] = 0]
  /\ UNCHANGED <<token, expires, holder, req, life, took, task, lost>>

\* validCreateStatus and taskFromProvider: a poll knows no "Created".
ReplyTo(status) ==
  CASE status = "Running" -> "running"
    [] status = "Success" -> "succeeded"
    [] status = "Failure" -> "task_failed"
    [] OTHER              -> "failed"

Accept(r) ==
  \/ /\ r \in Creates
     /\ \E s \in {"Created", "Running"} : task' = [task EXCEPT ![r] = s]
     /\ req' = [req EXCEPT ![r].pc = "done", ![r].reply = "running"]
  \/ /\ r \in Polls
     /\ req' = [req EXCEPT ![r].pc = "done", ![r].reply = ReplyTo(task[TaskOf[r]])]
     /\ UNCHANGED task

Answer(r) ==
  /\ req[r].pc = "call"
  /\ IF left[req[r].token] > 0 THEN Accept(r)
     ELSE /\ req' = [req EXCEPT ![r].pc = "done", ![r].reply = "rejected"]
          /\ UNCHANGED task
  /\ UNCHANGED <<token, expires, holder, life, left, took, revoked, lost>>

Work(c) ==
  /\ \/ task[c] = "Created" /\ task' = [task EXCEPT ![c] = "Running"]
     \/ task[c] = "Running" /\ \E s \in {"Success", "Failure"} : task' = [task EXCEPT ![c] = s]
  /\ UNCHANGED <<token, expires, holder, req, life, left, took, revoked, lost>>

----------------------------------------------------------------------------
InCall == {r \in Requests : req[r].pc \in {"token", "issued", "call", "done"}}

\* Time passes, but not beyond the timeout of a call.
Tick ==
  /\ \A r \in InCall : req[r].age < Timeout
  /\ expires > 0 \/ \E t \in Tokens : left[t] > 0
  /\ expires' = IF expires = 0 THEN 0 ELSE expires - 1
  /\ left' = [t \in Tokens |-> IF left[t] = 0 THEN 0 ELSE left[t] - 1]
  /\ req' = [r \in Requests |-> IF r \in InCall THEN [req[r] EXCEPT !.age = @ + 1] ELSE req[r]]
  /\ UNCHANGED <<token, holder, life, took, task, revoked, lost>>

Next ==
  \/ \E r \in Requests :
       \/ Arrive(r) \/ Leave(r) \/ LookUp(r) \/ TokenArrives(r) \/ TokenFails(r)
       \/ Reply(r) \/ CallFails(r) \/ Answer(r)
       \/ \E n \in Lifetimes : Issue(r, n)
  \/ \E t \in Tokens : Revoke(t)
  \/ \E c \in Creates : Work(c)
  \/ Tick

Spec == Init /\ [][Next]_vars

\* A mutex that is free is given to one that waits; a call ends, at the latest by its
\* timeout.
FairSpec ==
  Spec /\ \A r \in Requests : WF_vars(LookUp(r)) /\ WF_vars(TokenArrives(r) \/ TokenFails(r))

----------------------------------------------------------------------------
(* Properties                                                              *)

\* Whatever the timeout is, the skew covers what it is there for: a token that was not
\* revoked is rejected only if the call that brought it and the call that uses it took,
\* together, longer than the skew, or the whole time it was issued for.  How long it was
\* in the cache in between, and whose call brought it, does not matter.
RejectionsHaveCause ==
  \A r \in Requests :
    LET t == req[r].token
        onTheWay == took[t] + req[r].age
    IN req[r].reply = "rejected" => t \in revoked \/ onTheWay > Skew \/ onTheWay >= life[t]

\* Requests that come at the same time share one token: there are two good ones only if
\* the reply with one was lost.
TokensAreShared ==
  Cardinality({t \in Tokens : left[t] > Skew}) <= 1 + lost

\* Whoever waits for the mutex gets it or an error, though the call of its holder fails or
\* the holder's client is gone.
WaitsEnd == \A r \in Requests : req[r].pc = "lock" ~> req[r].pc # "lock"
=============================================================================
