----------------------------- MODULE SpeechProofs -----------------------------
(***************************************************************************)
(* For any requests, timeout, skew and lifetimes: a token from the cache   *)
(* is still good when the call arrives, unless the calls took longer than  *)
(* the skew (RejectionsHaveCause), and requests share one token but for    *)
(* replies that were lost (TokensAreShared).                               *)
(***************************************************************************)
EXTENDS Speech, FiniteSetTheorems, TLAPS

USE SpeechAssumption

----------------------------------------------------------------------------
(* The invariant.                                                          *)

Replies == {"none", "running", "succeeded", "task_failed", "failed", "rejected"}
Pcs == {"new", "lock", "token", "issued", "call", "done", "bad_request"} \cup Replies
Record == [pc: Pcs, token: Tokens \cup {NoToken}, age: Nat, reply: Replies, gone: BOOLEAN]

Issued == {t \in Tokens : life[t] > 0}

Types ==
  /\ token \in Tokens \cup {NoToken} /\ expires \in Nat
  /\ req \in [Requests -> Record]
  /\ life \in [Tokens -> Nat] /\ left \in [Tokens -> Nat]
  /\ \A t \in Tokens : left[t] <= life[t]
  /\ took \in [Tokens -> 0..Timeout] /\ \A t \in Tokens : life[t] = 0 => took[t] = 0
  /\ revoked \subseteq Tokens /\ lost \in Nat

\* The requests that will not ask for a token any more.
Past == {r \in Requests : req[r].pc \notin {"new", "lock", "token"}}

\* The provider has numbered its tokens, and each was for a request.
IssuedInOrder == \E n \in Nat : Issued = 1..n /\ n <= Cardinality(Past)

Waiting(r) == req[r].pc \in {"token", "issued"}

\* The mutex is held while a token is asked for, which is only when there is no good one.
MutexInv ==
  \A r \in Requests : Waiting(r) => holder = r /\ (token = NoToken \/ expires <= Skew)

\* What the client knows of the cached token: it takes it to be younger than it is, but by
\* no more than the call took that brought it.
CacheInv ==
  token # NoToken =>
    /\ token \in Issued
    /\ left[token] <= expires
    /\ token \notin revoked => expires <= left[token] + took[token]

\* A request x: its token, and how much the token is good for.
RequestInv(x) ==
  /\ x.pc \in {"issued", "call", "done"} => x.token \in Issued
  /\ x.pc \in {"token", "issued", "call", "done"} => x.age <= Timeout
  /\ x.pc = "issued" /\ x.token \notin revoked => life[x.token] <= left[x.token] + x.age
  /\ x.pc = "issued" => took[x.token] = 0
  /\ x.pc = "call" /\ x.token \notin revoked =>
       \/ Skew < left[x.token] + took[x.token] + x.age
       \/ life[x.token] <= left[x.token] + took[x.token] + x.age
  /\ x.reply # "none" => x.pc = "done"
  /\ x.reply = "rejected" =>
       \/ x.token \in revoked
       \/ took[x.token] + x.age > Skew
       \/ took[x.token] + x.age >= life[x.token]

\* Good tokens that are neither cached nor on their way.
Carried(t) == \E r \in Requests : req[r].pc = "issued" /\ req[r].token = t
Spare == {t \in Tokens : left[t] > Skew /\ t # token /\ ~Carried(t)}

SpareInv == Cardinality(Spare) <= lost

Inv ==
  /\ Types /\ IssuedInOrder /\ MutexInv /\ CacheInv /\ SpareInv
  /\ \A r \in Requests : RequestInv(req[r])

----------------------------------------------------------------------------
(* Finite sets.                                                            *)

LEMMA TokenSet ==
  /\ Cardinality(Requests) \in Nat
  /\ IsFiniteSet(Tokens) /\ NoToken \notin Tokens /\ Tokens \subseteq Nat
  /\ Tokens = 1..Cardinality(Requests)
<1>1. Cardinality(Requests) \in Nat
    BY FS_CardinalityType
<1>2. IsFiniteSet(1..Cardinality(Requests))
    BY <1>1, FS_Interval
<1> QED BY <1>1, <1>2 DEF Tokens, NoToken

LEMMA SpareSet == IsFiniteSet(Spare) /\ Cardinality(Spare) \in Nat
<1>1. Spare \in SUBSET Tokens
    BY DEF Spare
<1> QED BY <1>1, TokenSet, FS_Subset, FS_CardinalityType

LEMMA PastSet == IsFiniteSet(Past) /\ Cardinality(Past) \in Nat
<1>1. Past \in SUBSET Requests
    BY DEF Past
<1> QED BY <1>1, FS_Subset, FS_CardinalityType

LEMMA OneMore ==
  ASSUME NEW S, NEW t, IsFiniteSet(S)
  PROVE  /\ IsFiniteSet(S \cup {t}) /\ Cardinality(S \cup {t}) \in Nat
         /\ Cardinality(S) \in Nat /\ Cardinality(S \cup {t}) <= Cardinality(S) + 1
<1>1. IsFiniteSet({t})
    BY FS_Singleton
<1>2. IsFiniteSet(S \cup {t})
    BY <1>1, FS_Union
<1>3. Cardinality(S) \in Nat /\ Cardinality(S \cup {t}) \in Nat
    BY <1>2, FS_CardinalityType
<1>4. CASE t \in S
  <2>1. S \cup {t} = S
      BY <1>4
  <2>2. Cardinality(S \cup {t}) = Cardinality(S)
      BY <2>1, Zenon
  <2> QED BY <1>2, <1>3, <2>2
<1>5. CASE t \notin S
    BY <1>2, <1>3, <1>5, FS_AddElement
<1> QED BY <1>4, <1>5

\* Spare tokens do not become more.
LEMMA SpareShrinks ==
  ASSUME SpareInv, lost \in Nat, lost' \in Nat, lost <= lost', Spare' \subseteq Spare
  PROVE  SpareInv'
<1>1. PICK S, T : S = Spare /\ T = Spare'
    OBVIOUS
<1>2. Cardinality(T) <= Cardinality(S)
    BY <1>1, SpareSet, FS_Subset
<1>3. Cardinality(S) \in Nat /\ Cardinality(T) \in Nat
  <2>1. IsFiniteSet(T)
      BY <1>1, SpareSet, FS_Subset
  <2> QED BY <1>1, <2>1, SpareSet, FS_CardinalityType
<1>4. Cardinality(S) <= lost
    BY <1>1 DEF SpareInv
<1>5. Cardinality(T) <= lost'
    BY <1>2, <1>3, <1>4
<1> QED BY <1>1, <1>5 DEF SpareInv

\* A request that has asked for a token does not ask again.
LEMMA PastGrows ==
  ASSUME \A r \in Requests : req[r].pc \notin {"new", "lock", "token"} =>
                               req'[r].pc \notin {"new", "lock", "token"}
  PROVE  Cardinality(Past) <= Cardinality(Past') /\ Cardinality(Past') \in Nat
<1>1. PICK S, T : S = Past /\ T = Past'
    OBVIOUS
<1>2. S \in SUBSET T /\ T \in SUBSET Requests
    BY <1>1 DEF Past
<1>3. IsFiniteSet(T)
    BY <1>2, FS_Subset
<1> QED BY <1>1, <1>2, <1>3, FS_Subset, FS_CardinalityType

LEMMA OrderKept ==
  ASSUME IssuedInOrder, UNCHANGED life,
         \A r \in Requests : req[r].pc \notin {"new", "lock", "token"} =>
                               req'[r].pc \notin {"new", "lock", "token"}
  PROVE  IssuedInOrder'
<1>1. PICK n \in Nat : Issued = 1..n /\ n <= Cardinality(Past)
    BY DEF IssuedInOrder
<1>2. Issued' = 1..n
    BY <1>1 DEF Issued
<1>3. n <= Cardinality(Past')
    BY <1>1, PastGrows, PastSet
<1> QED BY <1>2, <1>3 DEF IssuedInOrder

----------------------------------------------------------------------------
(* Steps.                                                                  *)

LEMMA InitInv == Init => Inv
<1> SUFFICES ASSUME Init PROVE Inv
    OBVIOUS
<1>1. NewRequest \in Record /\ NewRequest.pc = "new" /\ NewRequest.reply = "none"
    BY DEF NewRequest, Record, Pcs, Replies
<1>2. Types
    BY <1>1 DEF Init, Types
<1>3. IssuedInOrder
  <2>1. Issued = 1..0
      BY DEF Init, Issued
  <2> QED BY <2>1, PastSet DEF IssuedInOrder
<1>4. MutexInv /\ CacheInv /\ \A r \in Requests : RequestInv(req[r])
    BY <1>1 DEF Init, MutexInv, Waiting, CacheInv, RequestInv
<1>5. SpareInv
  <2>1. PICK S : S = Spare
      OBVIOUS
  <2>2. S = {}
      BY <2>1 DEF Init, Spare
  <2> QED BY <2>1, <2>2, FS_EmptySet DEF SpareInv, Init
<1> QED BY <1>2, <1>3, <1>4, <1>5 DEF Inv

\* A request that does not ask for a token changes to x.
LEMMA QuietStep ==
  ASSUME Inv, NEW r \in Requests, NEW x \in Record, RequestInv(x),
         x.pc \notin {"new", "token", "issued"},
         x.pc = "lock" => req[r].pc \in {"new", "lock"},
         ~Waiting(r),
         req' = [req EXCEPT ![r] = x],
         UNCHANGED <<token, expires, holder, life, left, took, revoked, lost>>
  PROVE  Inv'
<1>1. /\ req \in [Requests -> Record] /\ req'[r] = x
      /\ \A q \in Requests \ {r} : req'[q] = req[q]
    BY DEF Inv, Types
<1>2. Types'
    BY DEF Inv, Types
<1>3. IssuedInOrder'
    BY <1>1, OrderKept DEF Inv
<1>4. MutexInv'
    BY <1>1 DEF Inv, MutexInv, Waiting
<1>5. CacheInv'
    BY DEF Inv, CacheInv, Issued
<1>6. SpareInv'
  <2>1. Spare' \subseteq Spare
      BY <1>1 DEF Spare, Carried, Waiting
  <2> QED BY <2>1, SpareShrinks DEF Inv, Types
<1>7. \A q \in Requests : RequestInv(req[q])'
    BY <1>1 DEF Inv, RequestInv, Issued
<1> QED BY <1>2, <1>3, <1>4, <1>5, <1>6, <1>7 DEF Inv

LEMMA EndsQuietly ==
  ASSUME Inv, NEW r \in Requests, NEW pc \in Replies \cup {"bad_request"}, Ends(r, pc),
         ~Waiting(r),
         UNCHANGED <<token, expires, holder, life, left, took, revoked, lost>>
  PROVE  Inv'
<1> DEFINE x == [NewRequest EXCEPT !.pc = pc]
<1>1. x \in Record /\ x.pc = pc /\ x.reply = "none"
    BY DEF NewRequest, Record, Pcs, Replies
<1>2. req' = [req EXCEPT ![r] = x]
    BY DEF Ends
<1> HIDE DEF x
<1>3. RequestInv(x)
    BY <1>1 DEF RequestInv, Replies
<1> QED BY <1>1, <1>2, <1>3, QuietStep DEF Replies

LEMMA ClientKeeps ==
  ASSUME Inv, NEW r \in Requests, Arrive(r) \/ Leave(r) \/ Reply(r) \/ CallFails(r) \/ Answer(r)
  PROVE  Inv'
<1>1. /\ UNCHANGED <<token, expires, holder, life, left, took, revoked, lost>> /\ ~Waiting(r)
      /\ req[r] \in Record /\ RequestInv(req[r])
    BY DEF Arrive, Leave, Reply, CallFails, Answer, Waiting, Inv, Types
<1>2. ASSUME NEW pc \in Replies \cup {"bad_request"}, Ends(r, pc) PROVE Inv'
    BY <1>1, <1>2, EndsQuietly
<1>3. CASE Reply(r) \/ CallFails(r)
    BY <1>1, <1>2, <1>3 DEF Reply, CallFails, Replies, Record
<1>4. CASE Arrive(r)
  <2>1. CASE Ends(r, "bad_request")
      BY <1>2, <2>1
  <2>2. CASE Goes(r, "lock")
    <3> DEFINE x == [req[r] EXCEPT !.pc = "lock"]
    <3>1. x \in Record /\ x.pc = "lock" /\ x.reply = req[r].reply /\ x.token = req[r].token
        BY <1>1 DEF Record, Pcs
    <3>2. req' = [req EXCEPT ![r] = x]
        BY <1>1, <2>2 DEF Goes, Inv, Types
    <3>3. req[r].pc = "new"
        BY <1>4 DEF Arrive
    <3> HIDE DEF x
    <3>4. RequestInv(x)
        BY <1>1, <3>1, <3>3 DEF RequestInv
    <3> QED BY <1>1, <3>1, <3>2, <3>3, <3>4, QuietStep
  <2> QED BY <1>4, <2>1, <2>2 DEF Arrive
<1>5. CASE Leave(r)
  <2> DEFINE x == [req[r] EXCEPT !.gone = TRUE]
  <2>1. x \in Record /\ x.pc = "lock" /\ x.reply = req[r].reply /\ x.token = req[r].token
      BY <1>1, <1>5 DEF Record, Pcs, Leave
  <2>2. req' = [req EXCEPT ![r] = x] /\ req[r].pc = "lock"
      BY <1>1, <1>5 DEF Leave, Inv, Types
  <2> HIDE DEF x
  <2>3. RequestInv(x)
      BY <1>1, <2>1, <2>2 DEF RequestInv
  <2> QED BY <1>1, <2>1, <2>2, <2>3, QuietStep
<1>6. CASE Answer(r)
  <2>1. \A status : ReplyTo(status) \in Replies \ {"none", "rejected"}
      BY DEF ReplyTo, Replies
  <2>2. PICK reply \in Replies \ {"none"} :
          /\ req' = [req EXCEPT ![r] = [req[r] EXCEPT !.pc = "done", !.reply = reply]]
          /\ reply = "rejected" => left[req[r].token] <= 0
    <3> DEFINE To(reply) == [req EXCEPT ![r] = [req[r] EXCEPT !.pc = "done", !.reply = reply]]
    <3>1. CASE left[req[r].token] > 0
      <4>1. \/ req' = To("running")
            \/ r \in Polls /\ req' = To(ReplyTo(task[TaskOf[r]]))
          BY <1>6, <3>1 DEF Answer, Accept
      <4>2. "running" \in Replies \ {"none", "rejected"}
          BY DEF Replies
      <4>3. PICK reply \in Replies \ {"none", "rejected"} : req' = To(reply)
        <5> HIDE DEF To
        <5> QED BY <2>1, <4>1, <4>2
      <4> QED BY <4>3
    <3>2. CASE ~(left[req[r].token] > 0)
      <4>1. req[r].token \in Tokens /\ left[req[r].token] \in Nat
          BY <1>1, <1>6 DEF Answer, RequestInv, Issued, Inv, Types
      <4>2. req' = To("rejected")
          BY <1>6, <3>2 DEF Answer
      <4>3. left[req[r].token] <= 0 /\ "rejected" \in Replies \ {"none"}
          BY <3>2, <4>1 DEF Replies
      <4> HIDE DEF To
      <4>4. \E reply \in Replies \ {"none"} :
              req' = To(reply) /\ (reply = "rejected" => left[req[r].token] <= 0)
          BY <4>2, <4>3
      <4> QED BY <4>4 DEF To
    <3> QED BY <3>1, <3>2
  <2> DEFINE x == [req[r] EXCEPT !.pc = "done", !.reply = reply]
  <2>3. x \in Record /\ x.pc = "done" /\ x.reply = reply /\ x.token = req[r].token
        /\ x.age = req[r].age
      BY <1>1 DEF Record, Pcs, Replies
  <2>4. req' = [req EXCEPT ![r] = x] /\ req[r].pc = "call"
      BY <1>6, <2>2 DEF Answer, Inv, Types
  <2>5. x.token \in Issued /\ x.age <= Timeout /\ left[x.token] \in Nat /\ x.age \in Nat
        /\ took[x.token] \in Nat /\ life[x.token] \in Nat
        /\ (x.token \notin revoked =>
              \/ Skew < left[x.token] + took[x.token] + x.age
              \/ life[x.token] <= left[x.token] + took[x.token] + x.age)
      BY <1>1, <2>3, <2>4 DEF RequestInv, Issued, Inv, Types, Record
  <2> HIDE DEF x
  <2>6. RequestInv(x)
      BY <2>2, <2>3, <2>5 DEF RequestInv
  <2> QED BY <1>1, <2>3, <2>4, <2>6, QuietStep
<1> QED BY <1>3, <1>4, <1>5, <1>6

LEMMA LookUpKeeps ==
  ASSUME Inv, NEW r \in Requests, LookUp(r)
  PROVE  Inv'
<1>1. /\ req[r].pc = "lock" /\ req[r] \in Record /\ holder = NoRequest /\ ~Waiting(r)
      /\ UNCHANGED <<token, expires, life, left, took, revoked, lost>>
      /\ req \in [Requests -> Record] /\ RequestInv(req[r]) /\ req[r].reply = "none"
    BY DEF LookUp, Waiting, Inv, Types, RequestInv
<1>2. CASE Ends(r, "failed") /\ UNCHANGED holder
    BY <1>1, <1>2, EndsQuietly DEF Replies
<1>3. CASE Usable /\ Calls(r, "call", token) /\ UNCHANGED holder
  <2> DEFINE x == [req[r] EXCEPT !.pc = "call", !.token = token, !.age = 0]
  <2>1. x \in Record /\ x.pc = "call" /\ x.token = token /\ x.age = 0 /\ x.reply = "none"
      BY <1>1 DEF Record, Pcs, Inv, Types
  <2>2. req' = [req EXCEPT ![r] = x]
      BY <1>1, <1>3 DEF Calls
  <2>3. token \in Issued /\ (token \notin revoked => Skew < left[token] + took[token] + 0)
    <3>1. token \in Issued /\ left[token] \in Nat /\ expires \in Nat /\ expires > Skew
          /\ took[token] \in Nat
          /\ (token \notin revoked => expires <= left[token] + took[token])
        BY <1>3 DEF Usable, Inv, CacheInv, Issued, Types
    <3> QED BY <3>1
  <2> HIDE DEF x
  <2>4. RequestInv(x)
      BY <2>1, <2>3 DEF RequestInv
  <2> QED BY <1>1, <1>3, <2>1, <2>2, <2>4, QuietStep
<1>4. CASE ~Usable /\ Calls(r, "token", NoToken) /\ holder' = r
  <2> DEFINE x == [req[r] EXCEPT !.pc = "token", !.token = NoToken, !.age = 0]
  <2>1. x \in Record /\ x.pc = "token" /\ x.age = 0 /\ x.reply = "none"
      BY <1>1 DEF Record, Pcs
  <2>2. req' = [req EXCEPT ![r] = x]
      BY <1>1, <1>4 DEF Calls
  <2> HIDE DEF x
  <2>3. req'[r] = x /\ \A q \in Requests \ {r} : req'[q] = req[q]
      BY <1>1, <2>2
  <2>4. \A q \in Requests : ~Waiting(q)
      BY <1>1 DEF Inv, MutexInv
  <2>5. Types'
      BY <1>1, <2>1, <2>2 DEF Inv, Types
  <2>6. IssuedInOrder'
      BY <1>1, <2>1, <2>3, OrderKept DEF Inv
  <2>7. MutexInv'
      BY <1>1, <1>4, <2>3, <2>4 DEF MutexInv, Waiting, Usable, Inv, Types
  <2>8. CacheInv'
      BY <1>1 DEF Inv, CacheInv, Issued
  <2>9. SpareInv'
    <3>1. Spare' \subseteq Spare
        BY <1>1, <2>1, <2>3 DEF Spare, Carried
    <3> QED BY <1>1, <3>1, SpareShrinks DEF Inv, Types
  <2>10. \A q \in Requests : RequestInv(req[q])'
      BY <1>1, <2>1, <2>3 DEF Inv, RequestInv, Issued
  <2> QED BY <2>5, <2>6, <2>7, <2>8, <2>9, <2>10 DEF Inv
<1> QED BY <1>2, <1>3, <1>4 DEF LookUp

LEMMA IssueKeeps ==
  ASSUME Inv, NEW r \in Requests, NEW m \in Lifetimes, Issue(r, m)
  PROVE  Inv'
<1>1. PICK n \in Nat : Issued = 1..n /\ n <= Cardinality(Past)
    BY DEF Inv, IssuedInOrder
<1>2. Cardinality(Issued) = n
  <2>1. Cardinality(1..n) = n
      BY FS_Interval
  <2> QED BY <1>1, <2>1
<1>3. /\ req[r].pc = "token" /\ req[r] \in Record /\ req \in [Requests -> Record]
      /\ req' = [req EXCEPT ![r].pc = "issued", ![r].token = n + 1]
      /\ life' = [life EXCEPT ![n + 1] = m] /\ left' = [left EXCEPT ![n + 1] = m]
      /\ UNCHANGED <<token, expires, holder, took, revoked, lost>>
  <2>1. req[r] \in Record /\ req \in [Requests -> Record]
      BY DEF Inv, Types
  <2>2. 1 + Cardinality({x \in Tokens : life[x] > 0}) = n + 1
    <3>1. {x \in Tokens : life[x] > 0} = Issued
        BY DEF Issued
    <3> QED BY <1>2, <3>1
  <2>3. req[r].pc = "token" /\ UNCHANGED <<token, expires, holder, took, revoked, lost>>
      BY DEF Issue
  <2>4. req' = [req EXCEPT ![r].pc = "issued", ![r].token = n + 1]
      BY <2>2, Zenon DEF Issue
  <2>5. life' = [life EXCEPT ![n + 1] = m] /\ left' = [left EXCEPT ![n + 1] = m]
      BY <2>2, Zenon DEF Issue
  <2> QED BY <2>1, <2>3, <2>4, <2>5
<1>4. m \in Nat \ {0}
    OBVIOUS
\* A request is left for the new token.
<1>5. n + 1 \in Tokens
  <2>1. PICK P, Q : P = Past /\ Q = Past \cup {r}
      OBVIOUS
  <2>2. r \notin P /\ Q \in SUBSET Requests /\ IsFiniteSet(P) /\ Q = P \cup {r}
      BY <1>3, <2>1, PastSet DEF Past
  <2>3. Cardinality(Q) = Cardinality(P) + 1 /\ Cardinality(Q) <= Cardinality(Requests)
      BY <2>2, FS_AddElement, FS_Subset
  <2> QED BY <1>1, <2>1, <2>3, TokenSet, PastSet
<1>6. PICK t \in Tokens : t = n + 1
    BY <1>5
<1>7. t \notin Issued /\ life[t] = 0 /\ left[t] = 0 /\ took[t] = 0
    BY <1>1, <1>6 DEF Issued, Inv, Types
<1>8. PICK x \in Record :
        /\ x.pc = "issued" /\ x.token = t /\ x.age = req[r].age
        /\ x.reply = req[r].reply /\ req' = [req EXCEPT ![r] = x]
  <2> DEFINE y == [req[r] EXCEPT !.pc = "issued", !.token = t]
  <2>1. y \in Record /\ y.pc = "issued" /\ y.token = t /\ y.age = req[r].age
        /\ y.reply = req[r].reply /\ req' = [req EXCEPT ![r] = y]
      BY <1>3, <1>6 DEF Record, Pcs
  <2> HIDE DEF y
  <2> QED BY <2>1
<1>9. req'[r] = x /\ \A q \in Requests \ {r} : req'[q] = req[q]
    BY <1>3, <1>8
<1>10. /\ life' = [life EXCEPT ![t] = m] /\ left' = [left EXCEPT ![t] = m]
       /\ life'[t] = m /\ left'[t] = m
       /\ \A u \in Tokens \ {t} : life'[u] = life[u] /\ left'[u] = left[u]
    BY <1>3, <1>6 DEF Inv, Types
<1>11. Issued' = Issued \cup {t}
    BY <1>4, <1>10 DEF Issued
<1>12. Types'
  <2>1. req' \in [Requests -> Record]
      BY <1>3, <1>8
  <2>2. life' \in [Tokens -> Nat] /\ left' \in [Tokens -> Nat]
      BY <1>4, <1>10 DEF Inv, Types
  <2>3. \A u \in Tokens : left'[u] <= life'[u]
      BY <1>4, <1>10 DEF Inv, Types
  <2>4. token' \in Tokens \cup {NoToken} /\ expires' \in Nat
        /\ revoked' \subseteq Tokens /\ lost' \in Nat
        /\ took' \in [Tokens -> 0..Timeout]
        /\ \A u \in Tokens : life'[u] = 0 => took'[u] = 0
      BY <1>3, <1>4, <1>10 DEF Inv, Types
  <2> QED BY <2>1, <2>2, <2>3, <2>4 DEF Types
<1>13. IssuedInOrder'
  <2>1. PICK P, Q : P = Past /\ Q = Past'
      OBVIOUS
  <2>2. Q = P \cup {r} /\ r \notin P /\ IsFiniteSet(P)
      BY <1>3, <1>8, <1>9, <2>1, PastSet DEF Past
  <2>3. Cardinality(Q) = Cardinality(P) + 1
      BY <2>2, FS_AddElement
  <2>4. n + 1 <= Cardinality(Past')
      BY <1>1, <2>1, <2>3, PastSet
  <2>5. Issued' = 1..(n + 1)
      BY <1>1, <1>6, <1>11
  <2> QED BY <2>4, <2>5 DEF IssuedInOrder
<1>14. MutexInv'
    BY <1>3, <1>9 DEF Inv, MutexInv, Waiting
<1>15. CacheInv'
    BY <1>3, <1>7, <1>10, <1>11 DEF Inv, CacheInv, Issued
<1>16. SpareInv'
  <2>1. Spare' \subseteq Spare
      BY <1>3, <1>8, <1>9, <1>10 DEF Spare, Carried
  <2> QED BY <1>3, <2>1, SpareShrinks DEF Inv, Types
<1>17. RequestInv(x)'
  <2>1. x.age <= Timeout /\ x.age \in Nat /\ x.reply = "none"
      BY <1>3, <1>8 DEF Inv, RequestInv, Record
  <2> QED BY <1>3, <1>4, <1>7, <1>8, <1>10, <1>11, <2>1 DEF RequestInv
<1>18. ASSUME NEW q \in Requests PROVE RequestInv(req[q])'
  <2>1. PICK y \in Record : y = req'[q]
      BY <1>3, <1>8
  <2>2. RequestInv(y)'
    <3>1. CASE q = r
        BY <1>9, <1>17, <2>1, <3>1
    <3>2. CASE q # r
      <4>1. RequestInv(y) /\ y = req[q]
          BY <1>9, <2>1, <3>2 DEF Inv
      <4>2. y.pc \in {"issued", "call", "done"} => y.token \in Tokens \ {t}
          BY <1>7, <4>1 DEF RequestInv, Issued
      <4>3. y.pc # "done" => y.reply = "none"
          BY <4>1 DEF RequestInv
      <4> QED BY <1>3, <1>10, <1>11, <4>1, <4>2, <4>3 DEF RequestInv
    <3> QED BY <3>1, <3>2
  <2> QED BY <2>1, <2>2 DEF RequestInv
<1> QED BY <1>12, <1>13, <1>14, <1>15, <1>16, <1>18 DEF Inv

LEMMA TokenArrivesKeeps ==
  ASSUME Inv, NEW r \in Requests, TokenArrives(r)
  PROVE  Inv'
<1>1. /\ req[r].pc = "issued" /\ req[r] \in Record /\ req \in [Requests -> Record]
      /\ RequestInv(req[r]) /\ UNCHANGED <<life, left, revoked, lost>> /\ holder' = NoRequest
    BY DEF TokenArrives, Inv, Types
<1>2. PICK t \in Tokens : t = req[r].token
    BY <1>1 DEF RequestInv, Issued
<1>3. PICK age \in 0..Timeout : age = req[r].age
    BY <1>1 DEF RequestInv, Record
<1>3A. /\ token' = t /\ expires' = life[t] /\ life[t] \in Nat \ {0} /\ left[t] \in Nat
       /\ t \in Issued /\ left[t] <= life[t]
       /\ (t \notin revoked => life[t] <= left[t] + age)
    BY <1>1, <1>2, <1>3 DEF TokenArrives, RequestInv, Inv, Types, Issued
<1>3B. /\ took' = [took EXCEPT ![t] = age] /\ took'[t] = age /\ took[t] = 0
       /\ took' \in [Tokens -> 0..Timeout]
       /\ \A u \in Tokens \ {t} : took'[u] = took[u]
    BY <1>1, <1>2, <1>3 DEF TokenArrives, RequestInv, Inv, Types
<1>4. PICK x \in Record :
        /\ x.pc = "call" /\ x.token = t /\ x.age = 0
        /\ x.reply = req[r].reply /\ req' = [req EXCEPT ![r] = x]
  <2> DEFINE y == [req[r] EXCEPT !.pc = "call", !.token = t, !.age = 0]
  <2>1. y \in Record /\ y.pc = "call" /\ y.token = t /\ y.age = 0
        /\ y.reply = req[r].reply /\ req' = [req EXCEPT ![r] = y]
      BY <1>1, <1>2 DEF Record, Pcs, TokenArrives, Calls
  <2> HIDE DEF y
  <2> QED BY <2>1
<1>5. req'[r] = x /\ \A q \in Requests \ {r} : req'[q] = req[q]
    BY <1>1, <1>4
<1>6. holder = r /\ (token = NoToken \/ expires <= Skew)
      /\ \A q \in Requests \ {r} : ~Waiting(q)
    BY <1>1 DEF Inv, MutexInv, Waiting
<1>7. Types'
    BY <1>1, <1>3A, <1>3B, <1>4 DEF Inv, Types
<1>8. IssuedInOrder'
    BY <1>1, <1>4, <1>5, OrderKept DEF Inv
<1>9. MutexInv'
    BY <1>4, <1>5, <1>6 DEF MutexInv, Waiting
<1>10. CacheInv'
    BY <1>1, <1>3A, <1>3B DEF CacheInv, Issued
<1>11. SpareInv'
  <2>1. token = NoToken \/ ~(left[token] > Skew)
    <3>1. token # NoToken => left[token] <= expires /\ left[token] \in Nat /\ expires \in Nat
        BY DEF Inv, CacheInv, Types
    <3> QED BY <1>6, <3>1
  <2>2. Spare' \subseteq Spare
      BY <1>1, <1>2, <1>3A, <1>5, <1>6, <2>1, TokenSet DEF Spare, Carried, Waiting
  <2> QED BY <1>1, <2>2, SpareShrinks DEF Inv, Types
<1>12. RequestInv(x)'
  <2>1. x.reply = "none"
      BY <1>1, <1>4 DEF RequestInv
  <2>2. x.token \in Issued' /\ revoked' = revoked /\ life' = life /\ left' = left
      BY <1>1, <1>3A, <1>4 DEF Issued
  <2>3. t \notin revoked => life[t] <= left[t] + took'[t] + 0
      BY <1>3A, <1>3B
  <2> QED BY <1>4, <2>1, <2>2, <2>3 DEF RequestInv
<1>13. ASSUME NEW q \in Requests PROVE RequestInv(req[q])'
  <2>1. CASE q = r
      BY <1>5, <1>12, <2>1 DEF RequestInv
  <2>2. CASE q # r
    <3>1. PICK y \in Record : y = req[q] /\ y = req'[q]
        BY <1>1, <1>5, <2>2
    <3>2. RequestInv(y) /\ y.pc \notin {"token", "issued"} /\ y.age \in Nat
        BY <1>6, <2>2, <3>1 DEF Inv, Waiting, Record
    <3>3. \A u \in Tokens : /\ took'[u] \in Nat /\ took[u] \in Nat /\ took[u] <= took'[u]
                            /\ life[u] \in Nat /\ left[u] \in Nat
        BY <1>2, <1>3B DEF Inv, Types
    <3>4. y.pc \in {"call", "done"} => y.token \in Tokens
        BY <3>2 DEF RequestInv, Issued
    <3>5. RequestInv(y)'
        BY <1>1, <3>2, <3>3, <3>4 DEF RequestInv, Issued
    <3> QED BY <3>1, <3>5 DEF RequestInv
  <2> QED BY <2>1, <2>2
<1> QED BY <1>7, <1>8, <1>9, <1>10, <1>11, <1>13 DEF Inv

LEMMA TokenFailsKeeps ==
  ASSUME Inv, NEW r \in Requests, TokenFails(r)
  PROVE  Inv'
<1>1. /\ Waiting(r) /\ req[r] \in Record /\ req \in [Requests -> Record]
      /\ UNCHANGED <<token, expires, life, left, took, revoked>> /\ holder' = NoRequest
      /\ lost' = IF req[r].pc = "issued" THEN lost + 1 ELSE lost
    BY DEF TokenFails, Waiting, Inv, Types
<1> DEFINE x == [NewRequest EXCEPT !.pc = "failed"]
<1>2. x \in Record /\ x.pc = "failed" /\ x.reply = "none" /\ req' = [req EXCEPT ![r] = x]
    BY DEF NewRequest, Record, Pcs, Replies, TokenFails, Ends
<1> HIDE DEF x
<1>3. req'[r] = x /\ \A q \in Requests \ {r} : req'[q] = req[q]
    BY <1>1, <1>2
<1>4. \A q \in Requests \ {r} : ~Waiting(q)
    BY <1>1 DEF Inv, MutexInv
<1>5. Types'
    BY <1>1, <1>2 DEF Inv, Types
<1>6. IssuedInOrder'
    BY <1>1, <1>2, <1>3, OrderKept DEF Inv
<1>7. MutexInv'
    BY <1>2, <1>3, <1>4 DEF MutexInv, Waiting
<1>8. CacheInv'
    BY <1>1 DEF Inv, CacheInv, Issued
<1>9. SpareInv'
  <2>1. CASE req[r].pc = "issued"
    <3>1. PICK S, T, t : S = Spare /\ T = Spare' /\ t = req[r].token
        OBVIOUS
    <3>2. T \in SUBSET (S \cup {t})
        BY <1>1, <1>3, <3>1 DEF Spare, Carried
    <3>3. IsFiniteSet(S) /\ Cardinality(S) \in Nat
        BY <3>1, SpareSet
    <3>4. IsFiniteSet(S \cup {t}) /\ Cardinality(S \cup {t}) <= Cardinality(S) + 1
        BY <3>3, OneMore
    <3>5. Cardinality(T) <= Cardinality(S \cup {t}) /\ Cardinality(T) \in Nat
          /\ Cardinality(S \cup {t}) \in Nat
        BY <3>2, <3>4, FS_Subset, FS_CardinalityType
    <3>6. Cardinality(S) <= lost /\ lost \in Nat /\ lost' = lost + 1
        BY <1>1, <2>1, <3>1 DEF Inv, SpareInv, Types
    <3>7. Cardinality(T) <= lost'
        BY <3>3, <3>4, <3>5, <3>6
    <3> QED BY <3>1, <3>7 DEF SpareInv
  <2>2. CASE req[r].pc # "issued"
    <3>1. Spare' \subseteq Spare
        BY <1>1, <1>3, <2>2 DEF Spare, Carried
    <3> QED BY <1>1, <2>2, <3>1, SpareShrinks DEF Inv, Types
  <2> QED BY <2>1, <2>2
<1>10. \A q \in Requests : RequestInv(req[q])'
  <2>1. RequestInv(x)
      BY <1>2 DEF RequestInv
  <2> QED BY <1>1, <1>3, <2>1 DEF Inv, RequestInv, Issued
<1> QED BY <1>5, <1>6, <1>7, <1>8, <1>9, <1>10 DEF Inv

LEMMA RevokeKeeps ==
  ASSUME Inv, NEW t \in Tokens, Revoke(t)
  PROVE  Inv'
<1>1. /\ UNCHANGED <<token, expires, holder, req, life, took, lost>>
      /\ revoked' = revoked \cup {t} /\ left' = [left EXCEPT ![t] = 0]
    BY DEF Revoke
<1>2. /\ left'[t] = 0 /\ \A u \in Tokens \ {t} : left'[u] = left[u]
      /\ \A u \in Tokens : left[u] \in Nat /\ life[u] \in Nat /\ left[u] <= life[u]
    BY <1>1 DEF Inv, Types
<1>3. Types'
    BY <1>1, <1>2 DEF Inv, Types
<1>4. IssuedInOrder'
    BY <1>1, OrderKept DEF Inv
<1>5. MutexInv' /\ CacheInv'
    BY <1>1, <1>2 DEF Inv, MutexInv, Waiting, CacheInv, Issued, Types
<1>6. SpareInv'
  <2>1. Spare' \subseteq Spare
      BY <1>1, <1>2 DEF Spare, Carried
  <2> QED BY <1>1, <2>1, SpareShrinks DEF Inv, Types
<1>7. ASSUME NEW q \in Requests PROVE RequestInv(req[q])'
  <2>1. RequestInv(req[q])
      BY DEF Inv
  <2> QED BY <1>1, <1>2, <2>1 DEF RequestInv, Issued
<1> QED BY <1>3, <1>4, <1>5, <1>6, <1>7 DEF Inv

LEMMA TickKeeps ==
  ASSUME Inv, Tick
  PROVE  Inv'
<1>1. /\ UNCHANGED <<token, holder, life, took, revoked, lost>>
      /\ expires' = IF expires = 0 THEN 0 ELSE expires - 1
      /\ left' = [t \in Tokens |-> IF left[t] = 0 THEN 0 ELSE left[t] - 1]
    BY DEF Tick
<1>2. \A t \in Tokens : /\ left[t] \in Nat /\ life[t] \in Nat /\ left[t] <= life[t]
                        /\ left'[t] \in Nat /\ left'[t] <= left[t] /\ left[t] <= left'[t] + 1
                        /\ left[t] > 0 => left'[t] = left[t] - 1
    BY <1>1 DEF Inv, Types
<1>3. expires \in Nat /\ expires' \in Nat /\ expires' <= expires
      /\ (expires > 0 => expires' = expires - 1)
    BY <1>1 DEF Inv, Types
<1>4. ASSUME NEW q \in Requests
      PROVE  /\ req'[q] \in Record
             /\ req'[q].pc = req[q].pc /\ req'[q].token = req[q].token
             /\ req'[q].reply = req[q].reply
             /\ q \in InCall => req[q].age < Timeout /\ req'[q].age = req[q].age + 1
  <2>1. req[q] \in Record
      BY DEF Inv, Types
  <2>2. q \in InCall => req[q].age < Timeout
      BY DEF Tick
  <2>3. CASE q \in InCall
    <3>1. req'[q] = [req[q] EXCEPT !.age = req[q].age + 1]
        BY <2>3 DEF Tick
    <3>2. req[q].age + 1 \in Nat
        BY <2>1 DEF Record
    <3> QED BY <2>1, <2>2, <3>1, <3>2 DEF Record
  <2>4. CASE q \notin InCall
    <3>1. req'[q] = req[q]
        BY <2>4 DEF Tick
    <3> QED BY <2>1, <2>4, <3>1
  <2> QED BY <2>3, <2>4
<1>5. Types'
  <2>1. req' \in [Requests -> Record]
      BY <1>4 DEF Tick
  <2>2. left' \in [Tokens -> Nat]
      BY <1>1, <1>2
  <2>3. \A t \in Tokens : left'[t] <= life[t]
      BY <1>2
  <2> QED BY <1>1, <1>3, <2>1, <2>2, <2>3 DEF Inv, Types
<1>6. IssuedInOrder'
    BY <1>1, <1>4, OrderKept DEF Inv
<1>7. MutexInv'
    BY <1>1, <1>3, <1>4 DEF Inv, MutexInv, Waiting
<1>8. CacheInv'
  <2>1. CASE token # NoToken
    <3>1. /\ token \in Tokens /\ left[token] <= expires
          /\ took[token] \in Nat
          /\ (token \notin revoked => expires <= left[token] + took[token])
        BY <2>1 DEF Inv, CacheInv, Issued, Types
    <3>2. /\ left'[token] <= expires'
          /\ (token \notin revoked => expires' <= left'[token] + took[token])
        BY <1>2, <1>3, <3>1
    <3> QED BY <1>1, <2>1, <3>2 DEF Inv, CacheInv, Issued
  <2> QED BY <1>1, <2>1 DEF CacheInv
<1>9. SpareInv'
  <2>1. Spare' \subseteq Spare
      BY <1>1, <1>2, <1>4 DEF Spare, Carried
  <2> QED BY <1>1, <2>1, SpareShrinks DEF Inv, Types
<1>10. ASSUME NEW q \in Requests PROVE RequestInv(req[q])'
  <2>1. RequestInv(req[q]) /\ req[q] \in Record /\ req'[q] \in Record
      BY <1>4 DEF Inv, Types
  <2>2. CASE q \in InCall
    <3>1. /\ req'[q].age = req[q].age + 1 /\ req'[q].age <= Timeout
          /\ req[q].age \in Nat
        BY <1>4, <2>1, <2>2 DEF Record
    <3>2. CASE req[q].pc = "token"
        BY <1>1, <1>4, <2>1, <3>1, <3>2 DEF RequestInv, Issued
    <3>3. CASE req[q].pc # "token"
      <4>1. req[q].token \in Tokens
          BY <2>1, <2>2, <3>3 DEF RequestInv, Issued, InCall
      <4>2. /\ left'[req[q].token] \in Nat
            /\ left[req[q].token] <= left'[req[q].token] + 1
            /\ left[req[q].token] \in Nat /\ life[req[q].token] \in Nat
            /\ took[req[q].token] \in Nat
          BY <1>2, <4>1 DEF Inv, Types
      <4>3. PICK x, y \in Record : x = req[q] /\ y = req'[q]
          BY <2>1
      <4>4. /\ RequestInv(x) /\ y.pc = x.pc /\ y.token = x.token /\ y.reply = x.reply
            /\ y.age = x.age + 1 /\ y.age <= Timeout /\ x.age \in Nat
          BY <1>4, <2>1, <3>1, <4>3
      <4>5. RequestInv(y)'
          BY <1>1, <4>1, <4>2, <4>3, <4>4 DEF RequestInv, Issued
      <4> QED BY <4>3, <4>5 DEF RequestInv
    <3> QED BY <3>2, <3>3
  <2>3. CASE q \notin InCall
      BY <1>1, <1>4, <2>1, <2>3 DEF RequestInv, InCall
  <2> QED BY <2>2, <2>3
<1> QED BY <1>5, <1>6, <1>7, <1>8, <1>9, <1>10 DEF Inv

LEMMA NextInv == Inv /\ [Next]_vars => Inv'
<1> SUFFICES ASSUME Inv, [Next]_vars PROVE Inv'
    OBVIOUS
<1>1. CASE UNCHANGED <<token, expires, holder, req, life, left, took, revoked, lost>>
  <2>1. Types' /\ MutexInv' /\ CacheInv' /\ \A r \in Requests : RequestInv(req[r])'
      BY <1>1 DEF Inv, Types, MutexInv, Waiting, CacheInv, RequestInv, Issued
  <2>2. IssuedInOrder' /\ Spare' = Spare
      BY <1>1, OrderKept DEF Inv, Spare, Carried
  <2>3. SpareInv'
      BY <1>1, <2>2, SpareShrinks DEF Inv, Types
  <2> QED BY <2>1, <2>2, <2>3 DEF Inv
<1>2. CASE UNCHANGED vars
    BY <1>1, <1>2 DEF vars
<1>3. CASE \E c \in Creates : Work(c)
    BY <1>1, <1>3 DEF Work
<1> QED BY <1>2, <1>3, ClientKeeps, LookUpKeeps, IssueKeeps, TokenArrivesKeeps,
           TokenFailsKeeps, RevokeKeeps, TickKeeps DEF Next

----------------------------------------------------------------------------
(* The theorems.                                                           *)

\* For any timeout and any skew: a token that was not revoked is rejected only if the call
\* that brought it and the call that uses it took longer than the skew, or the whole time
\* it was issued for.
THEOREM RejectionsAreCaused == Spec => []RejectionsHaveCause
<1>1. Inv => RejectionsHaveCause
    BY DEF Inv, RequestInv, RejectionsHaveCause
<1> QED BY <1>1, InitInv, NextInv, PTL DEF Spec

\* With a timeout of at most half the skew, as the defaults are and as nothing enforces, the
\* provider rejects no token but one that was revoked, or that was issued for no longer
\* than two calls may take.
COROLLARY SkewCoversTwoCalls ==
  ASSUME 2 * Timeout <= Skew
  PROVE  Spec => [](\A r \in Requests :
                      req[r].reply = "rejected" =>
                        req[r].token \in revoked \/ life[req[r].token] <= 2 * Timeout)
<1>1. ASSUME Inv, NEW r \in Requests, req[r].reply = "rejected"
      PROVE  req[r].token \in revoked \/ life[req[r].token] <= 2 * Timeout
  <2>1. PICK x \in Record : x = req[r]
      BY <1>1 DEF Inv, Types
  <2>2. RequestInv(x) /\ x.pc = "done" /\ x.reply = "rejected"
      BY <1>1, <2>1 DEF Inv, RequestInv
  <2>3. /\ x.token \in Tokens /\ x.age \in Nat /\ x.age <= Timeout
        /\ took[x.token] \in 0..Timeout /\ life[x.token] \in Nat
      BY <1>1, <2>2 DEF Inv, Types, RequestInv, Issued, Record
  <2>4. x.token \in revoked \/ life[x.token] <= 2 * Timeout
      BY <2>2, <2>3 DEF RequestInv
  <2> QED BY <2>1, <2>4
<1>2. Inv => \A r \in Requests :
               req[r].reply = "rejected" =>
                 req[r].token \in revoked \/ life[req[r].token] <= 2 * Timeout
    BY <1>1
<1> QED BY <1>2, InitInv, NextInv, PTL DEF Spec

\* Requests that come at the same time share one token, but for replies that were lost.
THEOREM OneTokenIsShared == Spec => []TokensAreShared
<1>1. Inv => TokensAreShared
  <2> SUFFICES ASSUME Inv PROVE Cardinality({t \in Tokens : left[t] > Skew}) <= 1 + lost
      BY DEF TokensAreShared
  <2>1. PICK good, S : good = {t \in Tokens : left[t] > Skew} /\ S = Spare
      OBVIOUS
  <2>2. \E t : good \subseteq S \cup {t}
    <3>1. CASE \E r \in Requests : req[r].pc = "issued"
      <4>1. PICK r \in Requests : req[r].pc = "issued"
          BY <3>1
      <4>2. \A q \in Requests : req[q].pc = "issued" => q = r
          BY <4>1 DEF Inv, MutexInv, Waiting
      <4>3. token = NoToken \/ ~(left[token] > Skew)
        <5>1. token = NoToken \/ expires <= Skew
            BY <4>1 DEF Inv, MutexInv, Waiting
        <5>2. token # NoToken => /\ left[token] <= expires
                                 /\ left[token] \in Nat /\ expires \in Nat
            BY DEF Inv, CacheInv, Types
        <5> QED BY <5>1, <5>2
      <4>4. good \subseteq S \cup {req[r].token}
          BY <2>1, <4>2, <4>3, TokenSet DEF Spare, Carried
      <4> QED BY <4>4
    <3>2. CASE \A r \in Requests : req[r].pc # "issued"
      <4>1. good \subseteq S \cup {token}
          BY <2>1, <3>2 DEF Spare, Carried
      <4> QED BY <4>1
    <3> QED BY <3>1, <3>2
  <2>3. PICK t : good \in SUBSET (S \cup {t})
      BY <2>2
  <2>4. IsFiniteSet(S) /\ Cardinality(S) \in Nat
      BY <2>1, SpareSet
  <2>5. IsFiniteSet(S \cup {t}) /\ Cardinality(S \cup {t}) <= Cardinality(S) + 1
      BY <2>4, OneMore
  <2>6. Cardinality(good) <= Cardinality(S \cup {t}) /\ Cardinality(good) \in Nat
        /\ Cardinality(S \cup {t}) \in Nat
      BY <2>3, <2>5, FS_Subset, FS_CardinalityType
  <2>7. Cardinality(S) <= lost /\ lost \in Nat
      BY <2>1 DEF Inv, SpareInv, Types
  <2>8. Cardinality(good) <= 1 + lost
      BY <2>4, <2>5, <2>6, <2>7
  <2> QED BY <2>1, <2>8
<1> QED BY <1>1, InitInv, NextInv, PTL DEF Spec
=============================================================================
