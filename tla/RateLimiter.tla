----------------------------- MODULE RateLimiter -----------------------------
(***************************************************************************)
(* The rate limits of the HTTP routes: the middleware in front of a        *)
(* handler asks a limiter, which counts the request of an identity in one  *)
(* Redis key with a fixed window.  A limited route has one limiter, routes *)
(* may share it, and a user or a remote address is the identity.           *)
(*                                                                         *)
(* The Lua script is atomic.  The Redis client runs it again when a reply  *)
(* is lost, so that one request may count several times, and the request   *)
(* is turned away if no reply comes in the end.  The counter matters only  *)
(* as far as it is compared with the limit: it stops one above.            *)
(***************************************************************************)
EXTENDS Naturals, FiniteSets

CONSTANTS
  Clients,
  Routes,       \* the limited routes
  Limiters,
  RouteLimiter, \* router.go: the limiter in front of each route
  Anonymous,    \* the limiters that go by remote address
  User,         \* of each client
  Address,      \* of each client
  Limit,        \* of each limiter: *_RATE_LIMIT
  Window,       \* of each limiter: *_RATE_WINDOW_SECONDS, in ticks
  Second,       \* the ticks of a second
  MaxRuns       \* bound of the runs of the script for one request

ASSUME LimiterAssumption ==
  /\ RouteLimiter \in [Routes -> Limiters]
  /\ Limit \in [Limiters -> Nat \ {0}]
  /\ Window \in [Limiters -> Nat \ {0}]
  /\ Second \in Nat \ {0}
  /\ MaxRuns \in Nat \ {0}

Identities == {User[c] : c \in Clients} \cup {Address[c] : c \in Clients}

Keys == Limiters \X Identities

VARIABLES
  count,     \* the counter of each key, 0 if the key does not exist
  ttl,       \* its time to live
  admitted,  \* requests of a route and an identity let through in this window
  recent,    \* requests of a key let through in each of the last ticks
  retry      \* what is left of the Retry-After given in this window, 0 if none was

vars == <<count, ttl, admitted, recent, retry>>

LimiterOf(route) == RouteLimiter[route]

KeyOf(route, c) ==
  LET l == LimiterOf(route) IN <<l, IF l \in Anonymous THEN Address[c] ELSE User[c]>>

LimitOf(k) == Limit[k[1]]
WindowOf(k) == Window[k[1]]

Ages(k) == 0..(WindowOf(k) - 1)

Init ==
  /\ count = [k \in Keys |-> 0]
  /\ ttl = [k \in Keys |-> 0]
  /\ admitted = [x \in Routes \X Identities |-> 0]
  /\ recent = [k \in Keys |-> [a \in Ages(k) |-> 0]]
  /\ retry = [k \in Keys |-> 0]

----------------------------------------------------------------------------
\* Mutants: the expiry is set by every run; a crash may come before it is set.
AllowSliding(k, runs) ==
  /\ count' = [count EXCEPT ![k] = IF @ + runs > LimitOf(k) THEN LimitOf(k) + 1 ELSE @ + runs]
  /\ ttl' = [ttl EXCEPT ![k] = WindowOf(k)]
AllowInTwoSteps(k, runs) ==
  /\ count' = [count EXCEPT ![k] = IF @ + runs > LimitOf(k) THEN LimitOf(k) + 1 ELSE @ + runs]
  /\ \/ ttl' = [ttl EXCEPT ![k] = IF count[k] = 0 THEN WindowOf(k) ELSE @]
     \/ UNCHANGED ttl

\* The script: the first count of a window sets its end.
Allow(k, runs) ==
  /\ count' = [count EXCEPT ![k] = IF @ + runs > LimitOf(k) THEN LimitOf(k) + 1 ELSE @ + runs]
  /\ ttl' = [ttl EXCEPT ![k] = IF count[k] = 0 THEN WindowOf(k) ELSE @]

\* Mutants: the limit itself is too much; the limiter is passed when Redis fails;
\* whole seconds are cut off.
AllowedOffByOne(k) == count'[k] <= LimitOf(k) + 1
RoundDown(t) == (t \div Second) * Second

Allowed(k) == count'[k] <= LimitOf(k)

\* Retry-After is in whole seconds.
RoundUp(t) == ((t + Second - 1) \div Second) * Second

Admit(route, k) ==
  /\ admitted' = [admitted EXCEPT ![<<route, k[2]>>] = @ + 1]
  /\ recent' = [recent EXCEPT ![k][0] = @ + 1]
  /\ UNCHANGED retry

Refuse(k) ==
  /\ retry' = [retry EXCEPT ![k] = RoundUp(ttl'[k])]
  /\ UNCHANGED <<admitted, recent>>

\* Mutant: a request that the limiter could not count is let through.
UnavailableOpen(route, k) == Admit(route, k)

\* No reply, or one that makes no sense: 503.
Unavailable(route, k) == UNCHANGED <<admitted, recent, retry>>

\* A request of client c passes the middleware of a route.
Request(c, route) ==
  LET k == KeyOf(route, c) IN
  \/ \E runs \in 1..MaxRuns :
       /\ Allow(k, runs)
       /\ \/ ttl'[k] > 0 /\ Allowed(k) /\ Admit(route, k)
          \/ ttl'[k] > 0 /\ ~Allowed(k) /\ Refuse(k)
          \/ Unavailable(route, k)
  \/ /\ UNCHANGED <<count, ttl>>
     /\ Unavailable(route, k)

\* Time passes for all keys; a key whose time is over is gone.
Tick ==
  LET Over(k) == ttl[k] = 1 IN
  /\ ttl' = [k \in Keys |-> IF ttl[k] > 0 THEN ttl[k] - 1 ELSE 0]
  /\ count' = [k \in Keys |-> IF Over(k) THEN 0 ELSE count[k]]
  /\ retry' = [k \in Keys |-> IF Over(k) \/ retry[k] = 0 THEN 0 ELSE retry[k] - 1]
  /\ admitted' = [x \in Routes \X Identities |->
                   IF Over(<<LimiterOf(x[1]), x[2]>>) THEN 0 ELSE admitted[x]]
  /\ recent' = [k \in Keys |-> [a \in Ages(k) |-> IF a = 0 THEN 0 ELSE recent[k][a - 1]]]

Next ==
  \/ \E c \in Clients, route \in Routes : Request(c, route)
  \/ Tick

Spec == Init /\ [][Next]_vars

\* Time passes; nothing is assumed of the clients.
FairSpec == Spec /\ WF_vars(Tick)

----------------------------------------------------------------------------
(* Properties                                                              *)

\* The sum of f over S, as the number of the units that f counts.
Units(f, S) == UNION {{x} \X (1..f[x]) : x \in S}
Total(f, S) == Cardinality(Units(f, S))

\* The requests of identity i that limiter l let through in this window, by route.
RoutesOf(l) == {r \in Routes : RouteLimiter[r] = l}
Passed(l, i) == [r \in RoutesOf(l) |-> admitted[<<r, i>>]]

\* Over all the routes that share a limiter, an identity gets at most the limit in a
\* window, and nothing that was not counted: replies that are lost only ever cost it
\* requests.
WindowBound ==
  \A l \in Limiters, i \in Identities :
    LET total == Total(Passed(l, i), RoutesOf(l))
    IN  total <= Limit[l] /\ total <= count[<<l, i>>]

\* Around the edge of two windows more than the limit may pass within the length of one,
\* but never twice the limit: the first request of a window is always outside.
SlidingBound ==
  \A k \in Keys : Total(recent[k], Ages(k)) <= 2 * LimitOf(k) - 1

\* A counter and its expiry exist together, so no identity is locked out for ever by a
\* key that does not expire, or turned away by a ttl that makes no sense.
CountersExpire == \A k \in Keys : count[k] > 0 <=> ttl[k] > 0

\* A client that was refused and waits as Retry-After says finds that window over, and
\* waits less than a second too long.
RetryAfterFits ==
  \A k \in Keys : retry[k] > 0 => ttl[k] <= retry[k] /\ retry[k] < ttl[k] + Second

\* Requests that are refused do not prolong the window: even a client that never stops
\* asking is admitted again.
LockoutEnds == \A k \in Keys : count[k] > LimitOf(k) ~> count[k] <= LimitOf(k)
=============================================================================
