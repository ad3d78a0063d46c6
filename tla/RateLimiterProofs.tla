-------------------------- MODULE RateLimiterProofs --------------------------
(***************************************************************************)
(* For any clients, routes, limits and windows: a counter and its expiry   *)
(* exist together (CountersExpire), Retry-After names the end of the       *)
(* window (RetryAfterFits), a window lets the limit through at most        *)
(* (WindowBound), and any stretch of its length less than twice the limit  *)
(* (SlidingBound).                                                         *)
(***************************************************************************)
EXTENDS RateLimiter, FiniteSetTheorems, TLAPS

USE LimiterAssumption

----------------------------------------------------------------------------
(* Whole seconds.                                                          *)

LEMMA Quotient ==
  ASSUME NEW n \in Nat, NEW s \in Nat \ {0}
  PROVE  /\ n \div s \in Nat
         /\ (n \div s) * s \in Nat
         /\ (n \div s) * s <= n /\ n < (n \div s) * s + s
<1>1. n \div s \in Nat /\ n % s \in 0..(s - 1) /\ n = s * (n \div s) + (n % s)
    BY Z3
<1>2. PICK q \in Nat : q = n \div s
    BY <1>1
<1>3. s * q = q * s /\ q * s \in Nat
    BY Z3
<1> QED BY <1>1, <1>2, <1>3

\* Rounding up gives the first whole second that is not earlier.
LEMMA RoundedUp ==
  ASSUME NEW t \in Nat \ {0}
  PROVE  RoundUp(t) \in Nat /\ t <= RoundUp(t) /\ RoundUp(t) < t + Second
<1>1. t + Second - 1 \in Nat
    OBVIOUS
<1>2. PICK n \in Nat : n = t + Second - 1
    BY <1>1
<1>3. RoundUp(t) = (n \div Second) * Second
    BY <1>2 DEF RoundUp
<1> QED BY <1>2, <1>3, Quotient

----------------------------------------------------------------------------
(* The invariant.                                                          *)

KeyInv(k) ==
  /\ count[k] \in Nat /\ ttl[k] \in Nat /\ retry[k] \in Nat
  /\ count[k] > 0 <=> ttl[k] > 0
  /\ retry[k] > 0 => ttl[k] > 0 /\ ttl[k] <= retry[k] /\ retry[k] < ttl[k] + Second

Inv ==
  /\ DOMAIN count = Keys /\ DOMAIN ttl = Keys /\ DOMAIN retry = Keys
  /\ count = [k \in Keys |-> count[k]]
  /\ ttl = [k \in Keys |-> ttl[k]]
  /\ retry = [k \in Keys |-> retry[k]]
  /\ \A k \in Keys : KeyInv(k)

LEMMA Limits ==
  ASSUME NEW k \in Keys
  PROVE  LimitOf(k) \in Nat \ {0} /\ WindowOf(k) \in Nat \ {0}
BY DEF Keys, LimitOf, WindowOf

LEMMA KeyOfRequest ==
  ASSUME NEW c \in Clients, NEW route \in Routes
  PROVE  KeyOf(route, c) \in Keys
BY DEF KeyOf, LimiterOf, Keys, Identities

LEMMA InitInv == Init => Inv
BY DEF Init, Inv, KeyInv

\* A run of the script counts, and sets the end of the window with the first count.
LEMMA Counts ==
  ASSUME Inv, NEW k \in Keys, NEW runs \in Nat \ {0}, Allow(k, runs)
  PROVE  /\ count'[k] \in Nat \ {0}
         /\ ttl'[k] \in Nat \ {0}
         /\ count[k] > 0 => ttl'[k] = ttl[k]
         /\ count' = [count EXCEPT ![k] = count'[k]]
         /\ ttl' = [ttl EXCEPT ![k] = ttl'[k]]
BY Limits DEF Allow, Inv, KeyInv

LEMMA RequestKeeps ==
  ASSUME Inv, NEW c \in Clients, NEW route \in Routes, Request(c, route)
  PROVE  Inv'
<1>1. PICK k \in Keys : k = KeyOf(route, c)
    BY KeyOfRequest
<1>2. ASSUME NEW runs \in 1..MaxRuns, Allow(k, runs),
             UNCHANGED retry \/ Refuse(k)
      PROVE  Inv'
  <2>1. /\ count'[k] \in Nat \ {0} /\ ttl'[k] \in Nat \ {0}
        /\ count[k] > 0 => ttl'[k] = ttl[k]
        /\ count' = [count EXCEPT ![k] = count'[k]] /\ ttl' = [ttl EXCEPT ![k] = ttl'[k]]
      BY <1>2, Counts
  <2>2. CASE UNCHANGED retry
    <3>1. KeyInv(k)'
        BY <2>1, <2>2 DEF Inv, KeyInv
    <3>2. \A x \in Keys \ {k} : KeyInv(x)'
        BY <2>1, <2>2 DEF Inv, KeyInv
    <3> QED BY <2>1, <2>2, <3>1, <3>2 DEF Inv
  <2>3. CASE Refuse(k)
    <3>1. PICK t \in Nat \ {0} : t = ttl'[k]
        BY <2>1
    <3>2. RoundUp(t) \in Nat /\ t <= RoundUp(t) /\ RoundUp(t) < t + Second
        BY RoundedUp
    <3>3. retry' = [retry EXCEPT ![k] = RoundUp(t)]
        BY <2>3, <3>1 DEF Refuse
    <3>4. KeyInv(k)'
        BY <2>1, <3>1, <3>2, <3>3 DEF Inv, KeyInv
    <3>5. \A x \in Keys \ {k} : KeyInv(x)'
        BY <2>1, <3>3 DEF Inv, KeyInv
    <3> QED BY <2>1, <3>3, <3>4, <3>5 DEF Inv
  <2> QED BY <1>2, <2>2, <2>3
<1>3. CASE UNCHANGED <<count, ttl, retry>>
    BY <1>3 DEF Inv, KeyInv
<1> QED BY <1>1, <1>2, <1>3 DEF Request, Unavailable, Admit

LEMMA TickKeeps ==
  ASSUME Inv, Tick
  PROVE  Inv'
<1>1. /\ ttl' = [k \in Keys |-> IF ttl[k] > 0 THEN ttl[k] - 1 ELSE 0]
      /\ count' = [k \in Keys |-> IF ttl[k] = 1 THEN 0 ELSE count[k]]
      /\ retry' = [k \in Keys |-> IF ttl[k] = 1 \/ retry[k] = 0 THEN 0 ELSE retry[k] - 1]
    BY DEF Tick
<1>2. ASSUME NEW k \in Keys PROVE KeyInv(k)'
    BY <1>1 DEF Inv, KeyInv
<1> QED BY <1>1, <1>2 DEF Inv

LEMMA NextInv == Inv /\ [Next]_vars => Inv'
<1>1. Inv /\ UNCHANGED vars => Inv'
    BY DEF vars, Inv, KeyInv
<1> QED BY <1>1, RequestKeeps, TickKeeps DEF Next

\* A counter and its expiry exist together: nobody is locked out by a key that does not
\* expire.
THEOREM CountersDoExpire == Spec => []CountersExpire
<1>1. Inv => CountersExpire
    BY DEF Inv, KeyInv, CountersExpire
<1> QED BY <1>1, InitInv, NextInv, PTL DEF Spec

\* Whoever waits as long as Retry-After says finds the window over, and waits less than a
\* second too long.
THEOREM RetryAfterIsRight == Spec => []RetryAfterFits
<1>1. Inv => RetryAfterFits
    BY DEF Inv, KeyInv, RetryAfterFits
<1> QED BY <1>1, InitInv, NextInv, PTL DEF Spec

----------------------------------------------------------------------------
(* Sums, as numbers of units.                                              *)

\* The sum of f over S is n at most.
AtMost(f, S, n) == IsFiniteSet(Units(f, S)) /\ Total(f, S) <= n

LEMMA UnitOf ==
  ASSUME NEW f, NEW S, NEW u
  PROVE  u \in Units(f, S) <=> \E x \in S : \E n \in 1..f[x] : u = <<x, n>>
BY DEF Units

LEMMA TotalType ==
  ASSUME NEW f, NEW S, IsFiniteSet(Units(f, S))
  PROVE  Total(f, S) \in Nat
BY FS_CardinalityType DEF Total

LEMMA NothingCounted ==
  ASSUME NEW f, NEW S, \A x \in S : f[x] = 0
  PROVE  IsFiniteSet(Units(f, S)) /\ Total(f, S) = 0
<1>1. Units(f, S) = {}
    BY UnitOf
<1> QED BY <1>1, FS_EmptySet DEF Total

LEMMA SameUnits ==
  ASSUME NEW f, NEW g, NEW S, \A x \in S : g[x] = f[x]
  PROVE  Units(g, S) = Units(f, S) /\ Total(g, S) = Total(f, S)
<1>1. Units(g, S) = Units(f, S)
    BY DEF Units
<1> QED BY <1>1 DEF Total

LEMMA FewerUnits ==
  ASSUME NEW f, NEW T, IsFiniteSet(Units(f, T)), NEW S \in SUBSET T
  PROVE  IsFiniteSet(Units(f, S)) /\ Total(f, S) <= Total(f, T)
<1>1. Units(f, S) \subseteq Units(f, T)
    BY DEF Units
<1> QED BY <1>1, FS_Subset DEF Total

LEMMA UnitsTogether ==
  ASSUME NEW f, NEW S, NEW T, IsFiniteSet(Units(f, S)), IsFiniteSet(Units(f, T))
  PROVE  Total(f, S \cup T) <= Total(f, S) + Total(f, T)
<1>1. Units(f, S \cup T) = Units(f, S) \cup Units(f, T)
    BY DEF Units
<1>2. /\ IsFiniteSet(Units(f, S) \cup Units(f, T))
      /\ Cardinality(Units(f, S) \cup Units(f, T)) =
           Total(f, S) + Total(f, T) - Cardinality(Units(f, S) \cap Units(f, T))
    BY FS_Union DEF Total
<1>3. IsFiniteSet(Units(f, S) \cap Units(f, T))
    BY FS_Intersection
<1>4. Cardinality(Units(f, S) \cap Units(f, T)) \in Nat
    BY <1>3, FS_CardinalityType
<1>5. Total(f, S) \in Nat /\ Total(f, T) \in Nat
    BY TotalType
<1>6. Total(f, S \cup T) = Cardinality(Units(f, S) \cup Units(f, T))
    BY <1>1 DEF Total
<1> QED BY <1>2, <1>4, <1>5, <1>6

\* One more at x.
LEMMA OneMoreUnit ==
  ASSUME NEW f, NEW g, NEW S, NEW x \in S, f[x] \in Nat, g[x] = f[x] + 1,
         \A y \in S \ {x} : g[y] = f[y], IsFiniteSet(Units(f, S))
  PROVE  IsFiniteSet(Units(g, S)) /\ Total(g, S) <= Total(f, S) + 1
<1>1. Units(g, S) = Units(f, S) \cup {<<x, f[x] + 1>>}
  <2>1. ASSUME NEW u, u \in Units(g, S)
        PROVE  u \in Units(f, S) \cup {<<x, f[x] + 1>>}
    <3>1. PICK y \in S : \E n \in 1..g[y] : u = <<y, n>>
        BY <2>1, UnitOf
    <3>2. PICK n \in 1..g[y] : u = <<y, n>>
        BY <3>1
    <3>3. (y = x /\ n = f[x] + 1) \/ n \in 1..f[y]
        BY <3>2
    <3> QED BY <3>2, <3>3, UnitOf
  <2>2. ASSUME NEW u, u \in Units(f, S)
        PROVE  u \in Units(g, S)
    <3>1. PICK y \in S : \E n \in 1..f[y] : u = <<y, n>>
        BY <2>2, UnitOf
    <3>2. PICK n \in 1..f[y] : u = <<y, n>>
        BY <3>1
    <3>3. n \in 1..g[y]
        BY <3>2
    <3> QED BY <3>2, <3>3, UnitOf
  <2>3. <<x, f[x] + 1>> \in Units(g, S)
    <3>1. f[x] + 1 \in 1..g[x]
        OBVIOUS
    <3> QED BY <3>1, UnitOf
  <2> QED BY <2>1, <2>2, <2>3
<1>2. PICK u : u = <<x, f[x] + 1>>
    OBVIOUS
<1>3. /\ IsFiniteSet(Units(f, S) \cup {u})
      /\ Cardinality(Units(f, S) \cup {u}) =
           IF u \in Units(f, S) THEN Total(f, S) ELSE Total(f, S) + 1
    BY FS_AddElement DEF Total
<1>4. Total(f, S) \in Nat
    BY TotalType
<1>5. Units(g, S) = Units(f, S) \cup {u}
    BY <1>1, <1>2
<1>6. Total(g, S) = Cardinality(Units(f, S) \cup {u})
    BY <1>5 DEF Total
<1> QED BY <1>3, <1>4, <1>5, <1>6

\* What g counts at a, f counts a step earlier.
LEMMA UnitsShifted ==
  ASSUME NEW f, NEW g, NEW S \in SUBSET Nat, NEW T, IsFiniteSet(Units(f, T)),
         \A a \in S : g[a] = 0 \/ (a - 1 \in T /\ g[a] = f[a - 1])
  PROVE  IsFiniteSet(Units(g, S)) /\ Total(g, S) <= Total(f, T)
<1> DEFINE G == Units(g, S)
           F == Units(f, T)
           h == [u \in G |-> <<u[1] - 1, u[2]>>]
<1>1. ASSUME NEW u \in G
      PROVE  u = <<u[1], u[2]>> /\ u[1] \in Nat /\ <<u[1] - 1, u[2]>> \in F
  <2>0. u \in Units(g, S)
      OBVIOUS
  <2>1. PICK a \in S : \E n \in 1..g[a] : u = <<a, n>>
      BY <2>0 DEF Units
  <2>2. PICK n \in 1..g[a] : u = <<a, n>>
      BY <2>1
  <2>3. a - 1 \in T /\ n \in 1..f[a - 1]
      BY <2>2
  <2>4. <<a - 1, n>> \in F
      BY <2>3, UnitOf
  <2> QED BY <2>2, <2>4
<1>2. h \in [G -> F]
    BY <1>1
<1>3. ASSUME NEW u \in G, NEW v \in G, h[u] = h[v]
      PROVE  u = v
  <2>1. u[1] - 1 = v[1] - 1 /\ u[2] = v[2]
      BY <1>3
  <2>2. u[1] \in Nat /\ v[1] \in Nat /\ u = <<u[1], u[2]>> /\ v = <<v[1], v[2]>>
      BY <1>1
  <2>3. u[1] = v[1]
      BY <2>1, <2>2
  <2> QED BY <2>1, <2>2, <2>3
<1> HIDE DEF h
<1>4. h \in Injection(G, F)
    BY <1>2, <1>3 DEF Injection, IsInjective
<1>5. IsFiniteSet(G) /\ Cardinality(G) <= Cardinality(F)
    BY <1>4, FS_Injection
<1> QED BY <1>5 DEF Total

----------------------------------------------------------------------------
(* The window and the ticks of a key.                                      *)

\* The ages below n.
Younger(k, n) == {a \in Ages(k) : a < n}

\* What is let through while the window is e ticks old and counts c: its first tick may
\* have let the limit through, but the later ones less, and so less than the limit remains
\* of the window before it.
Passes(k, f, c, e) ==
  /\ AtMost(f, Younger(k, e), LimitOf(k) - 1) /\ AtMost(f, Younger(k, e), c - 1)
  /\ AtMost(f, Younger(k, e + 1), LimitOf(k)) /\ AtMost(f, Younger(k, e + 1), c)
  /\ AtMost(f, Ages(k) \ Younger(k, e + 1), LimitOf(k) - 1)

\* For a key with the recent requests f, the count c and the time to live t.
Slides(k, f, c, t) ==
  /\ f \in [Ages(k) -> Nat]
  /\ c <= LimitOf(k) + 1 /\ t <= WindowOf(k)
  /\ t = 0 => f[0] = 0 /\ AtMost(f, Ages(k), LimitOf(k) - 1)
  /\ t > 0 => Passes(k, f, c, WindowOf(k) - t)

LEMMA AgesFromZero ==
  ASSUME NEW k \in Keys
  PROVE  /\ LimitOf(k) \in Nat \ {0} /\ WindowOf(k) \in Nat \ {0}
         /\ 0 \in Ages(k) /\ Ages(k) \subseteq Nat
         /\ Younger(k, 0) = {} /\ Younger(k, 0 + 1) = {0}
         /\ \A n : Younger(k, n) \subseteq Nat /\ Younger(k, n) \subseteq Ages(k)
BY Limits DEF Ages, Younger

LEMMA SlidesBelowTwice ==
  ASSUME NEW k \in Keys, NEW f, NEW c \in Nat, NEW t \in Nat, Slides(k, f, c, t)
  PROVE  Total(f, Ages(k)) <= 2 * LimitOf(k) - 1
<1>0. LimitOf(k) \in Nat \ {0}
    BY Limits
<1>1. CASE t = 0
  <2>1. IsFiniteSet(Units(f, Ages(k))) /\ Total(f, Ages(k)) <= LimitOf(k) - 1
      BY <1>1 DEF Slides, AtMost
  <2>2. Total(f, Ages(k)) \in Nat
      BY <2>1, TotalType
  <2> QED BY <1>0, <2>1, <2>2
<1>2. CASE t > 0
  <2>1. PICK Y : Y = Younger(k, WindowOf(k) - t + 1) /\ Y \subseteq Ages(k)
      BY DEF Younger
  <2>2. PICK R : R = Ages(k) \ Y
      OBVIOUS
  <2>3. AtMost(f, Y, LimitOf(k)) /\ AtMost(f, R, LimitOf(k) - 1)
      BY <1>2, <2>1, <2>2 DEF Slides, Passes
  <2>4. Total(f, Y) \in Nat /\ Total(f, R) \in Nat
      BY <2>3, TotalType DEF AtMost
  <2>5. Total(f, Y \cup R) <= Total(f, Y) + Total(f, R)
      BY <2>3, UnitsTogether DEF AtMost
  <2>6. Y \cup R = Ages(k)
      BY <2>1, <2>2
  <2>7. IsFiniteSet(Units(f, Ages(k)))
    <3>1. Units(f, Ages(k)) = Units(f, Y) \cup Units(f, R)
        BY <2>6 DEF Units
    <3> QED BY <2>3, <3>1, FS_Union DEF AtMost
  <2>8. Total(f, Ages(k)) \in Nat /\ Total(f, Ages(k)) <= Total(f, Y) + Total(f, R)
      BY <2>5, <2>6, <2>7, TotalType
  <2> QED BY <1>0, <2>3, <2>4, <2>8 DEF AtMost
<1> QED BY <1>1, <1>2

\* The count grows, and starts a window if there is none.
LEMMA SlidesCounted ==
  ASSUME NEW k \in Keys, NEW f, NEW c \in Nat, NEW t \in Nat, Slides(k, f, c, t),
         c > 0 <=> t > 0,
         NEW c2 \in Nat \ {0}, c2 >= c, c2 <= LimitOf(k) + 1,
         NEW t2, t2 = IF c = 0 THEN WindowOf(k) ELSE t
  PROVE  Slides(k, f, c2, t2)
<1>0. /\ LimitOf(k) \in Nat \ {0} /\ WindowOf(k) \in Nat \ {0} /\ f \in [Ages(k) -> Nat]
      /\ Younger(k, 0) = {} /\ Younger(k, 0 + 1) = {0}
    BY AgesFromZero DEF Slides
<1>1. CASE c = 0
  <2>1. t = 0 /\ t2 = WindowOf(k) /\ WindowOf(k) - t2 = 0
      BY <1>0, <1>1
  <2>2. f[0] = 0 /\ AtMost(f, Ages(k), LimitOf(k) - 1)
      BY <2>1 DEF Slides
  <2>3. IsFiniteSet(Units(f, {})) /\ Total(f, {}) = 0
      BY NothingCounted
  <2>4. IsFiniteSet(Units(f, {0})) /\ Total(f, {0}) = 0
      BY <2>2, NothingCounted
  <2>5. PICK R : R = Ages(k) \ {0} /\ R \subseteq Ages(k)
      OBVIOUS
  <2>6. AtMost(f, R, LimitOf(k) - 1)
    <3>1. IsFiniteSet(Units(f, R)) /\ Total(f, R) <= Total(f, Ages(k))
        BY <2>2, <2>5, FewerUnits DEF AtMost
    <3>2. Total(f, R) \in Nat /\ Total(f, Ages(k)) \in Nat
        BY <2>2, <3>1, TotalType DEF AtMost
    <3> QED BY <1>0, <2>2, <3>1, <3>2 DEF AtMost
  <2>7. /\ AtMost(f, {}, LimitOf(k) - 1) /\ AtMost(f, {}, c2 - 1)
        /\ AtMost(f, {0}, LimitOf(k)) /\ AtMost(f, {0}, c2)
      BY <1>0, <2>3, <2>4 DEF AtMost
  <2>8. Passes(k, f, c2, 0)
      BY <1>0, <2>5, <2>6, <2>7 DEF Passes
  <2> QED BY <1>0, <2>1, <2>8 DEF Slides
<1>2. CASE c > 0
  <2>1. t2 = t /\ t > 0
      BY <1>2
  <2>2. \A S : (AtMost(f, S, c) => AtMost(f, S, c2)) /\ (AtMost(f, S, c - 1) => AtMost(f, S, c2 - 1))
      BY TotalType DEF AtMost
  <2> QED BY <1>2, <2>1, <2>2 DEF Slides, Passes
<1> QED BY <1>1, <1>2

\* A request that passes counts for the age 0.
LEMMA SlidesAdmitted ==
  ASSUME NEW k \in Keys, NEW f, NEW c \in Nat, NEW t \in Nat, Slides(k, f, c, t),
         c > 0 <=> t > 0,
         NEW c2 \in Nat, c2 >= c + 1, c2 <= LimitOf(k),
         NEW t2, t2 = IF c = 0 THEN WindowOf(k) ELSE t,
         NEW g, g = [f EXCEPT ![0] = @ + 1]
  PROVE  Slides(k, g, c2, t2)
<1>0. /\ LimitOf(k) \in Nat \ {0} /\ WindowOf(k) \in Nat \ {0} /\ f \in [Ages(k) -> Nat]
      /\ Younger(k, 0) = {} /\ Younger(k, 0 + 1) = {0}
      /\ 0 \in Ages(k) /\ Ages(k) \subseteq Nat
    BY AgesFromZero DEF Slides
<1>1. g \in [Ages(k) -> Nat] /\ g[0] = f[0] + 1 /\ \A a \in Ages(k) \ {0} : g[a] = f[a]
    BY <1>0
<1>2. ASSUME NEW S \in SUBSET Ages(k), NEW n \in Int, AtMost(f, S, n)
      PROVE  AtMost(g, S, n + 1) /\ (0 \notin S => AtMost(g, S, n))
  <2>1. Total(f, S) \in Nat /\ IsFiniteSet(Units(f, S)) /\ Total(f, S) <= n
      BY <1>2, TotalType DEF AtMost
  <2>2. CASE 0 \in S
    <3>1. f[0] \in Nat /\ \A a \in S \ {0} : g[a] = f[a]
        BY <1>0, <1>1
    <3>2. IsFiniteSet(Units(g, S)) /\ Total(g, S) <= Total(f, S) + 1
        BY <1>1, <2>1, <2>2, <3>1, OneMoreUnit
    <3>3. Total(g, S) \in Nat
        BY <3>2, TotalType
    <3> QED BY <2>1, <2>2, <3>2, <3>3 DEF AtMost
  <2>3. CASE 0 \notin S
    <3>0. \A a \in S : g[a] = f[a]
        BY <1>1, <2>3
    <3>1. Units(g, S) = Units(f, S) /\ Total(g, S) = Total(f, S)
        BY <3>0 DEF Units, Total
    <3> QED BY <2>1, <2>3, <3>1 DEF AtMost
  <2> QED BY <2>2, <2>3
<1>3. CASE c = 0
  <2>1. t = 0 /\ t2 = WindowOf(k) /\ WindowOf(k) - t2 = 0
      BY <1>0, <1>3
  <2>2. f[0] = 0 /\ AtMost(f, Ages(k), LimitOf(k) - 1)
      BY <2>1 DEF Slides
  <2>3. AtMost(f, {}, 0) /\ AtMost(f, {0}, 0)
      BY <2>2, NothingCounted DEF AtMost
  <2>4. PICK R : R = Ages(k) \ {0} /\ R \subseteq Ages(k)
      OBVIOUS
  <2>5. AtMost(f, R, LimitOf(k) - 1)
    <3>1. IsFiniteSet(Units(f, R)) /\ Total(f, R) <= Total(f, Ages(k))
        BY <2>2, <2>4, FewerUnits DEF AtMost
    <3>2. Total(f, R) \in Nat /\ Total(f, Ages(k)) \in Nat
        BY <2>2, <3>1, TotalType DEF AtMost
    <3> QED BY <1>0, <2>2, <3>1, <3>2 DEF AtMost
  <2>6. AtMost(g, R, LimitOf(k) - 1) /\ AtMost(g, {}, 0) /\ AtMost(g, {0}, 0 + 1)
    <3>1. LimitOf(k) - 1 \in Int /\ 0 \notin R /\ 0 \notin {}
        BY <1>0, <2>4
    <3>2. AtMost(g, R, LimitOf(k) - 1)
      <4>1. R \in SUBSET Ages(k)
          BY <2>4
      <4> QED BY <1>2, <2>5, <3>1, <4>1
    <3>3. AtMost(g, {}, 0)
        BY NothingCounted DEF AtMost
    <3>4. AtMost(g, {0}, 0 + 1)
      <4>1. {0} \in SUBSET Ages(k) /\ 0 \in Int
          BY <1>0
      <4> QED BY <1>2, <2>3, <4>1
    <3> QED BY <3>2, <3>3, <3>4
  <2>7. /\ AtMost(g, {}, LimitOf(k) - 1) /\ AtMost(g, {}, c2 - 1)
        /\ AtMost(g, {0}, LimitOf(k)) /\ AtMost(g, {0}, c2)
      BY <1>0, <1>3, <2>6, TotalType DEF AtMost
  <2>8. Passes(k, g, c2, 0)
      BY <1>0, <2>4, <2>6, <2>7 DEF Passes
  <2>9. c2 <= LimitOf(k) + 1
      BY <1>0
  <2> QED BY <1>0, <1>1, <2>1, <2>8, <2>9 DEF Slides
<1>4. CASE c > 0
  <2>1. PICK e \in Nat : e = WindowOf(k) - t
      BY <1>0 DEF Slides
  <2> DEFINE Y == Younger(k, e)
             Z == Younger(k, e + 1)
             R == Ages(k) \ Z
  <2>2. Y \subseteq Ages(k) /\ Z \subseteq Ages(k) /\ R \subseteq Ages(k) /\ 0 \notin R
      BY <1>0 DEF Younger
  <2>3. t2 = t /\ t > 0 /\ t <= WindowOf(k)
      BY <1>4 DEF Slides
  <2>4. AtMost(f, Y, c - 1) /\ AtMost(f, Z, c) /\ AtMost(f, R, LimitOf(k) - 1)
      BY <2>1, <2>3 DEF Slides, Passes
  <2> HIDE DEF Y, Z, R
  <2>5. AtMost(g, Y, c - 1 + 1) /\ AtMost(g, Z, c + 1) /\ AtMost(g, R, LimitOf(k) - 1)
    <3>1. LimitOf(k) - 1 \in Int /\ c - 1 \in Int /\ c \in Int
        BY <1>0
    <3>2. AtMost(g, Y, c - 1 + 1)
        BY <1>2, <2>2, <2>4, <3>1
    <3>3. AtMost(g, Z, c + 1)
        BY <1>2, <2>2, <2>4, <3>1
    <3>4. AtMost(g, R, LimitOf(k) - 1)
        BY <1>2, <2>2, <2>4, <3>1
    <3> QED BY <3>2, <3>3, <3>4
  <2>6. /\ AtMost(g, Y, c2 - 1) /\ AtMost(g, Y, LimitOf(k) - 1)
        /\ AtMost(g, Z, c2) /\ AtMost(g, Z, LimitOf(k))
      BY <1>0, <2>5, TotalType DEF AtMost
  <2>7. c2 <= LimitOf(k) + 1
      BY <1>0
  <2>8. Passes(k, g, c2, e)
      BY <2>5, <2>6 DEF Passes, Y, Z, R
  <2> QED BY <1>1, <2>1, <2>3, <2>7, <2>8 DEF Slides
<1> QED BY <1>3, <1>4

\* Time passes: the ages move on, and the oldest one drops out.
LEMMA SlidesTick ==
  ASSUME NEW k \in Keys, NEW f, NEW c \in Nat, NEW t \in Nat, Slides(k, f, c, t),
         NEW c2, c2 = IF t = 1 THEN 0 ELSE c,
         NEW t2, t2 = IF t > 0 THEN t - 1 ELSE 0,
         NEW g, g = [a \in Ages(k) |-> IF a = 0 THEN 0 ELSE f[a - 1]]
  PROVE  Slides(k, g, c2, t2)
<1>0. /\ LimitOf(k) \in Nat \ {0} /\ WindowOf(k) \in Nat \ {0} /\ f \in [Ages(k) -> Nat]
      /\ 0 \in Ages(k) /\ Ages(k) \subseteq Nat
    BY AgesFromZero DEF Slides
<1>1. /\ g \in [Ages(k) -> Nat] /\ g[0] = 0
      /\ \A a \in Ages(k) \ {0} : a - 1 \in Ages(k) /\ g[a] = f[a - 1]
    BY <1>0 DEF Ages
<1>2. ASSUME NEW S \in SUBSET Ages(k), NEW T \in SUBSET Ages(k), NEW n \in Int, AtMost(f, T, n),
             \A a \in S \ {0} : a - 1 \in T
      PROVE  AtMost(g, S, n)
  <2>1. S \subseteq Nat /\ \A a \in S : g[a] = 0 \/ (a - 1 \in T /\ g[a] = f[a - 1])
      BY <1>0, <1>1, <1>2
  <2>2. IsFiniteSet(Units(g, S)) /\ Total(g, S) <= Total(f, T)
      BY <1>2, <2>1, UnitsShifted DEF AtMost
  <2>3. Total(g, S) \in Nat /\ Total(f, T) \in Nat
      BY <1>2, <2>2, TotalType DEF AtMost
  <2> QED BY <1>2, <2>2, <2>3 DEF AtMost
<1>3. c2 <= LimitOf(k) + 1 /\ t2 <= WindowOf(k)
    BY <1>0 DEF Slides
<1>4. CASE t = 0
  <2>1. AtMost(f, Ages(k), LimitOf(k) - 1)
      BY <1>4 DEF Slides
  <2>2. AtMost(g, Ages(k), LimitOf(k) - 1)
      BY <1>0, <1>1, <1>2, <2>1
  <2> QED BY <1>1, <1>3, <1>4, <2>2 DEF Slides
<1>5. CASE t = 1
  <2>1. AtMost(f, Younger(k, WindowOf(k) - 1), LimitOf(k) - 1)
      BY <1>5 DEF Slides, Passes
  <2>2. PICK T : T = Younger(k, WindowOf(k) - 1) /\ T \subseteq Ages(k)
      BY DEF Younger
  <2>3. \A a \in Ages(k) \ {0} : a - 1 \in T
      BY <1>0, <2>2 DEF Younger, Ages
  <2>4. AtMost(g, Ages(k), LimitOf(k) - 1)
      BY <1>0, <1>2, <2>1, <2>2, <2>3
  <2> QED BY <1>1, <1>3, <1>5, <2>4 DEF Slides
<1>6. CASE t > 1
  <2>1. PICK e \in Nat : e = WindowOf(k) - t
      BY <1>0 DEF Slides
  <2>2. WindowOf(k) - t2 = e + 1 /\ t2 > 0 /\ c2 = c /\ t > 0
      BY <1>0, <1>6, <2>1
  <2> DEFINE Y == Younger(k, e)
             Z == Younger(k, e + 1)
             Z2 == Younger(k, e + 1 + 1)
             R == Ages(k) \ Z
             R2 == Ages(k) \ Z2
  <2>3. /\ Y \subseteq Ages(k) /\ Z \subseteq Ages(k) /\ Z2 \subseteq Ages(k)
        /\ R \subseteq Ages(k) /\ R2 \subseteq Ages(k)
      BY DEF Younger
  <2>4. \A a \in Z \ {0} : a - 1 \in Y
      BY <1>0 DEF Younger, Ages
  <2>5. \A a \in Z2 \ {0} : a - 1 \in Z
      BY <1>0 DEF Younger, Ages
  <2>6. \A a \in R2 \ {0} : a - 1 \in R
      BY <1>0 DEF Younger, Ages
  <2>7. /\ AtMost(f, Y, LimitOf(k) - 1) /\ AtMost(f, Y, c - 1)
        /\ AtMost(f, Z, LimitOf(k)) /\ AtMost(f, Z, c) /\ AtMost(f, R, LimitOf(k) - 1)
      BY <2>1, <2>2 DEF Slides, Passes
  <2>8. LimitOf(k) - 1 \in Int /\ LimitOf(k) \in Int /\ c - 1 \in Int /\ c \in Int
      BY <1>0
  <2> HIDE DEF Y, Z, Z2, R, R2
  <2>9. AtMost(g, Z, LimitOf(k) - 1) /\ AtMost(g, Z, c - 1)
      BY <1>2, <2>3, <2>4, <2>7, <2>8
  <2>10. AtMost(g, Z2, LimitOf(k)) /\ AtMost(g, Z2, c)
      BY <1>2, <2>3, <2>5, <2>7, <2>8
  <2>11. AtMost(g, R2, LimitOf(k) - 1)
      BY <1>2, <2>3, <2>6, <2>7, <2>8
  <2>12. Passes(k, g, c2, e + 1)
      BY <2>2, <2>9, <2>10, <2>11 DEF Passes, Z, Z2, R2
  <2> QED BY <1>1, <1>3, <2>2, <2>12 DEF Slides
<1> QED BY <1>4, <1>5, <1>6

----------------------------------------------------------------------------
(* What the limiters let through.                                          *)

PassedInv(l, i) ==
  AtMost(Passed(l, i), RoutesOf(l), Limit[l]) /\ AtMost(Passed(l, i), RoutesOf(l), count[<<l, i>>])

SumsInv ==
  /\ admitted \in [Routes \X Identities -> Nat]
  /\ recent = [k \in Keys |-> recent[k]]
  /\ \A l \in Limiters, i \in Identities : PassedInv(l, i)
  /\ \A k \in Keys : Slides(k, recent[k], count[k], ttl[k])

\* A request counts for its key, and is let through only if the count stays in the limit.
LEMMA RequestCounts ==
  ASSUME Inv, SumsInv, NEW c \in Clients, NEW route \in Routes, Request(c, route),
         NEW k \in Keys, k = KeyOf(route, c)
  PROVE  \/ UNCHANGED <<count, ttl, admitted, recent>>
         \/ /\ \A x \in Keys \ {k} : count'[x] = count[x] /\ ttl'[x] = ttl[x]
            /\ count'[k] \in Nat \ {0} /\ count'[k] >= count[k] /\ count'[k] <= LimitOf(k) + 1
            /\ ttl'[k] = IF count[k] = 0 THEN WindowOf(k) ELSE ttl[k]
            /\ \/ UNCHANGED <<admitted, recent>>
               \/ count'[k] >= count[k] + 1 /\ count'[k] <= LimitOf(k) /\ Admit(route, k)
<1>1. ASSUME NEW runs \in 1..MaxRuns, Allow(k, runs)
      PROVE  /\ \A x \in Keys \ {k} : count'[x] = count[x] /\ ttl'[x] = ttl[x]
             /\ count'[k] \in Nat \ {0} /\ count'[k] >= count[k]
             /\ count'[k] <= LimitOf(k) + 1
             /\ count'[k] <= LimitOf(k) => count'[k] >= count[k] + 1
             /\ ttl'[k] = IF count[k] = 0 THEN WindowOf(k) ELSE ttl[k]
  <2>1. count[k] \in Nat /\ count[k] <= LimitOf(k) + 1 /\ LimitOf(k) \in Nat /\ runs \in Nat \ {0}
      BY Limits DEF Inv, KeyInv, SumsInv, Slides
  <2>2. /\ count'[k] = IF count[k] + runs > LimitOf(k) THEN LimitOf(k) + 1 ELSE count[k] + runs
        /\ ttl'[k] = IF count[k] = 0 THEN WindowOf(k) ELSE ttl[k]
        /\ \A x \in Keys \ {k} : count'[x] = count[x] /\ ttl'[x] = ttl[x]
      BY <1>1 DEF Allow, Inv
  <2> QED BY <2>1, <2>2
<1>2. CASE \E runs \in 1..MaxRuns :
             Allow(k, runs) /\ (UNCHANGED <<admitted, recent>> \/ (Allowed(k) /\ Admit(route, k)))
    BY <1>1, <1>2 DEF Allowed
<1>3. CASE UNCHANGED <<count, ttl, admitted, recent>>
    BY <1>3
<1> QED BY <1>2, <1>3 DEF Request, Unavailable, Refuse

\* The routes of other limiters, and other identities, do not change what l let through.
LEMMA PassedSame ==
  ASSUME NEW l, NEW i, \A r \in RoutesOf(l) : admitted'[<<r, i>>] = admitted[<<r, i>>]
  PROVE  Passed(l, i)' = Passed(l, i)
BY DEF Passed, RoutesOf

LEMMA RequestPasses ==
  ASSUME Inv, SumsInv, NEW c \in Clients, NEW route \in Routes, Request(c, route),
         NEW l \in Limiters, NEW i \in Identities
  PROVE  PassedInv(l, i)'
<1>0. PICK k \in Keys : k = KeyOf(route, c)
    BY KeyOfRequest
<1>1. PICK x \in Keys : x = <<l, i>>
    BY DEF Keys
<1> DEFINE S == RoutesOf(l)
<1>2. PICK f : f = Passed(l, i)
    OBVIOUS
<1>21. f = [r \in S |-> admitted[<<r, i>>]]
    BY <1>2 DEF Passed
<1>3. AtMost(f, S, Limit[l]) /\ AtMost(f, S, count[x]) /\ Limit[l] \in Nat /\ count[x] \in Nat
    BY <1>1, <1>2 DEF SumsInv, PassedInv, Inv, KeyInv
<1>4. IsFiniteSet(Units(f, S)) /\ Total(f, S) \in Nat
    BY <1>3, TotalType DEF AtMost
<1>5. ASSUME Passed(l, i)' = f, count'[x] \in Nat, count'[x] >= count[x]
      PROVE  PassedInv(l, i)'
  <2>1. AtMost(f, S, count'[x])
      BY <1>3, <1>4, <1>5 DEF AtMost
  <2>2. S' = S
      BY DEF RoutesOf
  <2>3. PICK n : n = count'[x]
      OBVIOUS
  <2>4. AtMost(f, S, n) /\ AtMost(f, S, Limit[l])
      BY <1>3, <2>1, <2>3
  <2> QED BY <1>1, <1>5, <2>2, <2>3, <2>4 DEF PassedInv
<1>6. CASE UNCHANGED <<count, admitted>>
  <2>1. Passed(l, i)' = Passed(l, i) /\ count'[x] = count[x]
      BY <1>6, PassedSame
  <2> QED BY <1>2, <1>3, <1>5, <2>1
<1>7. CASE /\ \A y \in Keys \ {k} : count'[y] = count[y]
           /\ count'[k] \in Nat \ {0} /\ count'[k] >= count[k]
           /\ UNCHANGED admitted
  <2>1. count'[x] \in Nat /\ count'[x] >= count[x]
      BY <1>3, <1>7
  <2> QED BY <1>2, <1>5, <1>7, <2>1, PassedSame
<1>8. CASE /\ \A y \in Keys \ {k} : count'[y] = count[y]
           /\ count'[k] \in Nat \ {0} /\ count'[k] >= count[k] + 1 /\ count'[k] <= LimitOf(k)
           /\ Admit(route, k)
  <2>1. PICK a \in Routes \X Identities : a = <<route, k[2]>>
      BY DEF Keys
  <2>2. /\ admitted'[a] = admitted[a] + 1 /\ admitted[a] \in Nat
        /\ \A y \in (Routes \X Identities) \ {a} : admitted'[y] = admitted[y]
      BY <1>8, <2>1 DEF Admit, SumsInv
  <2>3. k[1] = RouteLimiter[route]
      BY <1>0 DEF KeyOf, LimiterOf
  <2>4. CASE x # k
    <3>1. \A r \in S : <<r, i>> # a
        BY <1>1, <2>1, <2>3, <2>4 DEF RoutesOf, Keys
    <3>2. Passed(l, i)' = f
        BY <1>2, <2>2, <3>1, PassedSame DEF RoutesOf
    <3>3. count'[x] = count[x]
        BY <1>8, <2>4
    <3> QED BY <1>3, <1>5, <3>2, <3>3
  <2>5. CASE x = k
    <3>1. route \in S /\ a = <<route, i>> /\ LimitOf(k) = Limit[l]
        BY <1>1, <2>1, <2>3, <2>5 DEF RoutesOf, LimitOf
    <3>2. PICK g : g = Passed(l, i)' /\ g = [r \in S |-> admitted'[<<r, i>>]]
        BY DEF Passed, RoutesOf
    <3>3. /\ f[route] \in Nat /\ g[route] = f[route] + 1
          /\ \A r \in S \ {route} : g[r] = f[r]
        BY <1>21, <2>2, <3>1, <3>2 DEF RoutesOf
    <3>4. IsFiniteSet(Units(g, S)) /\ Total(g, S) <= Total(f, S) + 1
        BY <1>4, <3>1, <3>3, OneMoreUnit
    <3>5. PICK n \in Nat : n = count'[x] /\ n >= count[x] + 1 /\ n <= Limit[l]
        BY <1>8, <2>5, <3>1
    <3>6. Total(g, S) \in Nat /\ Total(f, S) <= count[x]
        BY <1>3, <3>4, TotalType DEF AtMost
    <3>7. AtMost(g, S, n) /\ AtMost(g, S, Limit[l])
        BY <1>3, <1>4, <3>4, <3>5, <3>6 DEF AtMost
    <3>8. S' = S
        BY DEF RoutesOf
    <3> QED BY <1>1, <3>2, <3>5, <3>7, <3>8 DEF PassedInv
  <2> QED BY <2>4, <2>5
<1> QED BY <1>0, <1>6, <1>7, <1>8, RequestCounts

LEMMA RequestSlides ==
  ASSUME Inv, SumsInv, NEW c \in Clients, NEW route \in Routes, Request(c, route)
  PROVE  /\ admitted' \in [Routes \X Identities -> Nat]
         /\ recent' = [k \in Keys |-> recent'[k]]
         /\ \A x \in Keys : Slides(x, recent'[x], count'[x], ttl'[x])
<1>0. PICK k \in Keys : k = KeyOf(route, c)
    BY KeyOfRequest
<1>1. \A x \in Keys : /\ count[x] \in Nat /\ ttl[x] \in Nat /\ (count[x] > 0 <=> ttl[x] > 0)
                      /\ Slides(x, recent[x], count[x], ttl[x])
    BY DEF Inv, KeyInv, SumsInv
<1>2. PICK f, n, t, n2, t2 : /\ f = recent[k] /\ n = count[k] /\ t = ttl[k]
                             /\ n2 = count'[k] /\ t2 = ttl'[k]
    OBVIOUS
<1>3. n \in Nat /\ t \in Nat /\ (n > 0 <=> t > 0) /\ Slides(k, f, n, t)
    BY <1>1, <1>2
<1>4. CASE UNCHANGED <<count, ttl, admitted, recent>>
    BY <1>1, <1>4 DEF SumsInv
<1>5. CASE /\ \A x \in Keys \ {k} : count'[x] = count[x] /\ ttl'[x] = ttl[x]
           /\ n2 \in Nat \ {0} /\ n2 >= n /\ n2 <= LimitOf(k) + 1
           /\ t2 = IF n = 0 THEN WindowOf(k) ELSE t
           /\ UNCHANGED <<admitted, recent>>
  <2>1. Slides(k, f, n2, t2)
      BY <1>3, <1>5, SlidesCounted
  <2>2. \A x \in Keys \ {k} : Slides(x, recent'[x], count'[x], ttl'[x])
      BY <1>1, <1>5
  <2>3. Slides(k, recent'[k], count'[k], ttl'[k])
      BY <1>2, <1>5, <2>1
  <2> QED BY <1>5, <2>2, <2>3 DEF SumsInv
<1>6. CASE /\ \A x \in Keys \ {k} : count'[x] = count[x] /\ ttl'[x] = ttl[x]
           /\ n2 \in Nat \ {0} /\ n2 >= n + 1 /\ n2 <= LimitOf(k)
           /\ t2 = IF n = 0 THEN WindowOf(k) ELSE t
           /\ Admit(route, k)
  <2>1. PICK g : g = [f EXCEPT ![0] = @ + 1]
      OBVIOUS
  <2>2. Slides(k, g, n2, t2)
    <3>1. /\ n2 \in Nat /\ n2 >= n + 1 /\ n2 <= LimitOf(k)
          /\ t2 = IF n = 0 THEN WindowOf(k) ELSE t
        BY <1>6
    <3> QED BY <1>3, <2>1, <3>1, SlidesAdmitted
  <2>3. recent' = [recent EXCEPT ![k] = g]
      BY <1>2, <1>6, <2>1 DEF Admit, SumsInv
  <2>4. recent' = [x \in Keys |-> recent'[x]] /\ recent'[k] = g
        /\ \A x \in Keys \ {k} : recent'[x] = recent[x]
      BY <2>3 DEF SumsInv
  <2>5. \A x \in Keys \ {k} : Slides(x, recent'[x], count'[x], ttl'[x])
      BY <1>1, <1>6, <2>4
  <2>6. Slides(k, recent'[k], count'[k], ttl'[k])
      BY <1>2, <2>2, <2>4
  <2>7. admitted' \in [Routes \X Identities -> Nat]
    <3>1. <<route, k[2]>> \in Routes \X Identities
        BY DEF Keys
    <3> QED BY <1>6, <3>1 DEF Admit, SumsInv
  <2> QED BY <2>4, <2>5, <2>6, <2>7
<1> QED BY <1>0, <1>2, <1>4, <1>5, <1>6, RequestCounts

LEMMA TickSums ==
  ASSUME Inv, SumsInv, Tick
  PROVE  SumsInv'
<1>1. /\ ttl' = [k \in Keys |-> IF ttl[k] > 0 THEN ttl[k] - 1 ELSE 0]
      /\ count' = [k \in Keys |-> IF ttl[k] = 1 THEN 0 ELSE count[k]]
      /\ recent' = [k \in Keys |-> [a \in Ages(k) |-> IF a = 0 THEN 0 ELSE recent[k][a - 1]]]
      /\ admitted' = [x \in Routes \X Identities |->
                       IF ttl[<<RouteLimiter[x[1]], x[2]>>] = 1 THEN 0 ELSE admitted[x]]
    BY DEF Tick, LimiterOf
<1>2. admitted' \in [Routes \X Identities -> Nat]
    BY <1>1 DEF SumsInv
<1>3. ASSUME NEW k \in Keys
      PROVE  Slides(k, recent'[k], count'[k], ttl'[k])
  <2>1. PICK f, n, t, g, n2, t2 : /\ f = recent[k] /\ n = count[k] /\ t = ttl[k]
                                  /\ g = recent'[k] /\ n2 = count'[k] /\ t2 = ttl'[k]
      OBVIOUS
  <2>2. n \in Nat /\ t \in Nat /\ Slides(k, f, n, t)
      BY <2>1 DEF Inv, KeyInv, SumsInv
  <2>3. /\ g = [a \in Ages(k) |-> IF a = 0 THEN 0 ELSE f[a - 1]]
        /\ n2 = IF t = 1 THEN 0 ELSE n
        /\ t2 = IF t > 0 THEN t - 1 ELSE 0
      BY <1>1, <2>1
  <2>4. Slides(k, g, n2, t2)
      BY <2>2, <2>3, SlidesTick
  <2> QED BY <2>1, <2>4
<1>4. ASSUME NEW l \in Limiters, NEW i \in Identities
      PROVE  PassedInv(l, i)'
  <2>1. PICK x \in Keys : x = <<l, i>>
      BY DEF Keys
  <2>2. \A r \in RoutesOf(l) : <<r, i>> \in Routes \X Identities /\ RouteLimiter[r] = l
      BY DEF RoutesOf
  <2>3. CASE ttl[x] = 1
    <3>1. PICK g : g = Passed(l, i)' /\ g = [r \in RoutesOf(l) |-> admitted'[<<r, i>>]]
        BY DEF Passed, RoutesOf
    <3>2. \A r \in RoutesOf(l) : g[r] = 0
        BY <1>1, <2>1, <2>2, <2>3, <3>1
    <3>3. IsFiniteSet(Units(g, RoutesOf(l))) /\ Total(g, RoutesOf(l)) = 0
        BY <3>2, NothingCounted
    <3>4. PICK n : n = count'[x] /\ n = 0
        BY <1>1, <2>3
    <3>5. AtMost(g, RoutesOf(l), Limit[l]) /\ AtMost(g, RoutesOf(l), n)
        BY <3>3, <3>4 DEF AtMost
    <3>6. RoutesOf(l)' = RoutesOf(l)
        BY DEF RoutesOf
    <3> QED BY <2>1, <3>1, <3>4, <3>5, <3>6 DEF PassedInv
  <2>4. CASE ttl[x] # 1
    <3>1. \A r \in RoutesOf(l) : admitted'[<<r, i>>] = admitted[<<r, i>>]
        BY <1>1, <2>1, <2>2, <2>4
    <3>2. Passed(l, i)' = Passed(l, i)
        BY <3>1, PassedSame
    <3>3. count'[x] = count[x]
        BY <1>1, <2>4
    <3>4. RoutesOf(l)' = RoutesOf(l)
        BY DEF RoutesOf
    <3>5. PICK f, n : f = Passed(l, i) /\ n = count[x]
        OBVIOUS
    <3>6. AtMost(f, RoutesOf(l), Limit[l]) /\ AtMost(f, RoutesOf(l), n)
        BY <2>1, <3>5 DEF SumsInv, PassedInv
    <3> QED BY <2>1, <3>2, <3>3, <3>4, <3>5, <3>6 DEF PassedInv
  <2> QED BY <2>3, <2>4
<1>5. recent' = [k \in Keys |-> recent'[k]]
    BY <1>1
<1> QED BY <1>2, <1>3, <1>4, <1>5 DEF SumsInv

LEMMA SumsInit == Init => SumsInv
<1> SUFFICES ASSUME Init
             PROVE  SumsInv
    OBVIOUS
<1>1. ASSUME NEW k \in Keys
      PROVE  Slides(k, recent[k], count[k], ttl[k])
  <2>1. PICK f : f = recent[k] /\ f = [a \in Ages(k) |-> 0]
      BY DEF Init
  <2>2. IsFiniteSet(Units(f, Ages(k))) /\ Total(f, Ages(k)) = 0
      BY <2>1, NothingCounted
  <2>3. LimitOf(k) \in Nat \ {0} /\ WindowOf(k) \in Nat \ {0} /\ 0 \in Ages(k)
      BY AgesFromZero
  <2>4. f \in [Ages(k) -> Nat] /\ f[0] = 0 /\ AtMost(f, Ages(k), LimitOf(k) - 1)
      BY <2>1, <2>2, <2>3 DEF AtMost
  <2>5. count[k] = 0 /\ ttl[k] = 0
      BY DEF Init
  <2> QED BY <2>1, <2>3, <2>4, <2>5 DEF Slides
<1>2. ASSUME NEW l \in Limiters, NEW i \in Identities
      PROVE  PassedInv(l, i)
  <2>1. \A r \in RoutesOf(l) : Passed(l, i)[r] = 0
      BY DEF Init, Passed, RoutesOf
  <2>2. IsFiniteSet(Units(Passed(l, i), RoutesOf(l))) /\ Total(Passed(l, i), RoutesOf(l)) = 0
      BY <2>1, NothingCounted
  <2>3. count[<<l, i>>] = 0 /\ Limit[l] \in Nat
      BY DEF Init, Keys
  <2> QED BY <2>2, <2>3 DEF PassedInv, AtMost
<1> QED BY <1>1, <1>2 DEF Init, SumsInv

LEMMA SumsStep == Inv /\ SumsInv /\ [Next]_vars => SumsInv'
<1> SUFFICES ASSUME Inv, SumsInv, [Next]_vars
             PROVE  SumsInv'
    OBVIOUS
<1>1. ASSUME NEW c \in Clients, NEW route \in Routes, Request(c, route)
      PROVE  SumsInv'
    BY <1>1, RequestPasses, RequestSlides DEF SumsInv
<1>2. CASE UNCHANGED vars
    BY <1>2 DEF vars, SumsInv, PassedInv, Passed, RoutesOf
<1> QED BY <1>1, <1>2, TickSums DEF Next

\* Over all the routes that share a limiter, an identity gets at most the limit in a
\* window, and nothing that was not counted.
THEOREM WindowsBound == Spec => []WindowBound
<1>1. SumsInv => WindowBound
    BY DEF SumsInv, PassedInv, AtMost, WindowBound
<1> QED BY <1>1, InitInv, NextInv, SumsInit, SumsStep, PTL DEF Spec

\* Within the length of one window, wherever it is laid, less than twice the limit passes.
THEOREM SlidingIsBounded == Spec => []SlidingBound
<1>1. Inv /\ SumsInv => SlidingBound
    BY SlidesBelowTwice DEF Inv, KeyInv, SumsInv, SlidingBound
<1> QED BY <1>1, InitInv, NextInv, SumsInit, SumsStep, PTL DEF Spec
=============================================================================
