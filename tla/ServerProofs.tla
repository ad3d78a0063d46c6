----------------------------- MODULE ServerProofs -----------------------------
(***************************************************************************)
(* For any number of requests and deliveries: nothing is closed under its  *)
(* user (NoUseAfterClose), and a server that reports success is drained    *)
(* (SuccessIsDrained).                                                     *)
(***************************************************************************)
EXTENDS Server, TLAPS

HandlerPc == {"none", "waits", "db", "runs", "replies", "answered"}

Types ==
  /\ opened \in 0..5
  /\ classifier \in Handlers \cup {NoHandler}
  /\ handler \in [Handlers -> HandlerPc]

\* Who holds something keeps it open: the holder of the classifier's mutex is the only
\* one that runs it, and the first two resources are the classifier and the pool.
Held ==
  /\ \A h \in Handlers : /\ handler[h] = "runs" => classifier = h /\ opened >= 1
                         /\ handler[h] = "db" => opened >= 2
  /\ consumer = "db" => opened >= 2

UseInv == Types /\ Held

LEMMA LengthOfResources == Len(Resources) = 5
BY DEF Resources

LEMMA WhatIsOpen ==
  ASSUME opened \in 0..5
  PROVE  /\ IsOpen("image") <=> opened >= 1
         /\ IsOpen("pool") <=> opened >= 2
BY DEF IsOpen, Resources

LEMMA WhatIsNext ==
  ASSUME opened \in 1..5
  PROVE  /\ Resources[opened] = "image" <=> opened = 1
         /\ Resources[opened] = "pool" <=> opened = 2
BY DEF Resources

\* A step of run() leaves requests, consumer and mutex alone; if it closes something,
\* nobody has it.
LEMMA RunKeepsUse ==
  ASSUME UseInv, [Next]_vars, UNCHANGED <<classifier, handler, consumer>>
  PROVE  UseInv'
PROOF
<1> USE DEF UseInv, Types, Held
<1>1. CASE opened' = opened
  BY <1>1
<1>2. CASE opened' # opened
  <2>1. Open \/ Close
    BY <1>2 DEF Next, RunSteps, OpenAgain, OpenFails, Start, ServerFails, ConsumerFails,
       Drain, Await, TimeOut, Refuse, Exit, Signal, DeadlinePasses, ListenFails, Accept,
       Respond, CallClosed, Query, Classify, Classified, Deliver, JobQueries, JobEnds,
       ConsumerReturns, ConsumerGoes, Leave, mainVars, procVars, vars
  <2>2. CASE Open
    BY <2>2, LengthOfResources DEF Open
  <2>3. CASE Close
    <3>1. opened \in 1..5 /\ opened' = opened - 1
      BY <2>3 DEF Close
    <3>2. opened = 1 => \A h \in Handlers : handler[h] # "runs"
      BY <2>3, <3>1, WhatIsNext, ServerAssumption DEF Close
    <3>3. opened = 2 => consumer # "db" /\ \A h \in Handlers : handler[h] # "db"
      BY <2>3, <3>1, WhatIsNext DEF Close
    <3> QED
      BY <3>1, <3>2, <3>3
  <2> QED
    BY <2>1, <2>2, <2>3
<1> QED
  BY <1>1, <1>2

LEMMA RequestKeepsUse ==
  ASSUME UseInv, NEW h \in Handlers,
         \/ Accept(h) \/ Respond(h) \/ CallClosed(h) \/ Query(h) \/ Classify(h) \/ Classified(h)
  PROVE  UseInv'
PROOF
<1> USE DEF UseInv, Types, Held, HandlerPc, Moves, Misses, mainVars
<1>1. CASE Accept(h)
  BY <1>1 DEF Accept
<1>2. CASE Respond(h)
  BY <1>2 DEF Respond
<1>3. CASE CallClosed(h)
  BY <1>3 DEF CallClosed
<1>4. CASE Query(h)
  BY <1>4, WhatIsOpen DEF Query
<1>5. CASE Classify(h)
  BY <1>5, WhatIsOpen, ServerAssumption DEF Classify
<1>6. CASE Classified(h)
  BY <1>6, ServerAssumption DEF Classified
<1> QED
  BY <1>1, <1>2, <1>3, <1>4, <1>5, <1>6

LEMMA ConsumerKeepsUse ==
  ASSUME UseInv, Deliver \/ JobQueries \/ JobEnds \/ ConsumerReturns
  PROVE  UseInv'
BY WhatIsOpen DEF UseInv, Types, Held, Deliver, JobQueries, JobEnds, ConsumerReturns,
   ConsumerGoes, mainVars

LEMMA UseStep == UseInv /\ [Next]_vars => UseInv'
PROOF
<1> SUFFICES ASSUME UseInv, [Next]_vars PROVE UseInv'
  OBVIOUS
<1>1. CASE UNCHANGED <<classifier, handler, consumer>>
  BY <1>1, RunKeepsUse
<1>2. CASE ~UNCHANGED <<classifier, handler, consumer>>
  <2>1. ASSUME RunSteps PROVE UNCHANGED <<classifier, handler>>
    BY <2>1 DEF RunSteps, Open, OpenAgain, OpenFails, Start, ServerFails, ConsumerFails, Drain,
       Await, TimeOut, Refuse, Close, Exit, Leave, mainVars, procVars
  <2>2. ASSUME RunSteps, ~UNCHANGED consumer PROVE Start
    BY <2>2 DEF RunSteps, Open, OpenAgain, OpenFails, ServerFails, ConsumerFails, Drain,
       Await, TimeOut, Refuse, Close, Exit, Leave, mainVars, procVars
  <2>3. CASE Start
    BY <2>3 DEF Start, mainVars, UseInv, Types, Held
  <2>4. ASSUME Signal \/ DeadlinePasses \/ ListenFails
        PROVE  UNCHANGED <<classifier, handler, consumer>>
    BY <2>4 DEF Signal, DeadlinePasses, ListenFails, mainVars, procVars
  <2> QED
    BY <1>2, <2>1, <2>2, <2>3, <2>4, RequestKeepsUse, ConsumerKeepsUse DEF Next, vars
<1> QED
  BY <1>1, <1>2

\* However many requests and deliveries, and on whatever way the server stops: the
\* classifier's session is never destroyed, nor the pool closed, under its user.
THEOREM NothingIsUsedAfterClose == Spec => []NoUseAfterClose
PROOF
<1>1. Init => UseInv
  BY DEF Init, UseInv, Types, Held, HandlerPc
<1>2. UseInv => NoUseAfterClose
  BY WhatIsOpen DEF UseInv, Types, Held, NoUseAfterClose
<1> QED
  BY <1>1, <1>2, UseStep, PTL DEF Spec

----------------------------------------------------------------------------
(* Success                                                                 *)

\* Until run() leaves, everything is open and nobody has met a closed resource.
BeforeLeaving ==
  /\ main \in {"open", "serve", "drain", "await"} => status = "none" /\ ~hit /\ ~refusing
  /\ main \in {"serve", "drain", "await"} => opened = 5
  /\ main = "open" => http = "off" /\ consumer = "off" /\ Active = {}

\* The consumer ends well only when it was told to, and requests are accepted only until then.
Told ==
  /\ main \in {"open", "serve"} => ~cancelled /\ http # "closed"
  /\ consumer = "ended" => cancelled
  /\ main \in {"drain", "await"} => http # "on"
  /\ main = "await" => http = "closed" /\ Active = {}

Succeeded ==
  /\ status = "ok" => http = "closed" /\ Active = {} /\ consumer = "ended" /\ ~hit
  /\ main = "exited" => opened = 0

DrainInv == opened \in 0..5 /\ BeforeLeaving /\ Told /\ Succeeded

LEMMA AllAreOpen ==
  ASSUME opened = 5
  PROVE  \A r \in {"image", "pool", "model", "redis", "rabbit"} : IsOpen(r)
BY DEF IsOpen, Resources

LEMMA RunKeepsDrain ==
  ASSUME DrainInv, RunSteps
  PROVE  DrainInv'
PROOF
<1> USE LengthOfResources
    DEF DrainInv, BeforeLeaving, Told, Succeeded, Active, Leave, mainVars, procVars
<1>1. CASE Open
  BY <1>1 DEF Open
<1>2. CASE OpenAgain
  BY <1>2 DEF OpenAgain
<1>3. CASE OpenFails
  BY <1>3 DEF OpenFails
<1>4. CASE Start
  BY <1>4 DEF Start
<1>5. CASE ServerFails
  BY <1>5 DEF ServerFails
<1>6. CASE ConsumerFails
  BY <1>6 DEF ConsumerFails
<1>7. CASE Drain
  BY <1>7 DEF Drain
<1>8. CASE Await
  BY <1>8 DEF Await
<1>9. CASE TimeOut
  BY <1>9 DEF TimeOut
<1>10. CASE Refuse
  BY <1>10 DEF Refuse
<1>11. CASE Close
  BY <1>11 DEF Close
<1>12. CASE Exit
  BY <1>12 DEF Exit
<1> QED
  BY <1>1, <1>2, <1>3, <1>4, <1>5, <1>6, <1>7, <1>8, <1>9, <1>10, <1>11, <1>12 DEF RunSteps

LEMMA RequestKeepsDrain ==
  ASSUME DrainInv, handler \in [Handlers -> HandlerPc], NEW h \in Handlers,
         \/ Accept(h) \/ Respond(h) \/ CallClosed(h) \/ Query(h) \/ Classify(h) \/ Classified(h)
  PROVE  DrainInv'
PROOF
<1> USE DEF Moves, Misses, mainVars, HandlerPc
<1>1. Up /\ UNCHANGED <<main, opened, refusing, cancelled, status, consumer, http>>
  BY DEF Accept, Respond, CallClosed, Query, Classify, Classified
<1>2. handler' \in [Handlers -> HandlerPc]
  BY DEF Accept, Respond, CallClosed, Query, Classify, Classified
<1>3. handler[h] \notin {"none", "answered"} \/ http = "on"
  BY DEF Accept, Respond, CallClosed, Query, Classify, Classified
<1>4. Active # {} \/ http = "on"
  BY <1>3 DEF Active
<1>5. main \in {"serve", "drain", "await"} => UNCHANGED hit
  <2> SUFFICES ASSUME opened = 5, ~refusing PROVE UNCHANGED hit
    BY DEF DrainInv, BeforeLeaving
  <2>1. \A r \in {"image", "pool", "model", "redis", "rabbit"} : IsOpen(r)
    BY AllAreOpen
  <2> QED
    BY <2>1 DEF Accept, Respond, CallClosed, Query, Classify, Classified
<1>6. main # "await" /\ status # "ok" /\ main # "open"
  BY <1>1, <1>4 DEF DrainInv, Told, Succeeded, Up
<1> QED
  BY <1>1, <1>5, <1>6 DEF DrainInv, BeforeLeaving, Told, Succeeded

LEMMA ConsumerKeepsDrain ==
  ASSUME DrainInv, Deliver \/ JobQueries \/ JobEnds \/ ConsumerReturns
  PROVE  DrainInv'
PROOF
<1>1. /\ Up /\ consumer # "ended"
      /\ UNCHANGED <<main, opened, refusing, cancelled, status, http, handler>>
  BY DEF Deliver, JobQueries, JobEnds, ConsumerReturns, ConsumerGoes, mainVars
<1>2. consumer' = "ended" => cancelled
  BY DEF Deliver, JobQueries, JobEnds, ConsumerReturns, ConsumerGoes
<1>3. main \in {"serve", "drain", "await"} => UNCHANGED hit
  BY AllAreOpen DEF DrainInv, BeforeLeaving, Deliver, JobQueries, JobEnds, ConsumerReturns,
     ConsumerGoes
<1> QED
  BY <1>1, <1>2, <1>3 DEF DrainInv, BeforeLeaving, Told, Succeeded, Active, Up

LEMMA DrainStep == UseInv /\ DrainInv /\ [Next]_vars => DrainInv'
PROOF
<1> SUFFICES ASSUME UseInv, DrainInv, [Next]_vars PROVE DrainInv'
  OBVIOUS
<1> USE DEF DrainInv, BeforeLeaving, Told, Succeeded, Active
<1>1. CASE Signal
  BY <1>1 DEF Signal
<1>2. CASE DeadlinePasses
  BY <1>2 DEF DeadlinePasses, procVars
<1>3. CASE ListenFails
  BY <1>3 DEF ListenFails, mainVars
<1>4. CASE UNCHANGED vars
  BY <1>4 DEF vars
<1> QED
  BY <1>1, <1>2, <1>3, <1>4, RunKeepsDrain, RequestKeepsDrain, ConsumerKeepsDrain
     DEF Next, UseInv, Types

\* However many requests and deliveries: a server that reports success has answered and
\* settled all that it took, and nothing of it met a dependency that was closed before.
THEOREM SuccessMeansDrained == Spec => []SuccessIsDrained
PROOF
<1>1. Init => UseInv /\ DrainInv
  BY DEF Init, UseInv, Types, Held, HandlerPc, DrainInv, BeforeLeaving, Told, Succeeded, Active
<1>2. DrainInv => SuccessIsDrained
  BY DEF DrainInv, Succeeded, SuccessIsDrained
<1> QED
  BY <1>1, <1>2, UseStep, DrainStep, PTL DEF Spec
=============================================================================
