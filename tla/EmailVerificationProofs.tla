------------------------ MODULE EmailVerificationProofs ------------------------
(***************************************************************************)
(* For any number of sends, registrations and lost replies, and any        *)
(* expiry times: the cooldown belongs to the stored code                   *)
(* (CooldownIsOfCode), a code meets at most MaxAttempts wrong guesses      *)
(* (GuessesBounded), and EmailVerification implements OneTimeCode.         *)
(***************************************************************************)
EXTENDS EmailVerification, FiniteSetTheorems, TLAPS

\* A step of a request that sends a code, of a registration, or of the clock.
SendStep(s) == Save(s) \/ Mail(s) \/ Cleanup(s) \/ Stop(s)
RegStep(r) == Verify(r) \/ Insert(r)

LEMMA Steps ==
  ASSUME [Next]_vars
  PROVE  \/ \E s \in Sends : SendStep(s)
         \/ \E r \in Registers : RegStep(r)
         \/ Tick
         \/ UNCHANGED vars
BY DEF Next, SendStep, RegStep

----------------------------------------------------------------------------
(* Types and the cooldown                                                  *)

StateInv == EmailTypeOK /\ CooldownIsOfCode

LEMMA SendKeepsState ==
  ASSUME StateInv, NEW s \in Sends, SendStep(s)
  PROVE  StateInv'
PROOF
<1> USE EmailAssumption
    DEF StateInv, EmailTypeOK, CooldownIsOfCode, SendGoes, redis, SendPc
<1>1. CASE Save(s)
  <2>1. send' \in [Sends -> SendPc]
    BY <1>1 DEF Save
  <2>2. CASE StoreCode(s)
    BY <1>1, <2>1, <2>2 DEF Save, StoreCode, Lose
  <2>3. CASE UNCHANGED redis
    BY <1>1, <2>1, <2>3 DEF Save, Lose
  <2> QED
    BY <1>1, <2>2, <2>3 DEF Save
<1>2. CASE Mail(s)
  BY <1>2 DEF Mail
<1>3. CASE Cleanup(s)
  BY <1>3 DEF Cleanup, DropCode, Lose
<1>4. CASE Stop(s)
  BY <1>4 DEF Stop
<1> QED
  BY <1>1, <1>2, <1>3, <1>4 DEF SendStep

LEMMA RegKeepsState ==
  ASSUME StateInv, NEW r \in Registers, RegStep(r)
  PROVE  StateInv'
PROOF
<1> USE EmailAssumption DEF StateInv, EmailTypeOK, CooldownIsOfCode, redis
<1>1. CASE Verify(r)
  <2>1. reg' \in [Registers -> Registration]
    <3>1. CASE \E pc \in RegPc : RegGoes(r, pc)
      BY <3>1 DEF RegGoes, Registration
    <3>2. CASE code \in Sends /\ \E pc \in RegPc : TurnedDown(r, pc)
      <4>1. PICK pc \in RegPc : TurnedDown(r, pc)
        BY <3>2
      <4>2. PICK now \in SUBSET Sends : now = reg[r].against \cup {code}
        BY <3>2 DEF Registration
      <4>3. reg' = [reg EXCEPT ![r] = [reg[r] EXCEPT !.pc = pc, !.against = now]]
        BY <4>1, <4>2 DEF TurnedDown
      <4> QED
        BY <4>3 DEF Registration
    <3> QED
      BY <1>1, <3>1, <3>2 DEF Verify, RegPc
  <2>2. UNCHANGED <<mailbox, send, user, cooldown>> /\ lost' \in 0..MaxLost
    BY <1>1 DEF Verify, Lose
  <2>3. DropCode \/ UNCHANGED <<code, ttl, attempts>> \/ CountAttempt
    BY <1>1 DEF Verify
  <2> QED
    BY <2>1, <2>2, <2>3 DEF DropCode, CountAttempt
<1>2. CASE Insert(r)
  BY <1>2 DEF Insert, RegGoes, Registration, RegPc, Lose
<1> QED
  BY <1>1, <1>2 DEF RegStep

LEMMA TickKeepsState ==
  ASSUME StateInv, Tick
  PROVE  StateInv'
BY EmailAssumption DEF StateInv, EmailTypeOK, CooldownIsOfCode, Tick, DropCode

LEMMA StateStep == StateInv /\ [Next]_vars => StateInv'
PROOF
<1> SUFFICES ASSUME StateInv, [Next]_vars PROVE StateInv'
  OBVIOUS
<1>1. CASE UNCHANGED vars
  BY <1>1 DEF StateInv, EmailTypeOK, CooldownIsOfCode, vars, redis
<1> QED
  BY <1>1, Steps, SendKeepsState, RegKeepsState, TickKeepsState

LEMMA StateInit == Init => StateInv
BY EmailAssumption DEF Init, StateInv, EmailTypeOK, CooldownIsOfCode, SendPc, RegPc, Registration

\* For any expiry times: the cooldown of a stored code is what is left of its own, on
\* whatever way sends, cleanups, guesses and ticks interleave.
THEOREM CooldownBelongs == Spec => [](EmailTypeOK /\ CooldownIsOfCode)
BY StateInit, StateStep, PTL DEF Spec, StateInv

----------------------------------------------------------------------------
(* Guesses                                                                 *)

Guessed(s) == {r \in Registers : s \in reg[r].against}

\* A send that has not stored its code is unknown to everybody.
Fresh == \A s \in Sends : send[s] = "save" => code # s /\ Guessed(s) = {}

\* The counter of the stored code misses no registration that guessed at it.
Counted ==
  /\ code # NoCode => Cardinality(Guessed(code)) <= attempts
  /\ GuessesBounded

GuessInv == Fresh /\ Counted

LEMMA GuessedIsFinite ==
  \A s : IsFiniteSet(Guessed(s)) /\ Cardinality(Guessed(s)) \in Nat
BY EmailAssumption, FS_Subset, FS_CardinalityType DEF Guessed

LEMMA SendKeepsGuesses ==
  ASSUME StateInv, GuessInv, NEW s \in Sends, SendStep(s)
  PROVE  GuessInv'
PROOF
<1> USE DEF StateInv, EmailTypeOK, GuessInv, Fresh
<1>1. UNCHANGED reg /\ \A x : Guessed(x)' = Guessed(x)
  BY DEF SendStep, Save, Mail, Cleanup, Stop, Guessed
<1>2. \A x \in Sends \ {s} : send'[x] = send[x]
  BY DEF SendStep, Save, Mail, Cleanup, Stop, SendGoes
<1>3. send'[s] # "save"
  BY DEF SendStep, Save, Mail, Cleanup, Stop, SendGoes
<1>4. GuessesBounded'
  BY <1>1 DEF Counted, GuessesBounded, Guessed
<1>5. CASE Save(s) /\ StoreCode(s)
  <2>1. code' = s /\ attempts' = 0 /\ Cardinality(Guessed(s)) = 0
    BY <1>5, FS_EmptySet DEF Save, StoreCode
  <2> QED
    BY <1>1, <1>2, <1>3, <1>4, <2>1 DEF Counted
<1>6. CASE UNCHANGED <<code, attempts>> \/ code' = NoCode
  BY <1>1, <1>2, <1>3, <1>4, <1>6, EmailAssumption DEF Counted
<1> QED
  BY <1>5, <1>6 DEF SendStep, Save, Mail, Cleanup, Stop, DropCode, redis

\* The guess that is turned down is one of the stored code, and counted in the same step.
LEMMA WrongGuess ==
  ASSUME StateInv, GuessInv, NEW r \in Registers, NEW pc \in RegPc, code # NoCode,
         TurnedDown(r, pc),
         CountAttempt, UNCHANGED send
  PROVE  GuessInv'
PROOF
<1> USE DEF StateInv, EmailTypeOK, GuessInv
<1> PICK c \in Sends : c = code
  OBVIOUS
<1>1. reg'[r].against = reg[r].against \cup {c}
  BY DEF Registration, TurnedDown
<1>2. \A x \in Registers \ {r} : reg'[x] = reg[x]
  BY DEF TurnedDown
<1>3. Guessed(c)' = Guessed(c) \cup {r}
  BY <1>1, <1>2 DEF Guessed
<1>4. \A s \in Sends \ {c} : Guessed(s)' = Guessed(s)
  BY <1>1, <1>2 DEF Guessed
<1>5. Cardinality(Guessed(c)') \in Nat /\ Cardinality(Guessed(c)') <= attempts + 1
  <2>1. IsFiniteSet(Guessed(c)) /\ Cardinality(Guessed(c)) \in Nat
    BY GuessedIsFinite
  <2>2. Cardinality(Guessed(c)) <= attempts
    BY DEF Counted
  <2>3. Cardinality(Guessed(c) \cup {r}) \in {Cardinality(Guessed(c)), Cardinality(Guessed(c)) + 1}
    BY <2>1, FS_AddElement
  <2> QED
    BY <1>3, <2>1, <2>2, <2>3
<1>6. attempts + 1 <= MaxAttempts
  BY EmailAssumption
<1>7. GuessesBounded'
  <2> SUFFICES ASSUME NEW s \in Sends PROVE Cardinality(Guessed(s)') <= MaxAttempts
    BY DEF GuessesBounded, Guessed
  <2>1. CASE s = c
    BY <2>1, <1>5, <1>6, EmailAssumption
  <2>2. CASE s # c
    BY <2>2, <1>4 DEF Counted, GuessesBounded, Guessed
  <2> QED
    BY <2>1, <2>2
<1>8. code' \in {c, NoCode} /\ (code' = c => attempts' = attempts + 1)
  BY DEF CountAttempt, DropCode
<1>9. Fresh'
  <2>1. send[c] # "save"
    BY DEF Fresh
  <2> QED
    BY <2>1, <1>4, <1>8, EmailAssumption DEF Fresh
<1>10. code' # NoCode => code' = c /\ Cardinality(Guessed(c)') <= attempts'
  BY <1>5, <1>8
<1> QED
  BY <1>1, <1>2, <1>7, <1>9, <1>10 DEF Counted

LEMMA RegKeepsGuesses ==
  ASSUME StateInv, GuessInv, NEW r \in Registers, RegStep(r)
  PROVE  GuessInv'
PROOF
<1>1. CASE Verify(r) /\ code # NoCode /\ CountAttempt /\ reg'[r].against # reg[r].against
  <2>1. PICK pc \in RegPc : TurnedDown(r, pc)
    BY <1>1 DEF Verify, RegGoes, RegPc, StateInv, EmailTypeOK, Registration
  <2> QED
    BY <1>1, <2>1, WrongGuess DEF Verify
<1>2. CASE UNCHANGED send /\ \A x \in Registers : reg'[x].against = reg[x].against
  <2>1. \A s : Guessed(s)' = Guessed(s)
    BY <1>2 DEF Guessed
  <2>3. UNCHANGED <<code, attempts>> \/ code' = NoCode \/ CountAttempt
    BY DEF RegStep, Verify, Insert, DropCode, redis
  <2>4. GuessesBounded'
    BY <2>1 DEF GuessInv, Counted, GuessesBounded, Guessed
  <2>5. Fresh'
    BY <1>2, <2>1, <2>3, EmailAssumption DEF GuessInv, Fresh, CountAttempt, DropCode
  <2>6. code' # NoCode => code' = code /\ attempts' >= attempts
    BY <2>3 DEF CountAttempt, DropCode, StateInv, EmailTypeOK
  <2>7. code' # NoCode => Cardinality(Guessed(code)') <= attempts'
    BY <2>1, <2>6, <2>3, GuessedIsFinite
       DEF GuessInv, Counted, StateInv, EmailTypeOK, CountAttempt, DropCode
  <2> QED
    BY <1>2, <2>4, <2>5, <2>6, <2>7 DEF GuessInv, Counted
<1>3. UNCHANGED send
  BY DEF RegStep, Verify, Insert
<1>4. \A x \in Registers \ {r} : reg'[x].against = reg[x].against
  BY DEF RegStep, Verify, Insert, RegGoes, TurnedDown, StateInv, EmailTypeOK, Registration
<1>5. reg'[r].against # reg[r].against => Verify(r) /\ code # NoCode /\ CountAttempt
  BY DEF RegStep, Verify, Insert, RegGoes, TurnedDown, StateInv, EmailTypeOK, Registration
<1> QED
  BY <1>1, <1>2, <1>3, <1>4, <1>5

LEMMA GuessStep == StateInv /\ GuessInv /\ [Next]_vars => GuessInv'
PROOF
<1> SUFFICES ASSUME StateInv, GuessInv, [Next]_vars PROVE GuessInv'
  OBVIOUS
<1>1. CASE Tick
  <2>1. UNCHANGED <<send, reg>> /\ (UNCHANGED <<code, attempts>> \/ code' = NoCode)
    BY <1>1 DEF Tick, DropCode
  <2> QED
    BY <2>1, EmailAssumption DEF GuessInv, Fresh, Counted, Guessed, GuessesBounded
<1>2. CASE UNCHANGED vars
  BY <1>2 DEF GuessInv, Fresh, Counted, Guessed, GuessesBounded, vars, redis
<1> QED
  BY <1>1, <1>2, Steps, SendKeepsGuesses, RegKeepsGuesses

LEMMA GuessInit == Init => GuessInv
PROOF
<1> SUFFICES ASSUME Init PROVE GuessInv
  OBVIOUS
<1>1. \A s \in Sends : Guessed(s) = {}
  BY EmailAssumption DEF Init, Guessed
<1>2. GuessesBounded
  BY <1>1, FS_EmptySet, EmailAssumption DEF GuessesBounded, Guessed
<1> QED
  BY <1>1, <1>2, EmailAssumption DEF Init, GuessInv, Fresh, Counted

\* However many registrations guess at once, and however often the script runs: a code is
\* compared with at most MaxAttempts wrong guesses.
THEOREM GuessesAreBounded == Spec => []GuessesBounded
PROOF
<1>2. GuessInv => GuessesBounded
  BY DEF GuessInv, Counted
<1> QED
  BY <1>2, GuessInit, StateInit, StateStep, GuessStep, PTL DEF Spec

----------------------------------------------------------------------------
(* Stored codes and their mails                                            *)

\* A send that was accepted has been mailed, and one that failed has left its code only
\* because of a loss.
MailInv ==
  \A s \in Sends :
    /\ send[s] = "accepted" => s \in mailbox
    /\ send[s] \in {"too_frequent", "failed"} /\ code = s => lost > 0

LEMMA SendKeepsMail ==
  ASSUME StateInv, GuessInv, MailInv, NEW s \in Sends, SendStep(s)
  PROVE  MailInv'
PROOF
<1> USE DEF StateInv, EmailTypeOK, MailInv
<1>1. \A x \in Sends \ {s} : send'[x] = send[x]
  BY DEF SendStep, Save, Mail, Cleanup, Stop, SendGoes
<1>2. lost' >= lost /\ mailbox \subseteq mailbox'
  BY DEF SendStep, Save, Mail, Cleanup, Stop, Lose
<1>3. code' \in {code, NoCode, s}
  BY DEF SendStep, Save, Mail, Cleanup, Stop, StoreCode, DropCode, redis
<1>4. send'[s] = "accepted" => s \in mailbox'
  BY DEF SendStep, Save, Mail, Cleanup, Stop, SendGoes
<1>5. send'[s] \in {"too_frequent", "failed"} /\ code' = s => lost' > 0
  <2>1. CASE Save(s)
    <3>1. code # s
      BY <2>1 DEF Save, GuessInv, Fresh
    <3> QED
      BY <2>1, <3>1 DEF Save, StoreCode, SendGoes, Lose, redis
  <2>2. CASE Mail(s)
    BY <2>2 DEF Mail, SendGoes
  <2>3. CASE Cleanup(s)
    BY <2>3, EmailAssumption DEF Cleanup, DropCode, Lose, redis
  <2>4. CASE Stop(s)
    BY <2>4 DEF Stop, SendGoes
  <2> QED
    BY <2>1, <2>2, <2>3, <2>4 DEF SendStep
<1>6. lost \in Nat /\ lost' \in Nat
  BY EmailAssumption DEF SendStep, Save, Mail, Cleanup, Stop, Lose
<1>7. ASSUME NEW x \in Sends \ {s}
      PROVE  /\ send'[x] = "accepted" => x \in mailbox'
             /\ send'[x] \in {"too_frequent", "failed"} /\ code' = x => lost' > 0
  <2>1. send'[x] = send[x] /\ (code' = x => code = x)
    BY <1>1, <1>3, EmailAssumption
  <2>2. send[x] \in {"too_frequent", "failed"} /\ code = x => lost > 0
    OBVIOUS
  <2> QED
    BY <2>1, <2>2, <1>2, <1>6
<1>8. ASSUME NEW x \in Sends
      PROVE  /\ send'[x] = "accepted" => x \in mailbox'
             /\ send'[x] \in {"too_frequent", "failed"} /\ code' = x => lost' > 0
  BY <1>4, <1>5, <1>7
<1> QED
  BY <1>8

LEMMA MailStep ==
  ASSUME StateInv, GuessInv, MailInv, [Next]_vars
  PROVE  MailInv'
PROOF
<1>1. ASSUME NEW r \in Registers, RegStep(r) PROVE MailInv'
  <2>1. UNCHANGED <<send, mailbox>> /\ code' \in {code, NoCode} /\ lost' >= lost
    BY <1>1 DEF RegStep, Verify, Insert, DropCode, CountAttempt, Lose, redis, StateInv,
                EmailTypeOK
  <2>2. lost \in Nat /\ lost' \in Nat
    BY <1>1, EmailAssumption DEF RegStep, Verify, Insert, Lose, StateInv, EmailTypeOK
  <2>3. \A x \in Sends : code' = x => code = x
    BY <2>1, EmailAssumption
  <2> QED
    BY <2>1, <2>2, <2>3 DEF MailInv
<1>2. CASE Tick
  BY <1>2, EmailAssumption DEF Tick, DropCode, MailInv
<1>3. CASE UNCHANGED vars
  BY <1>3 DEF vars, redis, MailInv
<1> QED
  BY <1>1, <1>2, <1>3, Steps, SendKeepsMail

\* For any number of sends: a stored code that nobody was or will be sent is left by a
\* process that ended, or by a reply or a delete that was lost, and by nothing else.
THEOREM UnsentCodesAreCaused == Spec => []UnsentCodesHaveCause
PROOF
<1>1. Init => GuessInv /\ MailInv
  <2> SUFFICES ASSUME Init PROVE GuessInv /\ MailInv
    OBVIOUS
  <2>1. GuessInv
    BY GuessInit
  <2> QED
    BY <2>1 DEF Init, MailInv
<1>2. StateInv /\ GuessInv /\ MailInv => UnsentCodesHaveCause
  <2> SUFFICES ASSUME StateInv, GuessInv, MailInv, code # NoCode, code \notin mailbox,
                      send[code] \notin {"mail", "cleanup"}
               PROVE  send[code] = "stopped" \/ lost > 0
    BY DEF UnsentCodesHaveCause
  <2>1. code \in Sends /\ send[code] \in SendPc \ {"save"}
    BY DEF StateInv, EmailTypeOK, GuessInv, Fresh
  <2> QED
    BY <2>1 DEF MailInv, SendPc
<1>3. (StateInv /\ GuessInv /\ MailInv) /\ [Next]_vars => (StateInv /\ GuessInv /\ MailInv)'
  BY StateStep, GuessStep, MailStep
<1> QED
  BY <1>1, <1>2, <1>3, StateInit, PTL DEF Spec

\* For any number of sends: an accepted code goes by a guess, by its expiry or for a newer
\* one, and not by the late cleanup of another send.
THEOREM AcceptedCodesStand == Spec => AcceptedCodeStands
PROOF
<1>1. ASSUME StateInv, [Next]_vars, NEW s \in Sends, code = s, send[s] = "accepted", code' # s
      PROVE  \/ UNCHANGED <<send, cooldown>> /\ \E r \in Registers : reg[r].pc = "verify"
             \/ ttl = 1 /\ ttl' = 0
             \/ code' # NoCode
  <2>1. ASSUME NEW x \in Sends, SendStep(x) PROVE code' # NoCode
    <3>1. CASE Save(x)
      BY <1>1, <3>1, EmailAssumption DEF Save, StoreCode, redis
    <3>2. CASE Mail(x) \/ Cleanup(x) \/ Stop(x)
      BY <1>1, <3>2 DEF Mail, Cleanup, Stop, redis
    <3> QED
      BY <2>1, <3>1, <3>2 DEF SendStep
  <2>2. ASSUME NEW r \in Registers, RegStep(r)
        PROVE  UNCHANGED <<send, cooldown>> /\ reg[r].pc = "verify"
    BY <1>1, <2>2 DEF RegStep, Verify, Insert, CountAttempt, redis
  <2>3. CASE Tick
    BY <1>1, <2>3, EmailAssumption DEF Tick, DropCode, StateInv, EmailTypeOK
  <2>4. CASE UNCHANGED vars
    BY <1>1, <2>4 DEF vars, redis
  <2> QED
    BY <1>1, <2>1, <2>2, <2>3, <2>4, Steps
<1>2. StateInv /\ [Next]_vars =>
        \A s \in Sends : (code = s /\ send[s] = "accepted" /\ code' # s) =>
          \/ UNCHANGED <<send, cooldown>> /\ \E r \in Registers : reg[r].pc = "verify"
          \/ ttl = 1 /\ ttl' = 0
          \/ code' # NoCode
  BY <1>1
<1> QED
  BY <1>2, StateInit, StateStep, PTL DEF Spec, AcceptedCodeStands

----------------------------------------------------------------------------
(* The abstract specification                                              *)

Used == {"insert", "created", "exists", "error"}

\* A registration that is past its guess holds a code that was issued and is gone.
Spent ==
  \A r \in Registers : reg[r].pc \in Used =>
    reg[r].guess \in Sends /\ reg[r].guess # code /\ send[reg[r].guess] # "save"

RefInv == StateInv /\ GuessInv /\ Spent

\* The status of a code under the refinement mapping.
StatusOf == [s \in Sends |-> IF code = s THEN "live"
                             ELSE IF send[s] = "save" THEN "unissued" ELSE "dead"]
RedeemersOf == [s \in Sends |-> Redeemers(s)]

LEMMA UsedStep ==
  ASSUME StateInv, NEW r \in Registers, RegStep(r)
  PROVE  /\ UNCHANGED send
         /\ \A x \in Registers : reg'[x].guess = reg[x].guess
         /\ \A x \in Registers \ {r} : reg'[x] = reg[x]
         /\ reg'[r].pc \in Used =>
              \/ reg[r].pc \in Used /\ UNCHANGED code
              \/ /\ reg[r].pc = "verify" /\ code # NoCode /\ reg[r].guess = code
                 /\ DropCode
BY DEF StateInv, EmailTypeOK, RegStep, Verify, Insert, RegGoes, TurnedDown, Registration, Used, redis

LEMMA SpentStep == RefInv /\ [Next]_vars => Spent'
PROOF
<1> SUFFICES ASSUME RefInv, [Next]_vars PROVE Spent'
  OBVIOUS
<1> USE DEF RefInv, Spent
<1>1. ASSUME NEW s \in Sends, SendStep(s) PROVE Spent'
  <2>1. UNCHANGED reg /\ (code' \in {code, NoCode} \/ (code' = s /\ send[s] = "save"))
    <3>1. CASE Save(s)
      BY <3>1 DEF Save, StoreCode, redis
    <3>2. CASE Mail(s) \/ Cleanup(s) \/ Stop(s)
      BY <3>2 DEF Mail, Cleanup, Stop, DropCode, redis
    <3> QED
      BY <1>1, <3>1, <3>2 DEF SendStep
  <2>2. \A x \in Sends : send'[x] = "save" => send[x] = "save"
    BY <1>1 DEF SendStep, Save, Mail, Cleanup, Stop, SendGoes, StateInv, EmailTypeOK
  <2> QED
    BY <2>1, <2>2, EmailAssumption
<1>2. ASSUME NEW r \in Registers, RegStep(r) PROVE Spent'
  <2>1. code' \in {code, NoCode}
    BY <1>2 DEF RegStep, Verify, Insert, DropCode, CountAttempt, redis
  <2>2. reg[r].guess = code /\ code # NoCode => code \in Sends /\ send[code] # "save"
    BY DEF StateInv, EmailTypeOK, GuessInv, Fresh
  <2>3. DropCode => code' = NoCode
    BY DEF DropCode
  <2> QED
    BY <1>2, <2>1, <2>2, <2>3, UsedStep, EmailAssumption
<1>3. CASE Tick
  BY <1>3, EmailAssumption DEF Tick, DropCode
<1>4. CASE UNCHANGED vars
  BY <1>4 DEF vars, redis
<1> QED
  BY <1>1, <1>2, <1>3, <1>4, Steps

LEMMA RefInit == Init => RefInv /\ OTC!Init
PROOF
<1> SUFFICES ASSUME Init PROVE RefInv /\ OTC!Init
  OBVIOUS
<1>1. GuessInv
  BY GuessInit
<1>2. Spent
  BY DEF Init, Spent, Used
<1>3. OTC!Init
  BY EmailAssumption DEF Init, OTC!Init, Redeemers
<1> QED
  BY <1>1, <1>2, <1>3, StateInit DEF RefInv

\* A code that goes without being redeemed is discarded.
LEMMA DropIsDiscard ==
  ASSUME RefInv, code # NoCode, code' = NoCode, UNCHANGED <<send, RedeemersOf, user>>
  PROVE  OTC!Next
PROOF
<1> PICK c \in Sends : c = code
  BY DEF RefInv, StateInv, EmailTypeOK
<1>1. send[c] # "save"
  BY DEF RefInv, GuessInv, Fresh
<1>2. \A x \in Sends : Redeemers(x)' = Redeemers(x)
  BY DEF RedeemersOf
<1>3. OTC!Discard(c)
  BY <1>1, <1>2, EmailAssumption DEF OTC!Discard, RedeemersOf
<1> QED
  BY <1>3 DEF OTC!Next

LEMMA SendImplements ==
  ASSUME RefInv, NEW s \in Sends, SendStep(s)
  PROVE  [OTC!Next]_OTC!vars
PROOF
<1> USE EmailAssumption DEF RefInv, StateInv, EmailTypeOK
<1>1. UNCHANGED <<RedeemersOf, user>> /\ \A x \in Sends : Redeemers(x)' = Redeemers(x)
  BY DEF SendStep, Save, Mail, Cleanup, Stop, RedeemersOf, Redeemers
<1>2. CASE Save(s)
  <2>1. send[s] = "save" /\ code # s /\ send' = [send EXCEPT ![s] = send'[s]] /\ send'[s] # "save"
    BY <1>2 DEF Save, SendGoes, GuessInv, Fresh
  <2>2. CASE StoreCode(s)
    <3>1. \A x \in Sends : code = x => send[x] # "save"
      BY DEF GuessInv, Fresh
    <3>2. OTC!Issue(s)
      BY <1>1, <2>1, <2>2, <3>1 DEF OTC!Issue, StoreCode, RedeemersOf
    <3> QED
      BY <3>2 DEF OTC!Next
  <2>3. CASE UNCHANGED code
    <3>1. OTC!Discard(s)
      BY <1>1, <2>1, <2>3 DEF OTC!Discard, RedeemersOf
    <3> QED
      BY <3>1 DEF OTC!Next
  <2> QED
    BY <1>2, <2>2, <2>3 DEF Save, redis
<1>3. CASE Mail(s) \/ Stop(s)
  <2>1. UNCHANGED code /\ \A x \in Sends : send'[x] = "save" <=> send[x] = "save"
    BY <1>3 DEF Mail, Stop, SendGoes, redis
  <2> QED
    BY <1>1, <2>1 DEF OTC!vars, RedeemersOf
<1>4. CASE Cleanup(s)
  <2>1. \A x \in Sends : send'[x] = "save" <=> send[x] = "save"
    BY <1>4 DEF Cleanup, SendGoes
  <2>2. CASE UNCHANGED code
    BY <1>1, <2>1, <2>2 DEF OTC!vars, RedeemersOf
  <2>3. CASE code = s /\ code' = NoCode
    <3>1. OTC!Discard(s)
      BY <1>1, <1>4, <2>1, <2>3 DEF OTC!Discard, RedeemersOf, Cleanup, SendGoes
    <3> QED
      BY <3>1 DEF OTC!Next
  <2> QED
    BY <1>4, <2>2, <2>3 DEF Cleanup, DropCode, redis
<1> QED
  BY <1>2, <1>3, <1>4 DEF SendStep

LEMMA RegImplements ==
  ASSUME RefInv, NEW r \in Registers, RegStep(r)
  PROVE  [OTC!Next]_OTC!vars
PROOF
<1> USE EmailAssumption DEF RefInv, StateInv, EmailTypeOK
<1>1. CASE reg'[r].pc \in Used /\ reg[r].pc \notin Used
  <2>0. reg[r].guess \in Sends /\ code = reg[r].guess
    BY <1>1, UsedStep
  <2> PICK c \in Sends : c = reg[r].guess
    BY <2>0
  <2>1. code = c /\ code' = NoCode /\ UNCHANGED <<send, user>>
    BY <1>1, <2>0, UsedStep DEF RegStep, Verify, Insert, DropCode, Used
  <2>2. \A x \in Sends \ {c} : Redeemers(x)' = Redeemers(x)
    BY <1>1, UsedStep DEF Redeemers, Used
  <2>3. Redeemers(c)' = {r}
    BY <1>1, <2>1, UsedStep DEF Redeemers, Used, Spent
  <2>4. send[c] # "save"
    BY <2>1 DEF GuessInv, Fresh
  <2>5. OTC!Redeem(c, r)
    BY <2>1, <2>2, <2>3, <2>4 DEF OTC!Redeem
  <2> QED
    BY <2>5 DEF OTC!Next
<1>2. CASE reg'[r].pc \in Used <=> reg[r].pc \in Used
  <2>1. UNCHANGED RedeemersOf /\ \A x \in Sends : Redeemers(x)' = Redeemers(x)
    BY <1>2, UsedStep DEF RedeemersOf, Redeemers, Used
  <2>2. CASE Verify(r)
    <3>1. UNCHANGED <<send, user>> /\ code' \in {code, NoCode}
      BY <2>2 DEF Verify, DropCode, CountAttempt, redis
    <3>2. CASE UNCHANGED code
      BY <2>1, <3>1, <3>2 DEF OTC!vars
    <3>3. CASE code # NoCode /\ code' = NoCode
      BY <2>1, <3>1, <3>3, DropIsDiscard
    <3> QED
      BY <3>1, <3>2, <3>3
  <2>3. CASE Insert(r)
    <3>1. UNCHANGED <<send, code>>
      BY <2>3 DEF Insert, redis
    <3>2. CASE UNCHANGED user
      BY <2>1, <3>1, <3>2 DEF OTC!vars
    <3>3. CASE user = NoUser /\ user' = r
      <4>1. reg[r].guess \in Sends /\ r \in Redeemers(reg[r].guess)
        BY <2>3 DEF Insert, Spent, Redeemers, Used
      <4>2. OTC!CreateUser(r)
        BY <2>1, <3>1, <3>3, <4>1 DEF OTC!CreateUser
      <4> QED
        BY <4>2 DEF OTC!Next
    <3> QED
      BY <2>3, <3>2, <3>3 DEF Insert
  <2> QED
    BY <2>2, <2>3 DEF RegStep
<1>3. reg[r].pc \in Used => reg'[r].pc \in Used
  BY DEF RegStep, Verify, Insert, RegGoes, Registration, Used
<1> QED
  BY <1>1, <1>2, <1>3

LEMMA StepImplements == RefInv /\ [Next]_vars => [OTC!Next]_OTC!vars
PROOF
<1> SUFFICES ASSUME RefInv, [Next]_vars PROVE [OTC!Next]_OTC!vars
  OBVIOUS
<1>1. CASE Tick
  <2>1. UNCHANGED <<send, user, RedeemersOf>> /\ \A x \in Sends : Redeemers(x)' = Redeemers(x)
    BY <1>1 DEF Tick, RedeemersOf, Redeemers
  <2>2. CASE UNCHANGED code
    BY <2>1, <2>2 DEF OTC!vars
  <2>3. CASE code # NoCode /\ code' = NoCode
    BY <2>1, <2>3, DropIsDiscard
  <2> QED
    BY <1>1, <2>2, <2>3 DEF Tick, DropCode
<1>2. CASE UNCHANGED vars
  BY <1>2 DEF vars, redis, OTC!vars, Redeemers
<1> QED
  BY <1>1, <1>2, Steps, SendImplements, RegImplements

\* For any number of sends and registrations, concurrent, late or with lost replies: one
\* code is live, it is redeemed at most once, and only its redeemer becomes the user.
THEOREM CodesAreOneTime == Spec => ImplementsOneTimeCode
PROOF
<1>1. RefInv /\ [Next]_vars => RefInv'
  BY StateStep, GuessStep, SpentStep DEF RefInv
<1> QED
  BY <1>1, RefInit, StepImplements, PTL DEF Spec, OTC!Spec, ImplementsOneTimeCode
=============================================================================
