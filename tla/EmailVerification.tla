-------------------------- MODULE EmailVerification --------------------------
(***************************************************************************)
(* Verification codes of one e-mail address: requests that send a code     *)
(* (emailverification.Service.Send) and registrations that use one         *)
(* (user.Service.Register), over three Redis keys with expiry times and    *)
(* the users table.  The keys of different addresses are disjoint, so one  *)
(* address is enough.                                                      *)
(*                                                                         *)
(* Each Lua script is one atomic step.  A reply may be lost: the Redis     *)
(* client then runs the script again, and reports an error only if that    *)
(* fails too.  `lost` counts the replies lost after an effect, and cleanup *)
(* deletes that do not reach Redis.  The process that runs a request may   *)
(* end at any point of it: a send that has stored its code just stops, and *)
(* for any other request that is one of its failures.  Time passes in      *)
(* steps of Tick, at any point of any request: neither the SMTP timeout    *)
(* nor a slow client is bounded by the expiry times.                       *)
(***************************************************************************)
EXTENDS Naturals, FiniteSets

CONSTANTS
  Sends,           \* requests for a code; each makes a code of its own
  Registers,       \* registrations
  NoCode,          \* a missing key, and a guess that is no code
  NoUser,
  CodeTTL,         \* EMAIL_VERIFICATION_CODE_TTL_SECONDS, in ticks
  ResendInterval,  \* EMAIL_VERIFICATION_RESEND_INTERVAL_SECONDS, in ticks
  MaxAttempts,     \* EMAIL_VERIFICATION_MAX_ATTEMPTS
  MaxLost          \* bound of lost

ASSUME EmailAssumption ==
  /\ NoCode \notin Sends
  /\ NoUser \notin Registers
  /\ IsFiniteSet(Registers)
  /\ CodeTTL \in Nat \ {0}
  /\ ResendInterval \in 1..CodeTTL
  /\ MaxAttempts \in Nat \ {0}
  /\ MaxLost \in Nat

VARIABLES
  code,      \* key code:   the send whose code is stored
  ttl,       \*             and its time to live
  cooldown,  \* key cooldown: its time to live, 0 if there is none
  attempts,  \* key attempts: wrong codes so far, 0 if there is none
  mailbox,   \* codes the mail server has taken for delivery
  send,      \* where each request for a code is
  reg,       \* where each registration is
  user,      \* table users: the registration that inserted the address
  lost       \* replies and deletes lost so far

redis == <<code, ttl, cooldown, attempts>>
vars == <<redis, mailbox, send, reg, user, lost>>

SendPc == {"save", "mail", "cleanup", "accepted", "too_frequent", "failed", "stopped"}
RegPc == {"verify", "insert", "created", "bad_code", "unavailable", "exists", "error"}

\* against are the codes that the guess was compared with and was wrong.
Registration == [pc: RegPc, guess: Sends \cup {NoCode}, against: SUBSET Sends]

EmailTypeOK ==
  /\ code \in Sends \cup {NoCode}
  /\ ttl \in 0..CodeTTL
  /\ cooldown \in 0..ResendInterval
  /\ attempts \in 0..(MaxAttempts - 1)
  /\ code = NoCode <=> ttl = 0
  /\ mailbox \subseteq Sends
  /\ send \in [Sends -> SendPc]
  /\ reg \in [Registers -> Registration]
  /\ user \in Registers \cup {NoUser}
  /\ lost \in 0..MaxLost

Init ==
  /\ code = NoCode /\ ttl = 0 /\ cooldown = 0 /\ attempts = 0
  /\ mailbox = {}
  /\ send = [s \in Sends |-> "save"]
  /\ reg \in [Registers -> [pc: {"verify"}, guess: Sends \cup {NoCode}, against: {{}}]]
  /\ user = NoUser
  /\ lost = 0

----------------------------------------------------------------------------
Lose == lost < MaxLost /\ lost' = lost + 1

SendGoes(s, pc) == send' = [send EXCEPT ![s] = pc]

RegGoes(r, pc) == reg' = [reg EXCEPT ![r].pc = pc]

DropCode == code' = NoCode /\ ttl' = 0 /\ attempts' = 0

----------------------------------------------------------------------------
(* Sending a code                                                          *)

\* The save script: the cooldown protects the stored code from being replaced.
StoreCode(s) ==
  /\ cooldown = 0
  /\ code' = s
  /\ ttl' = CodeTTL
  /\ cooldown' = ResendInterval
  /\ attempts' = 0

\* When the reply of the script is lost, its second run meets the cooldown that the
\* first has set.
Save(s) ==
  /\ send[s] = "save"
  /\ \/ StoreCode(s) /\ SendGoes(s, "mail") /\ UNCHANGED lost
     \/ StoreCode(s) /\ SendGoes(s, "too_frequent") /\ Lose
     \/ StoreCode(s) /\ SendGoes(s, "failed") /\ Lose
     \/ cooldown > 0 /\ SendGoes(s, "too_frequent") /\ UNCHANGED <<redis, lost>>
     \/ SendGoes(s, "failed") /\ UNCHANGED <<redis, lost>>
  /\ UNCHANGED <<mailbox, reg, user>>

\* The SMTP exchange: it may fail, or the client may leave, also after the server has
\* taken the message.
Mail(s) ==
  /\ send[s] = "mail"
  /\ \/ mailbox' = mailbox \cup {s} /\ \E pc \in {"accepted", "cleanup"} : SendGoes(s, pc)
     \/ UNCHANGED mailbox /\ SendGoes(s, "cleanup")
  /\ UNCHANGED <<redis, reg, user, lost>>

\* Mutants: the delete does not compare the code; it does so for the code key only;
\* the failed send is not compensated.
CleanupUnconditional(s) ==
  /\ send[s] = "cleanup"
  /\ SendGoes(s, "failed")
  /\ DropCode /\ cooldown' = 0
  /\ UNCHANGED <<mailbox, reg, user, lost>>
CleanupOfAnyCooldown(s) ==
  /\ send[s] = "cleanup"
  /\ SendGoes(s, "failed")
  /\ cooldown' = 0
  /\ IF code = s THEN DropCode ELSE UNCHANGED <<code, ttl, attempts>>
  /\ UNCHANGED <<mailbox, reg, user, lost>>
CleanupOfCode(s) ==
  /\ send[s] = "cleanup"
  /\ SendGoes(s, "failed")
  /\ UNCHANGED <<redis, mailbox, reg, user, lost>>

\* The mail failed: the delete script takes back what this send has stored, on a
\* context of its own.
Cleanup(s) ==
  /\ send[s] = "cleanup"
  /\ SendGoes(s, "failed")
  /\ \/ /\ IF code = s THEN DropCode /\ cooldown' = 0 ELSE UNCHANGED redis
        /\ UNCHANGED lost
     \/ UNCHANGED redis /\ Lose
  /\ UNCHANGED <<mailbox, reg, user>>

\* The process ends, by a crash or at its shutdown limit, with the code in Redis and its
\* mail under way, or not yet taken back.
Stop(s) ==
  /\ send[s] \in {"mail", "cleanup"}
  /\ SendGoes(s, "stopped")
  /\ UNCHANGED <<redis, mailbox, reg, user, lost>>

----------------------------------------------------------------------------
(* Registering                                                             *)

\* Mutant: an attempt too many.
CountAttemptOffByOne ==
  IF attempts >= MaxAttempts
  THEN DropCode
  ELSE attempts' = attempts + 1 /\ UNCHANGED <<code, ttl>>

\* One wrong guess more, at the limit of which the code goes.
CountAttempt ==
  IF attempts + 1 >= MaxAttempts
  THEN DropCode
  ELSE attempts' = attempts + 1 /\ UNCHANGED <<code, ttl>>

\* The guess is not the stored code.
TurnedDown(r, pc) ==
  reg' = [reg EXCEPT ![r].pc = pc, ![r].against = @ \cup {code}]

\* Mutant: a right code is compared and not consumed.
VerifyKeepsCode(r) ==
  LET guess == reg[r].guess IN
  /\ reg[r].pc = "verify"
  /\ RegGoes(r, IF code # NoCode /\ guess = code THEN "insert" ELSE "bad_code")
  /\ UNCHANGED <<redis, mailbox, send, user, lost>>

\* The verify script compares, consumes and counts in one step.  When its reply is lost
\* after an effect, the script runs again, perhaps against another code, or the client
\* gives up.
Verify(r) ==
  LET guess == reg[r].guess IN
  /\ reg[r].pc = "verify"
  /\ \/ /\ code = NoCode
        /\ RegGoes(r, "bad_code")
        /\ UNCHANGED <<redis, lost>>
     \/ /\ code # NoCode /\ guess = code
        /\ DropCode /\ UNCHANGED cooldown
        /\ \/ RegGoes(r, "insert") /\ UNCHANGED lost
           \/ \E pc \in {"verify", "unavailable"} : RegGoes(r, pc) /\ Lose
     \/ /\ code # NoCode /\ guess # code
        /\ CountAttempt /\ UNCHANGED cooldown
        /\ \/ TurnedDown(r, "bad_code") /\ UNCHANGED lost
           \/ \E pc \in {"verify", "unavailable"} : TurnedDown(r, pc) /\ Lose
     \/ /\ RegGoes(r, "unavailable")
        /\ UNCHANGED <<redis, lost>>
  /\ UNCHANGED <<mailbox, send, user>>

\* INSERT INTO users: the address is unique.  The consumed code is not given back.
Insert(r) ==
  /\ reg[r].pc = "insert"
  /\ \/ user = NoUser /\ user' = r /\ RegGoes(r, "created") /\ UNCHANGED lost
     \/ user = NoUser /\ user' = r /\ RegGoes(r, "error") /\ Lose
     \/ user # NoUser /\ RegGoes(r, "exists") /\ UNCHANGED <<user, lost>>
     \/ RegGoes(r, "error") /\ UNCHANGED <<user, lost>>
  /\ UNCHANGED <<redis, mailbox, send>>

----------------------------------------------------------------------------
\* Time passes; the attempts expire with the code.
Tick ==
  /\ ttl > 0 \/ cooldown > 0
  /\ cooldown' = IF cooldown > 0 THEN cooldown - 1 ELSE 0
  /\ IF ttl > 1 THEN ttl' = ttl - 1 /\ UNCHANGED <<code, attempts>> ELSE DropCode
  /\ UNCHANGED <<mailbox, send, reg, user, lost>>

Next ==
  \/ \E s \in Sends : Save(s) \/ Mail(s) \/ Cleanup(s) \/ Stop(s)
  \/ \E r \in Registers : Verify(r) \/ Insert(r)
  \/ Tick

Spec == Init /\ [][Next]_vars

----------------------------------------------------------------------------
(* Properties                                                              *)

\* The code key and the cooldown key were written together and only go together: the
\* cooldown of a stored code is what is left of its own, so a slow cleanup or a wrong
\* guess never opens the door to replace a code that was just sent.
CooldownIsOfCode ==
  code # NoCode =>
    cooldown = IF CodeTTL - ttl < ResendInterval THEN ResendInterval - (CodeTTL - ttl) ELSE 0

\* However many registrations guess at once, and however often the script is run
\* again, a code is compared with at most MaxAttempts wrong guesses.
GuessesBounded ==
  \A s \in Sends : Cardinality({r \in Registers : s \in reg[r].against}) <= MaxAttempts

\* A code in Redis that nobody was or will be sent, and that blocks the next one for the
\* cooldown, is left only by a process that ended between the save and its answer, a lost
\* reply or a lost delete: a failed mail, a client that leaves and a racing send leave none.
UnsentCodesHaveCause ==
  (code # NoCode /\ code \notin mailbox /\ send[code] \notin {"mail", "cleanup"}) =>
    send[code] = "stopped" \/ lost > 0

\* A code whose request was answered with 202 stands: it goes only by a guess, by its
\* expiry or for a newer code, and not by the late cleanup of another send.
AcceptedCodeStands ==
  [][\A s \in Sends : (code = s /\ send[s] = "accepted" /\ code' # s) =>
       \/ UNCHANGED <<send, cooldown>> /\ \E r \in Registers : reg[r].pc = "verify"
       \/ ttl = 1 /\ ttl' = 0
       \/ code' # NoCode]_vars

\* Registrations that hold, or held, an accepted code s.
Redeemers(s) ==
  {r \in Registers : reg[r].guess = s /\ reg[r].pc \in {"insert", "created", "exists", "error"}}

\* What the owner of the address sees is OneTimeCode: one live code, redeemed once, and
\* no user without one, whatever is concurrent, late or lost.
OTC == INSTANCE OneTimeCode WITH
  Codes <- Sends,
  status <- [s \in Sends |-> IF code = s THEN "live"
                             ELSE IF send[s] = "save" THEN "unissued" ELSE "dead"],
  redeemers <- [s \in Sends |-> Redeemers(s)]

ImplementsOneTimeCode == OTC!Spec
=============================================================================
