----------------------------- MODULE OneTimeCode -----------------------------
(***************************************************************************)
(* What a mailbox owner may rely on: the codes issued for one address,     *)
(* with no Redis keys, expiry times, mails or lost replies in it.  Only    *)
(* the newest code is live, a code is redeemed at most once, and only a    *)
(* redeemer may become the user of the address.  EmailVerification         *)
(* implements it (EmailVerification!ImplementsOneTimeCode).                *)
(***************************************************************************)
EXTENDS FiniteSets

CONSTANTS Codes, Registers, NoUser

VARIABLES
  status,     \* of each code
  redeemers,  \* the registrations each code was good for
  user        \* the registration that created the user

vars == <<status, redeemers, user>>

Init ==
  /\ status = [c \in Codes |-> "unissued"]
  /\ redeemers = [c \in Codes |-> {}]
  /\ user = NoUser

\* A new code replaces the one before.
Issue(c) ==
  /\ status[c] = "unissued"
  /\ status' = [x \in Codes |-> IF x = c THEN "live"
                                ELSE IF status[x] = "live" THEN "dead" ELSE status[x]]
  /\ UNCHANGED <<redeemers, user>>

Redeem(c, r) ==
  /\ status[c] = "live"
  /\ status' = [status EXCEPT ![c] = "dead"]
  /\ redeemers' = [redeemers EXCEPT ![c] = {r}]
  /\ UNCHANGED user

\* A code expires, is withdrawn or used up, or is never issued.
Discard(c) ==
  /\ status[c] \in {"unissued", "live"}
  /\ status' = [status EXCEPT ![c] = "dead"]
  /\ UNCHANGED <<redeemers, user>>

CreateUser(r) ==
  /\ user = NoUser
  /\ \E c \in Codes : r \in redeemers[c]
  /\ user' = r
  /\ UNCHANGED <<status, redeemers>>

Next ==
  \/ \E c \in Codes : Issue(c) \/ Discard(c)
  \/ \E c \in Codes, r \in Registers : Redeem(c, r)
  \/ \E r \in Registers : CreateUser(r)

Spec == Init /\ [][Next]_vars
=============================================================================
