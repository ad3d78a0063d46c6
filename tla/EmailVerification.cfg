SPECIFICATION Spec
CONSTANTS
  NoCode = NoCode
  NoUser = NoUser
  Sends = {s1, s2}
  Registers = {r1, r2, r3}
  CodeTTL = 3
  ResendInterval = 2
  MaxAttempts = 2
  MaxLost = 2
CHECK_DEADLOCK FALSE
SYMMETRY Symmetry
INVARIANTS
  CooldownIsOfCode
  GuessesBounded
  UnsentCodesHaveCause
PROPERTIES
  AcceptedCodeStands
  ImplementsOneTimeCode
