SPECIFICATION Spec
CONSTANTS
  c1 = c1
  direct = direct
  NoJob = NoJob
  Jobs = {j1}
  Workers = {w1, w2}
  Procs <- Workers
  Convs <- OneConv
  ConvOf <- AllInOneConv
  Topics <- JobsAndDirect
  Causes = {"failed", "timed_out"}
  HistoryLimit = 1
  MaxAttempts = 3
  MaxFailures = 2
  MaxOutages = 1
  MaxLosses = 1
  MaxPosts = 1
CHECK_DEADLOCK FALSE
SYMMETRY Symmetry
INVARIANTS
  TypeOK
  AttemptsBounded
  OwnersHoldRows
  NoDuplicateTurns
  OrphansBounded
PROPERTIES
  OutcomeIsFinal
  ImplementsLifecycle
