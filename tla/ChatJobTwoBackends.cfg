SPECIFICATION Spec
CONSTANTS
  c1 = c1
  direct = direct
  NoJob = NoJob
  Jobs = {j1, j2}
  Workers = {w1, w2}
  Procs <- Workers
  Convs <- OneConv
  ConvOf <- AllInOneConv
  Topics <- JobsAndDirect
  Causes = {"failed"}
  HistoryLimit = 3
  MaxAttempts = 2
  MaxFailures = 0
  MaxOutages = 1
  MaxLosses = 1
  MaxPosts = 0
CHECK_DEADLOCK FALSE
SYMMETRY Symmetry
INVARIANTS
  ExclusiveProcessing
  StrandedByOutages
