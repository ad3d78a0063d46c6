SPECIFICATION Spec
CONSTANTS
  c1 = c1
  direct = direct
  NoJob = NoJob
  Jobs = {j1}
  Workers = {w1}
  Procs <- Workers
  Convs <- OneConv
  ConvOf <- AllInOneConv
  Topics <- JobsAndDirect
  Causes = {"failed"}
  HistoryLimit = 3
  MaxAttempts = 2
  MaxFailures = 0
  MaxOutages = 1
  MaxLosses = 0
  MaxPosts = 0
CHECK_DEADLOCK FALSE
PROPERTIES
  AckMeansOutcome
