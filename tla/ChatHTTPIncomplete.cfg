SPECIFICATION Spec
CONSTANTS
  c1 = c1
  Procs = {plain}
  Streams = {}
  Jobs <- NoJobs
  ConvOf <- NoJobConvs
  Convs <- OneConv
  ReqConv <- ToOneConv
  Topics <- RequestTopics
  Causes = {"failed", "cancelled", "timed_out", "incomplete"}
  HistoryLimit = 1
  MaxFailures = 0
  MaxPlanning = 1
  MaxPieces = 2
CHECK_DEADLOCK FALSE
INVARIANTS
  IncompleteIsRecorded
