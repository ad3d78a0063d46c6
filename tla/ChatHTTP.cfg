SPECIFICATION FairSpec
CONSTANTS
  c1 = c1
  stream = stream
  plain = plain
  Procs = {stream, plain}
  Streams = {stream}
  Jobs <- NoJobs
  ConvOf <- NoJobConvs
  Convs <- OneConv
  ReqConv <- ToOneConv
  Topics <- RequestTopics
  Causes = {"failed", "cancelled", "timed_out", "incomplete"}
  HistoryLimit = 1
  MaxFailures = 1
  MaxPlanning = 1
  MaxPieces = 2
CHECK_DEADLOCK FALSE
INVARIANTS
  DoneIsStored
  OneRoundIsShown
  TruncatedStreamIsNotStored
  ErrorsHideFewReplies
  TurnsAreWhole
PROPERTIES
  CallsAreClosed
