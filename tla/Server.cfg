SPECIFICATION FairSpec
CONSTANTS
  Handlers = {h1, h2}
  NoHandler = NoHandler
  MaxAttempts = 3
  MaxJobs = 2
CHECK_DEADLOCK FALSE
INVARIANTS
  NoUseAfterClose
  SuccessIsDrained
PROPERTIES
  SignalEnds
