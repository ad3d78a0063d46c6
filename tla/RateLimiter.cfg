SPECIFICATION FairSpec
CONSTANTS
  ann = ann
  home = home
  road = road
  laptop = laptop
  phone = phone
  Clients <- Devices
  Routes <- RoutesOfRouter
  Limiters <- ChatAndLogin
  RouteLimiter <- SharedChat
  Anonymous <- ByAddress
  User <- OneUser
  Address <- TwoPlaces
  Limit <- Limits
  Window <- Windows
  Second = 2
  MaxRuns = 2
CHECK_DEADLOCK FALSE
INVARIANTS
  WindowBound
  SlidingBound
  CountersExpire
  RetryAfterFits
PROPERTIES
  LockoutEnds
