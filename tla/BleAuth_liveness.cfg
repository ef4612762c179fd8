SPECIFICATION FairSpec
CONSTANTS
  NoClient = NoClient
  Handle = {1}
  MaxClients = 1
  LockoutFailures = 1
  MaxFailures = 2
  GlobalLockoutFailures = 2
  LockoutMs = 2
  GlobalLockoutMs = 5
  IdleTimeoutMs = 1
  AdvWatchdogMs = 1
  ClockMod = 16
  StartClock = 12
  MaxClock = 15
  LateFailures = 0
INVARIANT TypeOK
PROPERTIES IdleDropped StaleRecovered AdvertisingRestored
CHECK_DEADLOCK FALSE
