SPECIFICATION Spec
CONSTANTS
  NoClient = NoClient
  Handle = {1}
  MaxClients = 1
  LockoutFailures = 2
  MaxFailures = 3
  GlobalLockoutFailures = 3
  LockoutMs = 2
  GlobalLockoutMs = 3
  IdleTimeoutMs = 2
  AdvWatchdogMs = 2
  ClockMod = 32
  StartClock = 0
  MaxClock = 1
  LateFailures = 1
INVARIANTS EveryLinkTracked
CHECK_DEADLOCK FALSE
