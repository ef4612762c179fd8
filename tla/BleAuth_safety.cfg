SPECIFICATION Spec
CONSTANTS
  NoClient = NoClient
  Handle = {1, 2}
  MaxClients = 2
  LockoutFailures = 2
  MaxFailures = 3
  GlobalLockoutFailures = 3
  LockoutMs = 1
  GlobalLockoutMs = 2
  IdleTimeoutMs = 3
  AdvWatchdogMs = 3
  ClockMod = 32
  StartClock = 0
  MaxClock = 2
  LateFailures = 0
INVARIANT OnlyProvedAct
INVARIANT GuessBudget
PROPERTY LockoutsHold
PROPERTY LockoutsEnd
CHECK_DEADLOCK FALSE
