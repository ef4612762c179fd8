SPECIFICATION FairSpec
CONSTANTS
  UnsafeTimeout = 1
  FastTimeout = 1
  UpdateTimeout = 2
  SlowTimeout = 3
  NavTimeout = 3
  MinInterval = 1
  Interval = 2
  MaxInterval = 3
  MaxAuths = 1
  MaxCommands = 2
  LoopLag = 1
  Scenarios <- AllScenarios
INVARIANT ChangesFlagged
INVARIANT StatesFresh
INVARIANT SteersAsTold
PROPERTY StatesArrive
