SPECIFICATION FairSpec
CONSTANTS
  Period <- ShortPeriods
  RateLimit = 1
  PassesPerTick = 4
  Foreign <- Others
  Denied = {127506}
  MaxSwitches = 2
INVARIANT Prompt
PROPERTY EveryPgnStreamed
