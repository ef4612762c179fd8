SPECIFICATION FairSpec
CONSTANTS
  BufferLength = 8
  WposMod = 9
  FrameLength = 3
  RegisterLength = 2
  PeriodMs = 0
  TimeoutMs = 1
  Reg05Every = 2
  MaxFaults = 1
  MaxAsked = 2
  MaxLine = 6
  Payloads <- BothVary
  Spans <- Beyond
  Strays = {0}
  Outcomes = {"ok", "late"}
INVARIANT LastCopy
INVARIANT InStep
PROPERTY Refreshed
