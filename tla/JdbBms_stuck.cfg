SPECIFICATION FairSpec
CONSTANTS
  BufferLength = 5
  WposMod = 6
  FrameLength = 2
  RegisterLength = 2
  PeriodMs = 0
  TimeoutMs = 1
  Reg05Every = 2
  MaxFaults = 2
  MaxAsked = 1
  MaxLine = 4
  Payloads <- OneEach
  Spans <- Plain
  Strays = {0}
  Outcomes = {"ok", "sum", "late"}
PROPERTY Refreshed
