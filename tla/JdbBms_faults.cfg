SPECIFICATION FairSpec
CONSTANTS
  BufferLength = 5
  WposMod = 6
  FrameLength = 2
  RegisterLength = 1
  PeriodMs = 0
  TimeoutMs = 1
  Reg05Every = 2
  MaxFaults = 2
  MaxAsked = 1
  MaxLine = 3
  Payloads <- OneLong
  Spans <- Within
  Strays = {0}
  Outcomes = {"ok", "error", "sum", "end", "silent", "late", "noise", "lost"}
PROPERTY EveryRegisterAsked
