SPECIFICATION FairSpec
CONSTANTS
  Stream = {s1, s2}
  Pgn = {1, 2}
  Filters <- OneOrAll
  BufferLength = 4
  LineLengths = {2}
  MaxChunk = 2
  MaxLines = 2
INVARIANT ListSound
PROPERTY StreamsKeepOrder
PROPERTY Delivered
