SPECIFICATION Spec
CONSTANTS
  Alphabet <- Letters
  LowerCase <- LowerCases
  AlwaysWrite <- WordsAlwaysWrite
  SubcommandWrite <- PairsWrite
  MaxCommand = 5
  MaxCapture = 5
  TailKeep = 4
  MaxStream = 5
  MaxChunk = 4
  MaxShown = 10
  Names <- NamesWritten
  Declared <- TablesDeclared
  Lines <- LinesWritten
  MaxLines = 5
INVARIANTS
  SegmentsAsQuoted
  EndsShown
  ImportHarmless
  JumpsEnd
CHECK_DEADLOCK FALSE
