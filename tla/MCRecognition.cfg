\* The threads under fairness; the clipboard is left alone.
CONSTANTS
  d1 = d1
  d2 = d2
  Dictation = {d1, d2}
  None = None
  Polls = 0
  Copies = 0
  MaxUnits = 6
  BatchUnits = 2
  StreamQueue = 1
  CommandQueue = 1
  SegmentUnits = 3
  OverlapUnits = 1
  SkippedUnits = 1
  BufferLimit = 4
  Callbacks = {1, 3}
  QuietPatterns <- Pauses
  EchoPatterns <- Echoes
SPECIFICATION BothSpec
CONSTRAINTS InOrder Settled
INVARIANTS
  TranscriptIsWhole
PROPERTIES
  BorrowingAndDeliveryEnd
  RecognitionEnds
CHECK_DEADLOCK FALSE
