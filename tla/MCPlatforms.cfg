\* Two deliveries after each other, with the first one's session and writes,
\* or its observation, left behind; two saved edits of the shortcuts and a
\* restart; four keys.  The system may stop: nobody need dictate.
CONSTANTS
  d1 = d1
  d2 = d2
  Dictation = {d1, d2}
  None = None
  Polls = 1
  Copies = 1
  c1 = c1
  c2 = c2
  k1 = k1
  k2 = k2
  WinDictations = {d1, d2}
  Controls = {c1, c2}
  PasswordControls = {c2}
  NativeEdits = {c2}
  WinCopies = {k1, k2}
  NoDelivery = None
  CommandCapacity = 2
  MaxVersions = 1
  MaxWinFaults = 1
  MaxMoves = 1
  combination = combination
  alt = alt
  legacy = legacy
  Combinations = {combination}
  RightAlt = alt
  Legacy = legacy
  NoUpdate = None
  MaxUpdates = 2
  MaxCaptures = 1
  MaxPresses = 2
  MaxSwitches = 1
  fn = fn
  right = right
  left = left
  letter = letter
  escape = escape
  chord = chord
  Fn = fn
  RightCommand = right
  LeftCommand = left
  Letter = letter
  Escape = escape
  Chord = chord
  NoKeys = None
  MaxKeyEvents = 4
  MaxPolledEvents = 1
  MaxConfigurations = 1
  MaxMacCaptures = 1
SPECIFICATION PlatformSpec
CONSTRAINTS InOrder Landed
INVARIANTS
  PlatformTypeOK
  NoTranscriptLeft
  ClipboardReturned
  InsertionIsTold
  OneOverdueWrite
  WindowsClipboardReturned
  ObserverHearsOneEnd
  ShortcutsAgree
  PressIsWhole
  OnePressOneAct
CHECK_DEADLOCK FALSE
