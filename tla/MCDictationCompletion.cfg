\* Two dictations after each other; the first one's observation may outlive
\* the beginning of the second.  The system may stop: nobody need dictate.
CONSTANTS
  d1 = d1
  d2 = d2
  Dictation = {d1, d2}
  None = None
  Edits = 2
  Looks = 1
SPECIFICATION Spec
CONSTRAINT InOrder
INVARIANTS
  OneActiveObserver
  FinalTextIsLastRevision
PROPERTIES
  ImplementsHistoryRecord
CHECK_DEADLOCK FALSE
