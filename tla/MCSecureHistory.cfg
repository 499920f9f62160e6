\* The delivery to a secure control that is too slow for its worker.
CONSTANTS
  d1 = d1
  d2 = d2
  Dictation = {d1, d2}
  None = None
  Edits = 2
  Looks = 1
SPECIFICATION Spec
CONSTRAINT InOrder
INVARIANT SecureTargetIsNotStored
CHECK_DEADLOCK FALSE
