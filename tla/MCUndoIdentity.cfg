\* An undo restores a recording under the identity of another session.
CONSTANTS
  s1 = s1
  s2 = s2
  Session = {s1, s2}
  None = None
  ChannelBound = 2
  SaveBound = 1
  SpawnMayFail = FALSE
SPECIFICATION Spec
CONSTRAINT InOrder
INVARIANT RestoredKeepsIdentity
CHECK_DEADLOCK FALSE
