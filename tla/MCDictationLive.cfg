\* The same threads under fairness. It may stop as in MCDictation.cfg.
CONSTANTS
  s1 = s1
  s2 = s2
  Session = {s1, s2}
  None = None
  ChannelBound = 1
  SaveBound = 1
  SpawnMayFail = FALSE
SPECIFICATION FairSpec
CONSTRAINTS InOrder OneRetained SavesRefused LoopRuns
PROPERTIES
  SlotIsGivenBack
CHECK_DEADLOCK FALSE
