\* Shortcut thread, UI thread, audio thread and workers over two sessions.
\* The system may stop: after the event loop has ended, a paused application
\* takes no more shortcuts.
CONSTANTS
  s1 = s1
  s2 = s2
  Session = {s1, s2}
  None = None
  ChannelBound = 1
  SaveBound = 1
  SpawnMayFail = TRUE
SPECIFICATION Spec
CONSTRAINT InOrder
INVARIANTS
  TypeOK
  FinishHasOneOwner
  DeliveredAsWanted
  IdleReleasesDevices
  PausedStopsRecording
PROPERTIES
  FreshRecordingIsKept
  ImplementsLifecycle
CHECK_DEADLOCK FALSE
