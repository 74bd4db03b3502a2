SPECIFICATION Spec
CONSTANTS
  Capacity = 2
  MaxEvents = 5
INVARIANTS
  MutexOwned
  NoSleepOnSignal
  JoinIsSafe
PROPERTIES
  ImplementsChannel
  EveryEventHandled
  ShutDownEnds
  SleepsAgain
\* After audio_shutdown nothing runs any more.
CHECK_DEADLOCK FALSE
