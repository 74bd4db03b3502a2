SPECIFICATION Spec
CONSTANTS
  Devices <- MCDevices
  DefaultDevice = 0
  G_OS_WIN32 = FALSE
  DeviceNames <- MCDeviceNames
  AudioDrivers = {"portaudio", "dummy"}
  MidiDrivers = {"portmidi", "dummy"}
  PmErrors = {TRUE, FALSE}
  CloseErrors = {TRUE, FALSE}
INVARIANTS
  DummyServed
  SuccessIsWhole
  PmBalanced
  NoUseAfterFree
  ListedDeviceOpens
PROPERTIES
  ShutDownEnds
\* The program has exited.
CHECK_DEADLOCK FALSE
