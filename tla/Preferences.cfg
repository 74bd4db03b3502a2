SPECIFICATION Spec
CONSTANTS
  Fields <- MCKinds
  Listed = TRUE
  G_OS_WIN32 = FALSE
  Trouble = {"font", "synth", "audio", "midi", "crash"}
INVARIANTS
  ParsedReloaded
  PlaysAccepted
  WholeOrDefaults
