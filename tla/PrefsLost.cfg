SPECIFICATION Spec
CONSTANTS
  Fields <- MCAll
  Listed = TRUE
  G_OS_WIN32 = FALSE
  Trouble = {}
INVARIANTS
  AllReloaded
