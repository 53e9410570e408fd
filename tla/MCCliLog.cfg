SPECIFICATION LogSpec
CONSTANTS
  Options <- MCOptions
  Typed = {0, 1, 2, 9}
  MAX_CALLS = 12
  MAX_VMS = 2
  BUFFER_SIZE = 3
  HOME = "home"
  APPDATA = "unset"
  Directories = {"home"}
  Homes = {}
INVARIANT
  FallsBackToStderr
