SPECIFICATION MCSpec
CONSTANTS
  MAX_CALLS = 5
  MAX_VMS = 1
  BUFFER_SIZE = 2
  HOME = "home"
  APPDATA = "unset"
  Directories = {"home"}
  Homes = {}
INVARIANT
  NoCertOnceDisabled
