SPECIFICATION MCSpec
CONSTANTS
  MAX_CALLS = 5
  MAX_VMS = 3
  BUFFER_SIZE = 3
  HOME = "home"
  APPDATA = "unset"
  Directories = {"home", "own"}
  Homes = {"own", "missing"}
INVARIANTS
  TypeOK
  ListAlive
  WalksAList
  CountMatches
  FailedCallKeepsList
  ListIsLastBody
  OneNodeLost
  PeersClosed
  NxHomeIsOurs
PROPERTIES
  OverflowReported
  EndNotLost
