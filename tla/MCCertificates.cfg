SPECIFICATION Spec
CONSTANTS
  Subjects = {"server", "other", "ca"}
  Contents = {"old", "new", "leaf", "root"}
  Chains <- MCChains
  Flawed <- MCFlawed
  Homes = {"own"}
  HOME = "nowhere"
  APPDATA = "appdata"
  Directories = {"appdata", "own"}
  MAX_CERTS = 2
  MAX_CONNECTIONS = 3
INVARIANTS
  TypeOK
  CertDirAsPromised
  AnswersDecide
  ShownIsSent
  SavedWasShown
  NotAskedAgain
