SPECIFICATION MCSpec
CONSTANTS
  Scripts <- MCScripts
  UNSET <- MCUnset
  LEFT <- MCLeft
  LIMIT = 2
  BUFFER_TOKENS = 10
  CONTENT_LENGTH = 2
  BODY = 5
INVARIANTS
  TypeOK
  UpgradedOnlyBy101
  RefusedOnlyByFinal
PROPERTIES
  OuterWaitEnds
  RefusalReported
