SPECIFICATION MCFairSpec
CONSTANTS
  BUFFER_SIZE = 1
  CONN = 3
  PROXY = 4
  MAX_CURLE_UNSUPPORTED_PROTOCOL = 1
  RECORD_MAX = 1
  NX_SOCKET = 1
  WINDOW = 1
  REMOTE_LEN = 2
  NX_LEN = 2
PROPERTIES
  EndHonoured
  EndsAfterClose
  RemoteDelivery
