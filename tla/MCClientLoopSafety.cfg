SPECIFICATION MCSpec
CONSTANTS
  BUFFER_SIZE = 3
  CONN = 3
  PROXY = 4
  MAX_CURLE_UNSUPPORTED_PROTOCOL = 1
  RECORD_MAX = 2
  NX_SOCKET = 1
  WINDOW = 1
  REMOTE_LEN = 4
  NX_LEN = 3
INVARIANTS
  TypeOK
  NxGetsRemoteStream
  RemoteGetsNxStream
  NoWedge
  FdClosedOnlyIfPeerGone
PROPERTIES
  FailureReported
  ConnSilentAfterClose
  ToNxPipe
  ToRemotePipe
