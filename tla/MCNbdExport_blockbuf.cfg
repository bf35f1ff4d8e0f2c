SPECIFICATION Spec
CONSTANTS
  BlockSize = 2
  BlockCount = 2
  Byte = {0, 1, 2}
  Conn = {c1}
  NoConn = NoConn
  Request <- Requests
  NoRequest = NoRequest
  NoReply = NoReply
  NoSnap = NoSnap
  InitialStack <- Stack
  MaxRequestLen = 3
  MaxU64 = 5
  MaxLog = 2
  MaxLayers = 3
  MaxFaults = 1
INVARIANT BlockBufKept
