CONSTANTS
  RXBUF_SIZE = 5
  ID_MOD = 4
  PACKET = 1
  Lengths = {1, 2}
  ReplySizes = {2}
  DataBytes = {2, 3}
  MaxRequests = 3
  MaxBacklog = 2
  MaxKeepAlives = 1
  MaxLost = 1
SPECIFICATION Spec
INVARIANT ReplyIsForActualRequest
CHECK_DEADLOCK FALSE
