CONSTANTS
  RXBUF_SIZE = 5
  ID_MOD = 2
  PACKET = 1
  Lengths = {1, 2}
  ReplySizes = {2}
  DataBytes = {1, 2}
  MaxRequests = 3
  MaxBacklog = 2
  MaxKeepAlives = 2
  MaxLost = 1
SPECIFICATION Spec
INVARIANTS TypeOK AckMeansAnswered DataIntact NothingLeft
CHECK_DEADLOCK FALSE
