CONSTANTS
  PortNames <- MCPortNames
  Mappings <- MCMappings
  Layouts <- MCLayouts
  Freqs = {100, 200}
  Brights = {100}
  Cuts = {2, 16, 20, 25}
  MaxOps = 5
  None = None
  DEF_RETRY = 2
  Values = {v1, v2}
  ErrBits = {"FRAME"}
  MaxCalls = 4
  MaxQueue = 3
CHECK_DEADLOCK FALSE
SPECIFICATION MCSpec
INVARIANTS MCTypeOK StoredIsPromised ConfigIsKept 
PROPERTY CallEnds
