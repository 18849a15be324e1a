CONSTANTS
  PortNames <- MCPortNames
  Mappings <- MCSameKeys
  Layouts <- MCLayouts
  Freqs = {100}
  Brights = {100}
  Cuts = {2, 16, 20}
  MaxOps = 3
  None = None
CHECK_DEADLOCK FALSE
SPECIFICATION Spec
INVARIANT StoredIsPromised
