CONSTANTS
  NCHANNELS = 2
  b1 = b1
  b2 = b2
  Dark = Dark
  Bits = {b1, b2}
  Brights = {0, 1, 3}
  MapRequests <- MCMapRequests
  DefaultMap <- MCDefaultMap
  PwmResolutions = {2}
  DefMaxPwm = 2
  PWM_PRESCALE = 9
SPECIFICATION SafetySpec
INVARIANTS TypeOK ShadowExclusive NoDanglingStep PageFits ShownExact SyncedNotSkipped
PROPERTIES WholeCycles
CHECK_DEADLOCK FALSE
