CONSTANTS
  NCHANNELS = 3
  b1 = b1
  Dark = Dark
  Bits = {b1}
  Brights = {0, 1, 2, 4}
  MapRequests = {}
  DefaultMap <- MCDefaultMap
  PwmResolutions = {3}
  DefMaxPwm = 3
  PWM_PRESCALE = 9
SPECIFICATION MCSpec
INVARIANT NoEntryLost
PROPERTY ListImplementsSteps
CHECK_DEADLOCK FALSE
