CONSTANTS
  NCHANNELS = 2
  b1 = b1
  b2 = b2
  Dark = Dark
  Bits = {b1, b2}
  Brights = {0, 2}
  MapRequests <- LiveMapRequests
  DefaultMap <- MCDefaultMap
  PwmResolutions = {3}
  DefMaxPwm = 3
  PWM_PRESCALE = 9
SPECIFICATION Spec
PROPERTIES DisplaySpec LatestShown SyncedAnswered
CHECK_DEADLOCK FALSE
