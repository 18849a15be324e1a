CONSTANTS
  pageSize = 2
  MaxAddr = 5
  MaxLine = 2
  Values = {v1, BLANK}
  BLANK = BLANK
  BAD = BAD
  targetInfoMustExist = TRUE
  Ctrls = {c1, c2}
  Pages = {0, 1}
  Image = {0, 1}
  TARGETS = {"DF10CH-USB", "DF10CH-PWM"}
  MaxUpdates = 2
  MaxRestarts = 2
CHECK_DEADLOCK FALSE
SPECIFICATION MCSpec
INVARIANTS MCTypeOK NeverMixed UpdateIsHonest
PROPERTY LoadsContents
