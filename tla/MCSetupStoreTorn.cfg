CONSTANTS
  SIZE = 3
  Values = {0, 1}
  Default <- MCDefault
SPECIFICATION Spec
INVARIANT MarkMeansStored
