SPECIFICATION RateSpec
CONSTANTS
  Slots = {1, 2}
  Floor = 1
  BadToStepDown = 2
  CleanToStepUp = 2
PROPERTY AdmitsAgain
CHECK_DEADLOCK FALSE
