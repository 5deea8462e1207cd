\* One message in one piece:  a late acknowledgement races the sweep
SPECIFICATION Spec
CONSTANTS
  NPieces = 1
  MaxAttempts = 1
  MaxRestarts = 0
  Faults = {}
PROPERTIES
  LandedStaysLanded
CHECK_DEADLOCK FALSE
