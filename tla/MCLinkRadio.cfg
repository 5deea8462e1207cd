\* One change of radio, while the supervisor is connecting.
SPECIFICATION Spec
CONSTANTS
  MaxFaults = 1
  MaxChanges = 1
INVARIANTS
  NewRadioInUse
CHECK_DEADLOCK FALSE
