\* A message in two pieces, resent once, on one uninterrupted run.
SPECIFICATION Spec
CONSTANTS
  NPieces = 2
  MaxAttempts = 2
  MaxRestarts = 0
  Faults = {"reject", "noack"}
INVARIANTS
  TypeOK
  PiecesInOrder
  TickIsEarned
  OneOwner
  NoDoubleCount
CHECK_DEADLOCK FALSE
