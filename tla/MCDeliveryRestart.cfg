\* One attempt at a message in two pieces, with a crash anywhere in it.
SPECIFICATION FairSpec
CONSTANTS
  NPieces = 2
  MaxAttempts = 1
  MaxRestarts = 1
  Faults = {"reject", "echo", "lost"}
PROPERTIES
  SenderReturns
  RowsAnswered
  HourglassAnswered
CHECK_DEADLOCK FALSE
