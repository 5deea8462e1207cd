\* One post to a room that may stay silent or drop posts, over a link that may go
\* away once.
SPECIFICATION FairSpec
CONSTANTS
  NPosts = 1
  QueueMax = 1
  MaxLogins = 2
  PostLimit = 1
  MaxAir = 1
  MaxDrops = 1
  MaxPopups = 0
  Faults = {"silent", "unacked", "stranger"}
INVARIANTS
  NoPostForgotten
PROPERTIES
  HeldAnswered
CHECK_DEADLOCK FALSE
