\* A room that may reject the stored password while a post is held.
SPECIFICATION Spec
CONSTANTS
  NPosts = 1
  QueueMax = 1
  MaxLogins = 2
  PostLimit = 1
  MaxAir = 1
  MaxDrops = 0
  MaxPopups = 0
  Faults = {"rejected"}
INVARIANTS
  NoPostForgotten
CHECK_DEADLOCK FALSE
