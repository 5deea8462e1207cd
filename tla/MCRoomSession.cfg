\* Two posts and a password typed into the popup, or forgotten, while a room that
\* may grant no posting is logged in to.
SPECIFICATION Spec
CONSTANTS
  NPosts = 2
  QueueMax = 1
  MaxLogins = 2
  PostLimit = 1
  MaxAir = 1
  MaxDrops = 0
  MaxPopups = 1
  Faults = {"guest", "forget"}
INVARIANTS
  TypeOK
  NoPostForgotten
  SentOnce
CHECK_DEADLOCK FALSE
