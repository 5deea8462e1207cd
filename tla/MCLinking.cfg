SPECIFICATION LinkingSpec
CONSTANTS
  Slots = {s}
  Rooms = {}
  MaxChannels = 8
  MaxFaults = 1
  MaxDeletes = 1
  MaxCommands = 1
  MaxUpsets = 0
PROPERTIES
  DeadLinkHeals
  InboxHeals
  StartupLinks
CHECK_DEADLOCK FALSE
