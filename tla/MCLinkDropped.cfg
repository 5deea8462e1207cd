SPECIFICATION LinkingSpec
CONSTANTS
  Slots = {s}
  Rooms = {}
  MaxChannels = 8
  MaxFaults = 1
  MaxDeletes = 0
  MaxCommands = 0
  MaxUpsets = 0
PROPERTIES
  LiveLinksStay
CHECK_DEADLOCK FALSE
