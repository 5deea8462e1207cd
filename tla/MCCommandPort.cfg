\* One asker of two kinds of command over two channel slots, and the drain of two
\* messages; one answer late, one command lost on the way.
SPECIFICATION PortSpec
CONSTANTS
  Askers = {a}
  MaxMessages = 2
  MaxSlots = 2
  Kinds = {"channel"}
  ReplyCap = 1
  MaxLate = 1
  MaxIgnored = 1
INVARIANTS
  PortTypeOK
  SlotsTellTheTruth
  
PROPERTIES
  KeepsContract
  CallReturns
  MessagesFetched
CHECK_DEADLOCK FALSE
