\* Three faults and two changes of radio, and a shutdown anywhere.
SPECIFICATION FairSpec
CONSTANTS
  MaxFaults = 3
  MaxChanges = 2
INVARIANTS
  TypeOK
  OneSession
  StoppedClean
  ServedOnce
PROPERTIES
  LinkReturns
  SessionServed
CHECK_DEADLOCK FALSE
