SPECIFICATION FairSpec
CONSTANTS
  MaxStarts = 5
  Faults = {"crash", "disk"}
INVARIANTS
  TypeOK
  HostKeyStable
PROPERTIES
  StartServes
CHECK_DEADLOCK FALSE
