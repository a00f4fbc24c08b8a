SPECIFICATION Spec
CONSTANTS
  i1 = i1
  i2 = i2
  m1 = m1
  m2 = m2
  NoInstance = NoInstance
  Instance = {i1}
  Machine = {m1, m2}
  Hosts <- MCHosts
  Dev = {}
  Faults = {"crash", "probe"}
INVARIANTS
  TypeOK
  NothingElseUnchecked
  ProbeSound
PROPERTIES
  CleanStart
