SPECIFICATION Spec
CONSTANTS
  i1 = i1
  i2 = i2
  m1 = m1
  m2 = m2
  NoInstance = NoInstance
  Instance = {i1, i2}
  Machine = {m1}
  Hosts <- MCGoodHosts
  Dev = {i2}
  Faults = {"crash", "cmd"}
PROPERTIES
  LiveMachinesSpared
