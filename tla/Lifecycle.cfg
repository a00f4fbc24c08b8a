SPECIFICATION Spec
CONSTANTS
  v1 = v1
  v2 = v2
  v3 = v3
  Vm = {v1, v2, v3}
  NoVm = NoVm
  MaxSubnets = 2
  Requests <- MCRequests
  HostCores = 3
  HostMemory = 646
  Faults = {"exit"}
SYMMETRY Symmetry
INVARIANTS
  TypeOK
  CapacityNeverExceeded
  CgroupsFit
  NetworkOwned
  CleanExit
PROPERTIES
  DeleteReleasesEverything
