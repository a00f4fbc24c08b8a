SPECIFICATION FairSpec
CONSTANTS
  v1 = v1
  v2 = v2
  v3 = v3
  Vm = {v1, v2}
  NoVm = NoVm
  MaxSubnets = 2
  Requests <- MCOneRequest
  HostCores = 3
  HostMemory = 646
  Faults = {"cmd", "ssh"}
INVARIANTS
  IInv
  SubnetExclusive
PROPERTIES
  CreateAnswered
  PlaceholderResolved
  ShutdownCompletes
  LockReleased
  RemovedProcessEnds
