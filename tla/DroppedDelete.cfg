SPECIFICATION Spec
CONSTANTS
  v1 = v1
  v2 = v2
  v3 = v3
  Vm = {v1, v2}
  NoVm = NoVm
  MaxSubnets = 2
  Requests <- MCFewRequests
  HostCores = 3
  HostMemory = 646
  Faults = {"cancel"}
SYMMETRY Symmetry
PROPERTIES
  DeleteReleasesEverything
