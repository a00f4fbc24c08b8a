SPECIFICATION Spec
CONSTANTS
  v1 = v1
  v2 = v2
  v3 = v3
  Vm = {v1, v2}
  NoVm = NoVm
  Faults = {}
INVARIANTS
  DeletedNotListed
