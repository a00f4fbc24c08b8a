SPECIFICATION FairSpec
CONSTANTS
  v1 = v1
  v2 = v2
  v3 = v3
  Vm = {v1, v2}
  NoVm = NoVm
  Faults = {"cancel", "net", "crash", "ssh"}
INVARIANTS
  TypeOK
  RunningListed
PROPERTIES
  SettledMachinesLeave
  DeleteAnswered
  CreateAnswered
  ShutdownCompletes
