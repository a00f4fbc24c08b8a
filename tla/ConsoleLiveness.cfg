SPECIFICATION FairSpec
CONSTANTS
  c1 = c1
  c2 = c2
  v1 = v1
  v2 = v2
  k1 = k1
  k2 = k2
  Vm = {v1, v2}
  Conn = {c1}
  NoVm = NoVm
  Key = {k1, k2}
  SshKeys <- MCSshKeys
  MaxChannels = 1
  MaxInput = 2
  MaxOutput = 2
INVARIANTS
  ConsoleAuthorized
  OutputBeforeClose
PROPERTIES
  ConsoleOfGoneMachineEnds
  AbandonedConsoleReleased
