CONSTANTS
  PagesPerMegabyte = 2
  NumMegabytes = 3
  Bases <- SwitchBases
  Tables <- SwitchTables
  FirstEntries <- SwitchFirst
  SecondEntries <- SwitchSecond
  Domains = {0, 1}
  Dacrs <- SwitchDacrs
  DeviceMegabytes = {2}
  HypervisorMemory = {3}
  HostMegabytes = {}
  HostDomain = 15
  MaxCopies = 2
  CodeRanges <- SwitchCode
  StoreSizes = {"word"}
  Guest = {"ttbr", "actlr", "boot"}
SPECIFICATION Spec
INVARIANTS TypeOK   DevicesTrapped
 
CHECK_DEADLOCK FALSE
