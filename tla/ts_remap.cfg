CONSTANTS
  NumAddr = 12
  PageSize = 4
  FirstPage = 4
  PagesPerByte = 2
  StoreSize = 12
  PoolSize = 17
  Instr <- MCInstr
  Decode <- MCDecode
  Program <- RemapProgram
  EntryPoint = 0
  IrqVector = 8
  AbtVector = 8
  SvcVector = 8
  UserAddr = {}
  ReturnAddrs = {}
  Stores = {}
  Remaps <- RemapSecond
  Spaces <- PhysicalSpace
  Aborts = {}
  Irqs = {}
SPECIFICATION Spec
INVARIANTS BlockFaithful RangeNeverCached HypercallCountKept
PROPERTIES ImplementsGuestMachine
