CONSTANTS
  NumAddr = 9
  PageSize = 3
  FirstPage = 4
  PagesPerByte = 2
  StoreSize = 9
  PoolSize = 13
  Instr <- MCInstr
  Decode <- MCDecode
  Program <- PatchProgram
  EntryPoint = 0
  IrqVector = 6
  AbtVector = 6
  SvcVector = 6
  UserAddr = {}
  ReturnAddrs = {}
  Stores <- Patches
  Remaps = {}
  Spaces = {}
  Aborts = {}
  Irqs = {"GPT1"}
SPECIFICATION Spec
INVARIANTS BlockFaithful CodeIsGuarded
PROPERTIES ImplementsGuestMachine
