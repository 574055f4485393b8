CONSTANTS
  NumAddr = 12
  PageSize = 3
  FirstPage = 4
  PagesPerByte = 2
  StoreSize = 5
  PoolSize = 17
  Instr <- MCInstr
  Decode <- MCDecode
  Program <- HostileProgram
  EntryPoint = 0
  IrqVector = 9
  AbtVector = 9
  SvcVector = 9
  UserAddr = {6, 7, 8}
  ReturnAddrs = {6}
  Stores <- OwnPatch
  Remaps = {}
  Spaces = {}
  Aborts = {"translation", "permission"}
  Irqs = {"GPT1"}
SPECIFICATION Spec
INVARIANTS TypeOK PoolInv BlockFaithful
CHECK_DEADLOCK FALSE
