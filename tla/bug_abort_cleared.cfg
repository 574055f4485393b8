CONSTANTS
  NumAddr = 9
  PageSize = 3
  FirstPage = 4
  PagesPerByte = 2
  StoreSize = 9
  PoolSize = 29
  Instr <- MCInstr
  Decode <- MCDecode
  Program <- AbortProgram
  EntryPoint = 6
  IrqVector = 6
  AbtVector = 6
  SvcVector = 6
  UserAddr = {}
  ReturnAddrs = {}
  Stores <- Word6
  Remaps = {}
  Spaces = {}
  Aborts = {"translation"}
  Irqs = {}
SPECIFICATION Spec
PROPERTIES AbortIsPrecise
CHECK_DEADLOCK FALSE
