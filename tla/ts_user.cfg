CONSTANTS
  NumAddr = 16
  PageSize = 4
  FirstPage = 4
  PagesPerByte = 2
  StoreSize = 16
  PoolSize = 41
  Instr <- MCInstr
  Decode <- MCDecode
  Program <- UserProgram
  EntryPoint = 0
  IrqVector = 12
  AbtVector = 8
  SvcVector = 8
  UserAddr = {4, 5, 6, 7}
  ReturnAddrs = {4}
  Stores <- DataWord
  Remaps = {}
  Spaces = {}
  Aborts = {"translation"}
  Irqs = {"UART3"}
SPECIFICATION Spec
INVARIANTS HypervisorSurvives
PROPERTIES ImplementsGuestMachine AbortIsPrecise
