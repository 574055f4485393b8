CONSTANTS
  NumAddr = 8
  PageSize = 4
  FirstPage = 4
  PagesPerByte = 2
  StoreSize = 7
  PoolSize = 24
  Instr <- MCInstr
  Decode <- MCDecode
  Program <- LoopProgram
  EntryPoint = 0
  IrqVector = 6
  AbtVector = 6
  SvcVector = 6
  UserAddr = {}
  ReturnAddrs = {}
  Stores = {}
  Remaps = {}
  Spaces = {}
  Aborts = {}
  Irqs = {"GPT1"}
SPECIFICATION FairSpec
INVARIANTS HypervisorSurvives PendingComesBack LinkedIsGroup
PROPERTIES InterruptNotDeferredForever ImplementsGuestMachine
