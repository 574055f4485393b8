CONSTANTS
  Irq = {37, 56, 74}
  FifoSize = 2
  PtrMod = 8
  Devices = {56}
  IerValues = {{}, {"RHR"}, {"RHR", "LINE_ST"}}
  FifoValues = {TRUE, FALSE}
  LoopValues = {TRUE, FALSE}
  Careful = TRUE
  MaxBytes = 3
SPECIFICATION FairSpec
INVARIANTS FifoInv OwedIsLatched ReceiveInterruptHeld
PROPERTIES ImplementsSerialChannel PendingEndsWait
CHECK_DEADLOCK FALSE
