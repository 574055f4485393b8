CONSTANTS
  Irq = {37, 72, 74}
  FifoSize = 2
  PtrMod = 8
  Devices = {72}
  IerValues = {{}, {"RHR"}}
  FifoValues = {TRUE}
  LoopValues = {FALSE}
  Careful = TRUE
  MaxBytes = 2
SPECIFICATION Spec
PROPERTIES MaskingKeepsOthers
CHECK_DEADLOCK FALSE
