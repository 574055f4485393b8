-------------------------- MODULE GuestInterrupts --------------------------
(***************************************************************************)
(* How an interrupt reaches the guest: the board's timer and serial line,  *)
(* the emulated serial port and interrupt controller, the interrupt latch  *)
(* of the guest context, and the guest's CPSR.I and wait instruction       *)
(* (guestManager/guestExceptions.c, guestManager/scheduler.c,              *)
(* instructionEmu/interpreter/common.c, and irq and irqPrivileged of       *)
(* exceptions/exceptionHandlers.c).                                        *)
(*                                                                         *)
(* BlockExecution keeps of all this one bit, line, which is IsIrqPending   *)
(* here; its irqPending is latched.  The guest is a driver that does       *)
(* anything within the constants, one device access or hypercall at a time.*)
(***************************************************************************)
EXTENDS InterruptController, SerialPort

CONSTANTS
  Devices,     \* interrupts raised by the other emulated devices
  IerValues,   \* what the guest stores to IER
  FifoValues,  \* what it stores to FCR.FIFO_EN
  LoopValues,  \* what it stores to MCR.LOOPBACK_EN
  Careful,     \* the driver is careful: no byte comes while it has the FIFO
               \* off, and it uses loopback with receive interrupts off only
  MaxBytes     \* bytes sent on the line, a bound of the model

GPT1_IRQ  == 37
UART3_IRQ == 74

ASSUME DriverAssumption ==
  /\ {GPT1_IRQ, UART3_IRQ} \subseteq Irq /\ Devices \subseteq Irq
  /\ IerValues \subseteq SUBSET Enable
  /\ FifoValues \subseteq BOOLEAN /\ LoopValues \subseteq BOOLEAN
  /\ Careful \in BOOLEAN /\ MaxBytes \in Nat

VARIABLES
  intc,     \* the interrupt controller
  uart,     \* serial port 3
  latched,  \* guestIrqPending
  iBit,     \* CPSR.I
  idle,     \* in guestIdle, waiting for an interrupt
  timerOn,  \* the board's timer interrupt is unmasked
  sent,     \* bytes that came on the line
  out       \* the byte the guest last read

vars == <<intc, uart, latched, iBit, idle, timerOn, sent, out>>

-----------------------------------------------------------------------------
(* throwInterrupt raises the interrupt, and latches it unless the guest     *)
(* has interrupts off.                                                      *)
ThrowInterrupt(n) ==
  /\ intc' = SetInterrupt(intc, n)
  /\ latched' = (latched \/ (IsIrqPending(intc') /\ ~ iBit))

(* The serial port changes, and signals.                                    *)
PortStep(effect) ==
  /\ uart' = effect.port
  /\ CASE effect.signal = "raise" -> ThrowInterrupt(UART3_IRQ)
       [] effect.signal = "clear" -> /\ intc' = ClearInterrupt(intc, UART3_IRQ)
                                     /\ UNCHANGED latched
       [] effect.signal = "none"  -> UNCHANGED <<intc, latched>>

(* The end of softwareInterrupt, for a handler that leaves CPSR.I = i and   *)
(* the latch l.                                                             *)
EndHypercall(l, i) ==
  IF l /\ ~ i THEN latched' = FALSE /\ iBit' = TRUE
              ELSE latched' = l /\ iBit' = i

-----------------------------------------------------------------------------
(* The board.  Both interrupts are taken while the guest runs, and inside   *)
(* guestIdle, which enables interrupts.                                     *)
SerialIrq ==
  /\ sent < MaxBytes /\ (Careful => uart.fifoOn)
  /\ sent' = sent + 1
  /\ PortStep(UartPutRxByte(uart, sent'))
  /\ UNCHANGED <<iBit, idle, timerOn, out>>

TimerIrq ==
  /\ timerOn
  /\ ThrowInterrupt(GPT1_IRQ)
  /\ UNCHANGED <<uart, iBit, idle, timerOn, sent, out>>

-----------------------------------------------------------------------------
(* Accesses of the guest to its devices.                                    *)
Access == ~ idle /\ UNCHANGED <<iBit, idle>>

ReadRhr ==
  /\ Access /\ out' = ReadValue(uart)
  /\ PortStep(UartRxByte(uart))
  /\ UNCHANGED <<timerOn, sent>>

StoreThr ==
  /\ Access /\ uart.loopback
  /\ sent < MaxBytes /\ sent' = sent + 1
  /\ uart' = UartTxByte(uart, sent')
  /\ UNCHANGED <<intc, latched, timerOn, out>>

StoreIer ==
  /\ Access
  /\ \E flags \in IerValues :
       /\ (Careful /\ uart.loopback) => "RHR" \notin flags
       /\ PortStep(SetIrqFlags(uart, flags))
  /\ UNCHANGED <<timerOn, sent, out>>

StoreFifoControl ==
  /\ Access
  /\ \E on \in FifoValues, clear \in BOOLEAN : uart' = StoreFcr(uart, on, clear)
  /\ UNCHANGED <<intc, latched, timerOn, sent, out>>

StoreMcr ==
  /\ Access
  /\ \E b \in LoopValues :
       /\ (Careful /\ b) => "RHR" \notin uart.ier
       /\ uart' = [uart EXCEPT !.loopback = b]
  /\ UNCHANGED <<intc, latched, timerOn, sent, out>>

ResetSerial ==
  /\ Access
  /\ uart' = ResetPort
  /\ UNCHANGED <<intc, latched, timerOn, sent, out>>

(* Stores to MIR_CLEAR and MIR_SET, of any bits of a bank; those of no      *)
(* device are not in v.  The timer's mask is that of the board too.         *)
UnmaskIrq ==
  /\ Access
  /\ \E b \in Banks : \E v \in SUBSET InBank(b) :
       /\ intc' = MirClear(intc, v)
       /\ timerOn' = (timerOn \/ GPT1_IRQ \in v)
  /\ UNCHANGED <<uart, latched, sent, out>>

MaskIrq ==
  /\ Access
  /\ \E b \in Banks : \E v \in SUBSET InBank(b) :
       /\ intc' = MirSet(intc, b, v)
       /\ timerOn' = (timerOn /\ GPT1_IRQ \notin v)
  /\ UNCHANGED <<uart, latched, sent, out>>

ResetController ==
  /\ Access
  /\ intc' = IntcReset
  /\ UNCHANGED <<uart, latched, timerOn, sent, out>>

(* A store to a register of another device makes it raise its interrupt.    *)
DeviceIrq ==
  /\ Access
  /\ \E n \in Devices : ThrowInterrupt(n)
  /\ UNCHANGED <<uart, timerOn, sent, out>>

-----------------------------------------------------------------------------
(* Hypercalls.  CPSRWriteByInstr looks for an interrupt when it enables     *)
(* them; the others leave CPSR.I alone or set it.                           *)
WriteMaskForgets ==
  /\ ~ idle
  /\ \E i \in BOOLEAN : EndHypercall(latched, i)
  /\ UNCHANGED <<intc, uart, idle, timerOn, sent, out>>

WriteMask ==
  /\ ~ idle
  /\ \E i \in BOOLEAN :
       EndHypercall(latched \/ (iBit /\ ~ i /\ IsIrqPending(intc)), i)
  /\ UNCHANGED <<intc, uart, idle, timerOn, sent, out>>

(* armWfiInstruction, guestIdle *)
Wait ==
  /\ ~ idle /\ idle' = TRUE
  /\ UNCHANGED <<intc, uart, latched, iBit, timerOn, sent, out>>

WakeWhenLatched ==
  /\ idle /\ latched /\ idle' = FALSE
  /\ EndHypercall(latched, iBit)
  /\ UNCHANGED <<intc, uart, timerOn, sent, out>>

Wake ==
  /\ idle /\ IsIrqPending(intc) /\ idle' = FALSE
  /\ EndHypercall(latched, iBit)
  /\ UNCHANGED <<intc, uart, timerOn, sent, out>>

-----------------------------------------------------------------------------
Init ==
  /\ intc = IntcReset /\ uart = ResetPort
  /\ latched = FALSE /\ iBit = TRUE /\ idle = FALSE /\ timerOn = FALSE
  /\ sent = 0 /\ out = 0

Next ==
  \/ SerialIrq \/ TimerIrq
  \/ ReadRhr \/ StoreThr \/ StoreIer \/ StoreFifoControl \/ StoreMcr \/ ResetSerial
  \/ UnmaskIrq \/ MaskIrq \/ ResetController \/ DeviceIrq
  \/ WriteMask \/ Wait \/ Wake

Spec == Init /\ [][Next]_vars

(* The loop of guestIdle looks again and again.                             *)
FairSpec == Spec /\ WF_vars(Wake)

-----------------------------------------------------------------------------
(* Properties.                                                              *)

(* The registers keep the shape of their C counterparts: in particular the  *)
(* FIFO pointer is one of its word (struct Uart, struct InterruptController *)
(* and the fields of GCONTXT).                                              *)
TypeOK ==
  /\ intc \in IntcType /\ uart \in Port
  /\ latched \in BOOLEAN /\ iBit \in BOOLEAN /\ idle \in BOOLEAN
  /\ timerOn \in BOOLEAN /\ sent \in 0 .. MaxBytes /\ out \in Byte

(* An interrupt is never pending at a guest that has interrupts on without  *)
(* having been latched, whatever raised it, masked it or switched           *)
(* interrupts on: the next hypercall delivers it (throwInterrupt,           *)
(* CPSRWriteByInstr and deliverInterrupt agree).                            *)
OwedIsLatched == (IsIrqPending(intc) /\ ~ iBit) => latched

(* A byte of the line that waits to be read, with the receive interrupt     *)
(* enabled, keeps the port's interrupt raised until it is read              *)
(* (uartPutRxByte, uartRxByte and setIrqFlags agree on IIR).                *)
ReceiveInterruptHeld == (uart.data /\ "RHR" \in uart.ier) => uart.iir # "none"

(* A guest that waits for an interrupt goes on once one is pending,         *)
(* interrupts on or off (guestIdle).                                        *)
PendingEndsWait == (idle /\ IsIrqPending(intc)) ~> ~ idle

(* Masking some interrupts of a bank leaves those that are not masked       *)
(* pending (the MIR_SET stores of storeIntc after setInterrupt).            *)
MaskingKeepsOthers ==
  [][MaskIrq => intc.pending \ intc'.mir \subseteq intc'.pending]_vars

(* With the FIFO off the holding register has room for one byte: reading it *)
(* leaves nothing to read (what uartRxByte says of an empty FIFO).          *)
HoldingRegisterEmpties ==
  [][(ReadRhr /\ uart.data /\ ~ uart.fifoOn /\ uart.ptr = 0) => ~ uart'.data]_vars

(* The receive FIFO with its pointer, holding register and status bit is    *)
(* the queue of bytes the guest has still to read.                          *)
Queue == [i \in 1 .. uart.ptr |-> uart.fifo[i - 1]]

Channel == INSTANCE SerialChannel WITH queue <- Queue

ImplementsSerialChannel == Channel!Spec

(* The inductive invariant of the refinement: pointer, status bit and       *)
(* holding register tell the same of the FIFO (uartPutRxByte, uartRxByte    *)
(* and the store to FCR).                                                   *)
FifoInv ==
  /\ TypeOK
  /\ uart.ptr \in 0 .. FifoSize
  /\ uart.data <=> uart.ptr > 0
  /\ uart.rhr = IF uart.data THEN uart.fifo[0] ELSE 0
=============================================================================
