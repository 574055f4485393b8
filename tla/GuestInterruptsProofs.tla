----------------------- MODULE GuestInterruptsProofs -----------------------
(***************************************************************************)
(* Proofs about GuestInterrupts, for every size of the FIFO, set of        *)
(* interrupts and devices, and number of bytes.                            *)
(***************************************************************************)
EXTENDS GuestInterrupts, SequenceTheorems, TLAPS

-----------------------------------------------------------------------------
(* The interrupt controller keeps its type, and only throwInterrupt makes   *)
(* an interrupt pending as long as no raw signal is set.                    *)

LEMMA ControllerTyped ==
  ASSUME NEW ic \in IntcType, NEW n \in Irq, NEW b, NEW v \in SUBSET Irq
  PROVE  /\ SetInterrupt(ic, n) \in IntcType
         /\ ClearInterrupt(ic, n) \in IntcType
         /\ MirClear(ic, v) \in IntcType
         /\ MirSet(ic, b, v) \in IntcType
BY DEF IntcType, SetInterrupt, ClearInterrupt, MirClear, MirSet, InBank

LEMMA SignalsKnown ==
  UART3_IRQ \in Irq /\ GPT1_IRQ \in Irq /\ Devices \subseteq Irq
BY DriverAssumption

LEMMA ThrowTyped ==
  ASSUME intc \in IntcType, latched \in BOOLEAN, NEW n \in Irq, ThrowInterrupt(n)
  PROVE  intc' \in IntcType /\ latched' \in BOOLEAN
BY ControllerTyped DEF ThrowInterrupt

-----------------------------------------------------------------------------
(* The pointer of the FIFO counts its bytes.                                *)

LEMMA PointerWraps ==
  ASSUME NEW p \in 0 .. PtrMod - 1
  PROVE  /\ (p - 1) % PtrMod \in 0 .. PtrMod - 1
         /\ p > 0 => (p - 1) % PtrMod = p - 1
BY FifoAssumption

LEMMA PortTyped ==
  ASSUME NEW p \in Port, NEW b \in Byte
  PROVE  /\ p.ptr < FifoSize => PutByte(p, b) \in Port
         /\ Shifted(p) \in Port
         /\ Emptied(p) \in Port
<1>1. ASSUME p.ptr < FifoSize PROVE PutByte(p, b) \in Port
  <2>1. [p.fifo EXCEPT ![p.ptr] = b] \in [Place -> Byte]
    BY DEF Port
  <2>2. p.ptr + 1 \in 0 .. PtrMod - 1
    BY <1>1, FifoAssumption DEF Port
  <2>3. (IF p.ptr = 0 THEN b ELSE p.rhr) \in Byte
    BY DEF Port
  <2> QED BY <2>1, <2>2, <2>3 DEF Port, PutByte
<1>2. Shifted(p) \in Port
  <2>1. \A i \in Place : (IF i < FifoSize - 1 THEN i + 1 ELSE i) \in Place
    BY FifoAssumption DEF Place
  <2>2. [i \in Place |-> p.fifo[IF i < FifoSize - 1 THEN i + 1 ELSE i]]
          \in [Place -> Byte]
    BY <2>1 DEF Port
  <2>3. (p.ptr - 1) % PtrMod \in 0 .. PtrMod - 1
    BY PointerWraps DEF Port
  <2> QED BY <2>2, <2>3 DEF Port, Shifted
<1>3. Emptied(p) \in Port
  BY DEF Port, Emptied, Byte
<1> QED BY <1>1, <1>2, <1>3
(* What the port does to its own state keeps its type.                      *)
LEMMA EffectsTyped ==
  ASSUME NEW p \in Port, NEW b \in Byte, NEW cause \in Cause
  PROVE  /\ Raise(p, cause).port \in Port
         /\ RaiseIf(p, cause).port \in Port
BY DEF Port, Raise, RaiseIf, Effect

LEMMA ReceiveTyped ==
  ASSUME NEW p \in Port, NEW b \in Byte
  PROVE  UartPutRxByte(p, b).port \in Port
<1>1. [p EXCEPT !.rhr = b, !.data = TRUE] \in Port
  BY DEF Port
<1>2. [p EXCEPT !.overrun = TRUE] \in Port
  BY DEF Port
<1>3. p.ptr \in Nat
  BY FifoAssumption DEF Port
<1>4. "RHR" \in Cause /\ "LINE_ST" \in Cause
  BY DEF Cause, Enable
<1> QED BY <1>1, <1>2, <1>3, <1>4, PortTyped, EffectsTyped, FifoAssumption
        DEF UartPutRxByte

LEMMA TransmitTyped ==
  ASSUME NEW p \in Port, NEW b \in Byte
  PROVE  UartTxByte(p, b) \in Port
<1>1. [p EXCEPT !.overrun = TRUE] \in Port
  BY DEF Port
<1>2. p.ptr \in Nat
  BY FifoAssumption DEF Port
<1> QED BY <1>1, <1>2, PortTyped, FifoAssumption DEF UartTxByte

LEMMA ReadTyped ==
  ASSUME NEW p \in Port
  PROVE  UartRxByte(p).port \in Port /\ ReadValue(p) \in Byte
<1> DEFINE q == Shifted(p)
<1>1. q \in Port /\ Emptied(q) \in Port
  BY PortTyped DEF Port
<1>2. [q EXCEPT !.rhr = q.fifo[0]] \in Port
  <2>1. q.fifo[0] \in Byte
    BY <1>1, FifoAssumption DEF Port, Place
  <2> HIDE DEF q
  <2> QED BY <1>1, <2>1 DEF Port
<1>3. [Emptied(q) EXCEPT !.iir = "none"] \in Port
  BY <1>1 DEF Port, Cause
<1>4. Raise(Emptied(q), "THR").port \in Port
  BY <1>1, EffectsTyped DEF Cause, Enable, Byte
<1>5. ReadValue(p) \in Byte
  BY DEF ReadValue, Port, Byte
<1> HIDE DEF q
<1>6. UartRxByte(p).port \in {p, [q EXCEPT !.rhr = q.fifo[0]], Emptied(q),
         Raise(Emptied(q), "THR").port, [Emptied(q) EXCEPT !.iir = "none"]}
  BY DEF UartRxByte, Effect, q
<1> QED BY <1>1, <1>2, <1>3, <1>4, <1>5, <1>6 DEF UartRxByte, Effect, q

LEMMA FlagsTyped ==
  ASSUME NEW p \in Port, NEW flags \in SUBSET Enable
  PROVE  SetIrqFlags(p, flags).port \in Port
<1>1. CauseAfter(p, flags) \in Cause
  BY DEF CauseAfter, Cause, Enable, Port
<1> QED BY <1>1 DEF SetIrqFlags, Effect, Port

LEMMA ResetTyped == ResetPort \in Port
<1>1. [i \in Place |-> 0] \in [Place -> Byte] /\ 0 \in Byte
  BY DEF Byte
<1>2. 0 \in 0 .. PtrMod - 1
  BY FifoAssumption
<1> QED BY <1>1, <1>2 DEF ResetPort, Port, Cause

LEMMA ControlTyped ==
  ASSUME NEW p \in Port, NEW on \in BOOLEAN, NEW clear \in BOOLEAN
  PROVE  StoreFcr(p, on, clear) \in Port
<1>1. 0 \in 0 .. PtrMod - 1 /\ 0 \in Byte
  BY FifoAssumption DEF Byte
<1>2. ResetPort.fifo \in [Place -> Byte]
  BY ResetTyped DEF Port
<1> QED BY <1>1, <1>2 DEF StoreFcr, Port

(* An effect sends one of three signals.                                    *)
LEMMA SignalsTyped ==
  ASSUME NEW p, NEW b, NEW flags
  PROVE  /\ UartPutRxByte(p, b).signal \in {"raise", "clear", "none"}
         /\ UartRxByte(p).signal \in {"raise", "clear", "none"}
         /\ SetIrqFlags(p, flags).signal \in {"raise", "clear", "none"}
<1>1. UartPutRxByte(p, b).signal \in {"raise", "clear", "none"}
  BY DEF UartPutRxByte, RaiseIf, Raise, Effect
<1>2. UartRxByte(p).signal \in {"raise", "clear", "none"}
  BY DEF UartRxByte, Raise, Effect
<1>3. SetIrqFlags(p, flags).signal \in {"raise", "clear", "none"}
  BY DEF SetIrqFlags, Effect
<1> QED BY <1>1, <1>2, <1>3

LEMMA PortStepTyped ==
  ASSUME intc \in IntcType, latched \in BOOLEAN, NEW e,
         e.port \in Port, e.signal \in {"raise", "clear", "none"}, PortStep(e)
  PROVE  uart' \in Port /\ intc' \in IntcType /\ latched' \in BOOLEAN
<1>1. CASE e.signal = "raise"
  BY <1>1, ThrowTyped, SignalsKnown DEF PortStep
<1>2. CASE e.signal = "clear"
  BY <1>2, ControllerTyped, SignalsKnown DEF PortStep
<1>3. CASE e.signal = "none"
  BY <1>3 DEF PortStep
<1> QED BY <1>1, <1>2, <1>3

-----------------------------------------------------------------------------
(* The registers keep their types: FIFO pointer, masks and latch stay what  *)
(* their C words can hold, whatever comes from the line and the guest.      *)
LEMMA TypeInit == Init => TypeOK
<1> SUFFICES ASSUME Init PROVE TypeOK
  OBVIOUS
<1>1. uart \in Port
  BY ResetTyped DEF Init
<1>2. intc \in IntcType
  BY DEF Init, IntcReset, IntcType
<1>3. 0 \in 0 .. MaxBytes /\ 0 \in Byte
  BY DriverAssumption DEF Byte
<1> QED BY <1>1, <1>2, <1>3, Zenon DEF Init, TypeOK

LEMMA TypeStep == TypeOK /\ [Next]_vars => TypeOK'
<1> SUFFICES ASSUME TypeOK, [Next]_vars PROVE TypeOK'
  OBVIOUS
<1> USE DEF TypeOK
<1>0. 0 \in Byte /\ \A n \in 0 .. MaxBytes : n \in Byte
  BY DEF Byte
<1>1. CASE SerialIrq
  <2>1. sent' \in 0 .. MaxBytes
    BY <1>1, DriverAssumption DEF SerialIrq
  <2>2. UartPutRxByte(uart, sent').port \in Port
    BY <2>1, <1>0, ReceiveTyped
  <2> QED BY <1>1, <2>1, <2>2, SignalsTyped, PortStepTyped DEF SerialIrq
<1>2. CASE TimerIrq
  BY <1>2, ThrowTyped, SignalsKnown DEF TimerIrq
<1>3. CASE ReadRhr
  BY <1>3, ReadTyped, SignalsTyped, PortStepTyped DEF ReadRhr, Access
<1>4. CASE StoreThr
  <2>1. sent' \in 0 .. MaxBytes
    BY <1>4, DriverAssumption DEF StoreThr
  <2> QED BY <1>4, <2>1, <1>0, TransmitTyped DEF StoreThr, Access
<1>5. CASE StoreIer
  <2>1. PICK flags \in IerValues : PortStep(SetIrqFlags(uart, flags))
    BY <1>5 DEF StoreIer
  <2>2. SetIrqFlags(uart, flags).port \in Port
    BY FlagsTyped, DriverAssumption
  <2> QED BY <1>5, <2>1, <2>2, SignalsTyped, PortStepTyped DEF StoreIer, Access
<1>6. CASE StoreFifoControl
  <2>1. PICK on \in FifoValues, clear \in BOOLEAN :
          uart' = StoreFcr(uart, on, clear)
    BY <1>6 DEF StoreFifoControl
  <2> QED BY <1>6, <2>1, ControlTyped, DriverAssumption DEF StoreFifoControl, Access
<1>7. CASE StoreMcr
  <2>1. PICK b \in LoopValues : uart' = [uart EXCEPT !.loopback = b]
    BY <1>7 DEF StoreMcr
  <2> QED BY <1>7, <2>1, DriverAssumption DEF StoreMcr, Access, Port
<1>8. CASE ResetSerial
  BY <1>8, ResetTyped DEF ResetSerial, Access
<1>9. CASE UnmaskIrq
  <2>1. PICK b \in Banks : \E v \in SUBSET InBank(b) :
          intc' = MirClear(intc, v) /\ timerOn' = (timerOn \/ GPT1_IRQ \in v)
    BY <1>9 DEF UnmaskIrq
  <2>2. PICK v \in SUBSET InBank(b) :
          intc' = MirClear(intc, v) /\ timerOn' = (timerOn \/ GPT1_IRQ \in v)
    BY <2>1
  <2>3. v \in SUBSET Irq
    BY DEF InBank
  <2> QED BY <1>9, <2>2, <2>3, ControllerTyped, SignalsKnown DEF UnmaskIrq, Access
<1>10. CASE MaskIrq
  <2>1. PICK b \in Banks : \E v \in SUBSET InBank(b) :
          intc' = MirSet(intc, b, v) /\ timerOn' = (timerOn /\ GPT1_IRQ \notin v)
    BY <1>10 DEF MaskIrq
  <2>2. PICK v \in SUBSET InBank(b) :
          intc' = MirSet(intc, b, v) /\ timerOn' = (timerOn /\ GPT1_IRQ \notin v)
    BY <2>1
  <2>3. v \in SUBSET Irq
    BY DEF InBank
  <2> QED BY <1>10, <2>2, <2>3, ControllerTyped, SignalsKnown DEF MaskIrq, Access
<1>11. CASE ResetController
  BY <1>11 DEF ResetController, Access, IntcReset, IntcType
<1>12. CASE DeviceIrq
  BY <1>12, ThrowTyped, SignalsKnown DEF DeviceIrq, Access
<1>13. CASE WriteMask
  BY <1>13 DEF WriteMask, EndHypercall
<1>14. CASE Wait
  BY <1>14 DEF Wait
<1>15. CASE Wake
  BY <1>15 DEF Wake, EndHypercall
<1>16. CASE UNCHANGED vars
  BY <1>16 DEF vars
<1> QED BY <1>1, <1>2, <1>3, <1>4, <1>5, <1>6, <1>7, <1>8, <1>9, <1>10, <1>11,
           <1>12, <1>13, <1>14, <1>15, <1>16 DEF Next

(* The registers of the emulated devices and of the guest context keep the  *)
(* ranges of their C types in every behaviour.                              *)
THEOREM TypeCorrect == Spec => []TypeOK
BY TypeInit, TypeStep, PTL DEF Spec

-----------------------------------------------------------------------------
(* Without devices on the first bank no raw signal is ever set, and then    *)
(* only throwInterrupt makes an interrupt pending: a mask cannot bring one  *)
(* back behind the latch.                                                   *)
Latching == intc.itr = {} /\ OwedIsLatched

LEMMA NothingRaw ==
  ASSUME InBank(0) = {}, NEW ic \in IntcType, ic.itr = {}, NEW n \in Irq,
         NEW b, NEW v
  PROVE  /\ SetInterrupt(ic, n).itr = {}
         /\ ClearInterrupt(ic, n).itr = {}
         /\ MirClear(ic, v).itr = {}
         /\ MirSet(ic, b, v).itr = {}
         /\ ClearInterrupt(ic, n).pending \subseteq ic.pending
         /\ MirClear(ic, v).pending \subseteq ic.pending
         /\ MirSet(ic, b, v).pending \subseteq ic.pending
<1>1. Bank(n) # 0
  BY DEF InBank
<1> QED BY <1>1 DEF IntcType, SetInterrupt, ClearInterrupt, MirClear, MirSet

LEMMA ThrowLatches ==
  ASSUME InBank(0) = {}, intc \in IntcType, intc.itr = {}, NEW n \in Irq,
         ThrowInterrupt(n), iBit' = iBit
  PROVE  Latching'
BY NothingRaw DEF ThrowInterrupt, Latching, OwedIsLatched

LEMMA PortStepLatches ==
  ASSUME InBank(0) = {}, intc \in IntcType, Latching, iBit' = iBit, NEW e,
         e.signal \in {"raise", "clear", "none"}, PortStep(e)
  PROVE  Latching'
<1>1. CASE e.signal = "raise"
  BY <1>1, ThrowLatches, SignalsKnown DEF PortStep, Latching
<1>2. CASE e.signal = "clear"
  BY <1>2, NothingRaw, SignalsKnown
     DEF PortStep, Latching, OwedIsLatched, IsIrqPending
<1>3. CASE e.signal = "none"
  BY <1>3 DEF PortStep, Latching, OwedIsLatched
<1> QED BY <1>1, <1>2, <1>3

LEMMA LatchingStep ==
  ASSUME InBank(0) = {}, TypeOK, Latching, [Next]_vars
  PROVE  Latching'
<1> USE DEF TypeOK
<1>1. CASE SerialIrq
  BY <1>1, SignalsTyped, PortStepLatches DEF SerialIrq
<1>2. CASE TimerIrq
  BY <1>2, ThrowLatches, SignalsKnown DEF TimerIrq, Latching
<1>3. CASE ReadRhr
  BY <1>3, SignalsTyped, PortStepLatches DEF ReadRhr, Access
<1>4. CASE StoreIer
  BY <1>4, SignalsTyped, PortStepLatches DEF StoreIer, Access
<1>5. CASE StoreThr \/ StoreFifoControl \/ StoreMcr \/ ResetSerial
  BY <1>5 DEF StoreThr, StoreFifoControl, StoreMcr, ResetSerial, Access,
              Latching, OwedIsLatched
<1>6. CASE UnmaskIrq
  BY <1>6, NothingRaw, SignalsKnown
     DEF UnmaskIrq, Access, Latching, OwedIsLatched, IsIrqPending
<1>7. CASE MaskIrq
  BY <1>7, NothingRaw, SignalsKnown
     DEF MaskIrq, Access, Latching, OwedIsLatched, IsIrqPending
<1>8. CASE ResetController
  BY <1>8 DEF ResetController, IntcReset, Latching, OwedIsLatched, IsIrqPending
<1>9. CASE DeviceIrq
  BY <1>9, ThrowLatches, SignalsKnown DEF DeviceIrq, Access, Latching
<1>10. CASE WriteMask
  BY <1>10 DEF WriteMask, EndHypercall, Latching, OwedIsLatched
<1>11. CASE Wait
  BY <1>11 DEF Wait, Latching, OwedIsLatched
<1>12. CASE Wake
  BY <1>12 DEF Wake, EndHypercall, Latching, OwedIsLatched
<1>13. CASE UNCHANGED vars
  BY <1>13 DEF vars, Latching, OwedIsLatched
<1> QED BY <1>1, <1>2, <1>3, <1>4, <1>5, <1>6, <1>7, <1>8, <1>9, <1>10, <1>11,
           <1>12, <1>13 DEF Next

(* If no device raises an interrupt of the first bank, a pending interrupt  *)
(* is never left without its latch while the guest has interrupts on:       *)
(* throwInterrupt and CPSRWriteByInstr between them leave no gap.           *)
THEOREM OwedInterruptsLatched ==
  ASSUME InBank(0) = {}
  PROVE  Spec => []OwedIsLatched
<1>1. Init => TypeOK /\ Latching
  BY TypeInit DEF Init, IntcReset, Latching, OwedIsLatched
<1>2. TypeOK /\ Latching /\ [Next]_vars => TypeOK' /\ Latching'
  BY TypeStep, LatchingStep
<1>3. Latching => OwedIsLatched
  BY DEF Latching
<1> QED BY <1>1, <1>2, <1>3, PTL DEF Spec

-----------------------------------------------------------------------------
(* A driver that never enables the transmit interrupt and has the receive   *)
(* interrupt off in loopback mode keeps its receive interrupt: only those   *)
(* two things let a byte come, or the cause go, unnoticed.                  *)
Held(p) == /\ "THR" \notin p.ier
           /\ p.loopback => "RHR" \notin p.ier
           /\ (p.data /\ "RHR" \in p.ier) => p.iir # "none"

LEMMA PortHolds ==
  ASSUME NEW p \in Port, Held(p)
  PROVE  /\ \A b : Held(UartPutRxByte(p, b).port)
         /\ \A b : p.loopback => Held(UartTxByte(p, b))
         /\ Held(UartRxByte(p).port)
         /\ \A on, clear \in BOOLEAN : Held(StoreFcr(p, on, clear))
<1>1. \A b : Held(UartPutRxByte(p, b).port)
  BY DEF Held, UartPutRxByte, RaiseIf, Raise, Effect, PutByte, Port
<1>2. \A b : p.loopback => Held(UartTxByte(p, b))
  BY DEF Held, UartTxByte, PutByte, Port
<1>3. Held(UartRxByte(p).port)
  BY DEF Held, UartRxByte, Shifted, Emptied, Raise, Effect, Port
<1>4. \A on, clear \in BOOLEAN : Held(StoreFcr(p, on, clear))
  BY DEF Held, StoreFcr, Port
<1> QED BY <1>1, <1>2, <1>3, <1>4

LEMMA FlagsHold ==
  ASSUME NEW p \in Port, Held(p), NEW flags \in SUBSET Enable,
         "THR" \notin flags, p.loopback => "RHR" \notin flags
  PROVE  Held(SetIrqFlags(p, flags).port)
BY DEF Held, SetIrqFlags, CauseAfter, Effect, Port

LEMMA HeldStep ==
  ASSUME Careful, \A flags \in IerValues : "THR" \notin flags,
         TypeOK, Held(uart), [Next]_vars
  PROVE  Held(uart')
<1> uart \in Port
  BY DEF TypeOK
<1>1. CASE SerialIrq
  BY <1>1, PortHolds DEF SerialIrq, PortStep
<1>2. CASE ReadRhr
  BY <1>2, PortHolds DEF ReadRhr, PortStep
<1>3. CASE StoreThr
  BY <1>3, PortHolds DEF StoreThr
<1>4. CASE StoreIer
  BY <1>4, FlagsHold, DriverAssumption DEF StoreIer, PortStep
<1>5. CASE StoreFifoControl
  BY <1>5, PortHolds, DriverAssumption DEF StoreFifoControl
<1>6. CASE StoreMcr
  BY <1>6 DEF StoreMcr, Held, Port
<1>7. CASE ResetSerial
  BY <1>7 DEF ResetSerial, ResetPort, Held
<1>8. CASE TimerIrq \/ UnmaskIrq \/ MaskIrq \/ ResetController \/ DeviceIrq
           \/ WriteMask \/ Wait \/ Wake \/ UNCHANGED vars
  BY <1>8 DEF TimerIrq, UnmaskIrq, MaskIrq, ResetController, DeviceIrq,
              WriteMask, Wait, Wake, vars
<1> QED BY <1>1, <1>2, <1>3, <1>4, <1>5, <1>6, <1>7, <1>8 DEF Next

(* A waiting byte keeps the port's interrupt raised for such a driver,      *)
(* whatever it does to the FIFO, the enables and the mode in between        *)
(* (uartPutRxByte, uartRxByte, setIrqFlags).                                *)
THEOREM ReceiveInterruptsHeld ==
  ASSUME Careful, \A flags \in IerValues : "THR" \notin flags
  PROVE  Spec => []ReceiveInterruptHeld
<1>1. Init => TypeOK /\ Held(uart)
  BY TypeInit DEF Init, ResetPort, Held
<1>2. TypeOK /\ Held(uart) /\ [Next]_vars => TypeOK' /\ Held(uart')
  BY TypeStep, HeldStep
<1>3. Held(uart) => ReceiveInterruptHeld
  BY DEF Held, ReceiveInterruptHeld
<1>4. Held(uart)' <=> Held(uart')
  BY DEF Held
<1> QED BY <1>1, <1>2, <1>3, <1>4, PTL DEF Spec

-----------------------------------------------------------------------------
(* The FIFO is a queue.                                                     *)
Whole(p) == /\ p.ptr \in 0 .. FifoSize
            /\ p.data <=> p.ptr > 0
            /\ p.rhr = IF p.data THEN p.fifo[0] ELSE 0

QueueOf(p) == [i \in 1 .. p.ptr |-> p.fifo[i - 1]]

LEMMA QueueTyped ==
  ASSUME NEW p \in Port, Whole(p)
  PROVE  /\ QueueOf(p) \in Seq(Byte)
         /\ Len(QueueOf(p)) = p.ptr
         /\ QueueOf(p) = <<>> <=> p.ptr = 0
         /\ DOMAIN QueueOf(p) = 1 .. p.ptr
<1>1. \A i \in 1 .. p.ptr : p.fifo[i - 1] \in Byte
  BY FifoAssumption DEF Whole, Port, Place
<1>2. p.ptr \in Nat
  BY FifoAssumption DEF Whole
<1>3. QueueOf(p) \in Seq(Byte) /\ Len(QueueOf(p)) = p.ptr
  BY <1>1, <1>2 DEF QueueOf
<1>4. DOMAIN QueueOf(p) = 1 .. p.ptr
  BY DEF QueueOf
<1> QED BY <1>2, <1>3, <1>4

(* A byte that finds room goes to the end of the queue.                     *)
LEMMA PutAppends ==
  ASSUME NEW p \in Port, Whole(p), NEW b \in Byte, p.ptr < FifoSize
  PROVE  Whole(PutByte(p, b)) /\ QueueOf(PutByte(p, b)) = Append(QueueOf(p), b)
<1> DEFINE q == PutByte(p, b)
<1>1. p.ptr \in Place /\ p.ptr \in Nat /\ 0 \in Place
  BY FifoAssumption DEF Whole, Place
<1>2. /\ q.ptr = p.ptr + 1 /\ q.data = TRUE
      /\ q.fifo = [p.fifo EXCEPT ![p.ptr] = b]
      /\ q.rhr = IF p.ptr = 0 THEN b ELSE p.rhr
  BY DEF PutByte, Port
<1>3. /\ q.fifo[p.ptr] = b
      /\ \A i \in Place : i # p.ptr => q.fifo[i] = p.fifo[i]
  BY <1>1, <1>2 DEF Port
<1> HIDE DEF q
<1>4. Whole(q)
  BY <1>1, <1>2, <1>3, FifoAssumption DEF Whole
<1>5. \A i \in 1 .. p.ptr : q.fifo[i - 1] = p.fifo[i - 1]
  BY <1>1, <1>3, FifoAssumption DEF Whole, Place
<1>6. QueueOf(q) = Append(QueueOf(p), b)
  BY <1>1, <1>2, <1>3, <1>5, QueueTyped DEF QueueOf
<1> QED BY <1>4, <1>6 DEF q

(* The guest reads the head of the queue, and takes it away.                *)
LEMMA ReadTakes ==
  ASSUME NEW p \in Port, Whole(p)
  PROVE  LET r == UartRxByte(p).port
         IN  /\ Whole(r)
             /\ p.ptr = 0 => r = p /\ ReadValue(p) = 0
             /\ p.ptr > 0 => /\ ReadValue(p) = Head(QueueOf(p))
                             /\ QueueOf(r) = Tail(QueueOf(p))
<1> DEFINE q == Shifted(p)
           r == UartRxByte(p).port
<1>1. CASE p.ptr = 0
  BY <1>1 DEF Whole, UartRxByte, Effect, ReadValue
<1>2. CASE p.ptr > 0
  <2>1. p.ptr \in 1 .. FifoSize /\ p.data
    BY <1>2, FifoAssumption DEF Whole
  <2>2. q.ptr = p.ptr - 1 /\ q.data = p.data
    <3>1. q.ptr = (p.ptr - 1) % PtrMod /\ q.data = p.data
      BY DEF Port, Shifted
    <3>2. p.ptr \in 0 .. PtrMod - 1
      BY DEF Port
    <3> QED BY <1>2, <3>1, <3>2, PointerWraps
  <2>3. \A i \in 0 .. p.ptr - 2 : q.fifo[i] = p.fifo[i + 1]
    BY <2>1, FifoAssumption DEF Port, Shifted, Place
  <2>4. q \in Port
    BY PortTyped DEF Byte
  <2> HIDE DEF q
  <2>5. /\ r.ptr = q.ptr /\ r.fifo = q.fifo
        /\ r.data <=> q.ptr # 0
        /\ r.rhr = IF q.ptr = 0 THEN 0 ELSE q.fifo[0]
    <3>1. CASE q.ptr # 0
      BY <2>1, <2>2, <2>4, <3>1 DEF UartRxByte, Effect, q, Port
    <3>2. CASE q.ptr = 0
      BY <2>1, <2>2, <2>4, <3>2 DEF UartRxByte, Effect, Emptied, Raise, q, Port
    <3> QED BY <3>1, <3>2
  <2>6. Whole(r)
    <3>1. r.ptr \in 0 .. FifoSize /\ r.ptr \in Nat
      BY <2>1, <2>2, <2>5, FifoAssumption
    <3>2. r.data <=> r.ptr > 0
      BY <2>5, <3>1
    <3>3. r.rhr = IF r.data THEN r.fifo[0] ELSE 0
      BY <2>5
    <3> QED BY <3>1, <3>2, <3>3 DEF Whole
  <2>7. ReadValue(p) = Head(QueueOf(p))
    <3>1. QueueOf(p)[1] = p.fifo[0]
      BY <2>1, FifoAssumption DEF QueueOf
    <3> QED BY <3>1, <2>1, QueueTyped DEF ReadValue, Whole
  <2>8. r \in Port
    BY ReadTyped
  <2> HIDE DEF r
  <2>9. /\ QueueOf(p) # <<>> /\ QueueOf(p) \in Seq(Byte)
        /\ QueueOf(r) \in Seq(Byte) /\ Len(QueueOf(r)) = p.ptr - 1
    BY <2>1, <2>2, <2>5, <2>6, <2>8, QueueTyped, FifoAssumption
  <2>10. \A i \in 1 .. p.ptr - 1 : QueueOf(r)[i] = QueueOf(p)[i + 1]
    BY <2>1, <2>2, <2>3, <2>5, FifoAssumption DEF QueueOf
  <2>11. /\ Tail(QueueOf(p)) \in Seq(Byte) /\ Len(Tail(QueueOf(p))) = p.ptr - 1
         /\ \A i \in 1 .. p.ptr - 1 : Tail(QueueOf(p))[i] = QueueOf(p)[i + 1]
    BY <2>1, <2>9, QueueTyped, HeadTailProperties
  <2>12. QueueOf(r) = Tail(QueueOf(p))
    BY <2>9, <2>10, <2>11, SeqEqual
  <2> QED BY <1>2, <2>6, <2>7, <2>12 DEF r
<1> QED BY <1>1, <1>2, FifoAssumption DEF Whole

(* What leaves pointer, contents, status and holding register alone leaves  *)
(* the queue alone.                                                         *)
SameFifo(p, q) == /\ p.ptr = q.ptr /\ p.fifo = q.fifo
                  /\ p.data = q.data /\ p.rhr = q.rhr

LEMMA SameQueue ==
  ASSUME NEW p, NEW q, SameFifo(p, q), Whole(p)
  PROVE  Whole(q) /\ QueueOf(q) = QueueOf(p)
BY DEF SameFifo, Whole, QueueOf

LEMMA ReceiveAppends ==
  ASSUME NEW p \in Port, Whole(p), NEW b \in Byte, p.fifoOn
  PROVE  LET r == UartPutRxByte(p, b).port
         IN  /\ Whole(r)
             /\ QueueOf(r) = IF p.ptr < FifoSize THEN Append(QueueOf(p), b)
                                                 ELSE QueueOf(p)
<1> DEFINE r == UartPutRxByte(p, b).port
<1>1. CASE p.ptr < FifoSize
  <2> DEFINE q == PutByte(p, b)
  <2>1. q \in Port /\ Whole(q) /\ QueueOf(q) = Append(QueueOf(p), b)
    BY <1>1, PortTyped, PutAppends
  <2> HIDE DEF q
  <2>2. r \in {q, [q EXCEPT !.iir = "RHR"]}
    BY <1>1, FifoAssumption DEF UartPutRxByte, RaiseIf, Raise, Effect, q, Whole
  <2>3. SameFifo(q, r)
    BY <2>1, <2>2 DEF SameFifo, Port
  <2> QED BY <1>1, <2>1, <2>3, SameQueue
<1>2. CASE ~ (p.ptr < FifoSize)
  <2>1. SameFifo(p, r)
    BY <1>2, FifoAssumption
       DEF UartPutRxByte, RaiseIf, Raise, Effect, SameFifo, Port, Whole
  <2> QED BY <1>2, <2>1, SameQueue
<1> QED BY <1>1, <1>2

LEMMA TransmitAppends ==
  ASSUME NEW p \in Port, Whole(p), NEW b \in Byte
  PROVE  LET r == UartTxByte(p, b)
         IN  /\ Whole(r)
             /\ QueueOf(r) = IF p.ptr < FifoSize THEN Append(QueueOf(p), b)
                                                 ELSE QueueOf(p)
<1>1. CASE p.ptr < FifoSize
  BY <1>1, PutAppends, FifoAssumption DEF UartTxByte, Whole
<1>2. CASE ~ (p.ptr < FifoSize)
  <2>1. SameFifo(p, UartTxByte(p, b))
    BY <1>2, FifoAssumption DEF UartTxByte, SameFifo, Port, Whole
  <2> QED BY <1>2, <2>1, SameQueue
<1> QED BY <1>1, <1>2

LEMMA ControlKeepsOrClears ==
  ASSUME NEW p \in Port, Whole(p), NEW on \in BOOLEAN, NEW clear \in BOOLEAN
  PROVE  LET r == StoreFcr(p, on, clear)
         IN  Whole(r) /\ QueueOf(r) = IF clear THEN <<>> ELSE QueueOf(p)
<1> DEFINE r == StoreFcr(p, on, clear)
<1>1. CASE clear
  <2>1. r.ptr = 0 /\ r.data = FALSE /\ r.rhr = 0
    BY <1>1 DEF StoreFcr, Port
  <2>2. r \in Port
    BY ControlTyped
  <2> HIDE DEF r
  <2>3. Whole(r)
    BY <2>1, FifoAssumption DEF Whole
  <2> QED BY <1>1, <2>1, <2>2, <2>3, QueueTyped DEF r
<1>2. CASE ~ clear
  <2>1. SameFifo(p, r)
    BY <1>2 DEF StoreFcr, SameFifo, Port
  <2> QED BY <1>2, <2>1, SameQueue
<1> QED BY <1>1, <1>2

LEMMA ResetEmpty == Whole(ResetPort) /\ QueueOf(ResetPort) = <<>>
<1>1. Whole(ResetPort)
  BY FifoAssumption DEF Whole, ResetPort
<1> QED BY <1>1, ResetTyped, QueueTyped DEF ResetPort

-----------------------------------------------------------------------------
(* Every step keeps the FIFO whole and is a step of the channel, or leaves  *)
(* the channel alone.                                                       *)
ChannelVars == <<Queue, sent, out>>

LEMMA FifoIsWhole == /\ FifoInv <=> TypeOK /\ Whole(uart)
                     /\ FifoInv' <=> TypeOK' /\ Whole(uart')
                     /\ Queue = QueueOf(uart) /\ Queue' = QueueOf(uart')
BY DEF FifoInv, Whole, Queue, QueueOf

LEMMA ChannelStep ==
  ASSUME Careful, TypeOK, Whole(uart), [Next]_vars
  PROVE  Whole(uart') /\ [Channel!Next]_ChannelVars
<1> uart \in Port /\ sent \in Nat
  BY DriverAssumption DEF TypeOK
<1> USE FifoIsWhole
<1>r. Len(Queue) = uart.ptr /\ (Queue = <<>> <=> uart.ptr = 0)
  BY QueueTyped
<1>n. uart.ptr \in Nat
  BY FifoAssumption DEF Whole
<1>1. CASE SerialIrq
  <2>1. sent' \in Byte /\ uart.fifoOn /\ uart' = UartPutRxByte(uart, sent').port
    BY <1>1 DEF SerialIrq, PortStep, Byte
  <2>2. Whole(uart') /\ Queue' = IF uart.ptr < FifoSize THEN Append(Queue, sent')
                                                        ELSE Queue
    BY <2>1, ReceiveAppends
  <2>3. Channel!Receive
    BY <1>1, <1>r, <2>2 DEF SerialIrq, Channel!Receive
  <2> QED BY <2>2, <2>3 DEF Channel!Next
<1>2. CASE ReadRhr
  <2>1. out' = ReadValue(uart) /\ uart' = UartRxByte(uart).port /\ sent' = sent
    BY <1>2 DEF ReadRhr, PortStep
  <2>2. /\ Whole(uart')
        /\ uart.ptr = 0 => Queue' = Queue /\ out' = 0
        /\ uart.ptr > 0 => out' = Head(Queue) /\ Queue' = Tail(Queue)
    BY <2>1, ReadTakes
  <2>3. Channel!Read
    BY <1>r, <1>n, <2>1, <2>2 DEF Channel!Read
  <2> QED BY <2>2, <2>3 DEF Channel!Next
<1>3. CASE StoreThr
  <2>1. sent' \in Byte /\ uart' = UartTxByte(uart, sent')
    BY <1>3 DEF StoreThr, Byte
  <2>2. Whole(uart') /\ Queue' = IF uart.ptr < FifoSize THEN Append(Queue, sent')
                                                        ELSE Queue
    BY <2>1, TransmitAppends
  <2>3. Channel!Receive
    BY <1>3, <1>r, <2>2 DEF StoreThr, Channel!Receive
  <2> QED BY <2>2, <2>3 DEF Channel!Next
<1>4. CASE StoreFifoControl
  <2>1. PICK on \in BOOLEAN, clear \in BOOLEAN : uart' = StoreFcr(uart, on, clear)
    BY <1>4, DriverAssumption DEF StoreFifoControl
  <2>2. Whole(uart') /\ Queue' = IF clear THEN <<>> ELSE Queue
    BY <2>1, ControlKeepsOrClears
  <2>3. Channel!Discard \/ UNCHANGED ChannelVars
    BY <1>4, <2>2 DEF StoreFifoControl, Channel!Discard, ChannelVars
  <2> QED BY <2>2, <2>3 DEF Channel!Next
<1>5. CASE ResetSerial
  BY <1>5, ResetEmpty DEF ResetSerial, Channel!Next, Channel!Discard
<1>6. CASE StoreIer
  <2>1. PICK flags : uart' = SetIrqFlags(uart, flags).port
    BY <1>6 DEF StoreIer, PortStep
  <2>2. SameFifo(uart, uart')
    BY <2>1 DEF SetIrqFlags, Effect, SameFifo, Port
  <2> QED BY <1>6, <2>2, SameQueue DEF StoreIer, ChannelVars
<1>7. CASE StoreMcr
  <2>1. SameFifo(uart, uart')
    BY <1>7 DEF StoreMcr, SameFifo, Port
  <2> QED BY <1>7, <2>1, SameQueue DEF StoreMcr, ChannelVars
<1>8. CASE TimerIrq \/ UnmaskIrq \/ MaskIrq \/ ResetController \/ DeviceIrq
           \/ WriteMask \/ Wait \/ Wake \/ UNCHANGED vars
  BY <1>8 DEF TimerIrq, UnmaskIrq, MaskIrq, ResetController, DeviceIrq,
              WriteMask, Wait, Wake, vars, ChannelVars
<1> QED BY <1>1, <1>2, <1>3, <1>4, <1>5, <1>6, <1>7, <1>8 DEF Next

LEMMA ChannelInit == Init => Whole(uart) /\ Channel!Init
BY ResetEmpty, FifoIsWhole DEF Init, Channel!Init

(* If no byte comes while the guest has the FIFO off, the FIFO's pointer,   *)
(* status bit and holding register never disagree (uartPutRxByte,           *)
(* uartTxByte, uartRxByte, the store to FCR and the reset).                 *)
THEOREM FifoStaysWhole ==
  ASSUME Careful
  PROVE  Spec => []FifoInv
<1>1. Init => FifoInv
  BY TypeInit, ChannelInit, FifoIsWhole
<1>2. FifoInv /\ [Next]_vars => FifoInv'
  BY TypeStep, ChannelStep, FifoIsWhole
<1> QED BY <1>1, <1>2, PTL DEF Spec

(* The emulated serial port implements the channel: the guest reads the     *)
(* bytes of the line in order and once each, and loses only those that find *)
(* the FIFO full or that it throws away.                                    *)
THEOREM ChannelImplemented ==
  ASSUME Careful
  PROVE  Spec => ImplementsSerialChannel
<1>1. Init => FifoInv /\ Channel!Init
  BY TypeInit, ChannelInit, FifoIsWhole
<1>2. FifoInv /\ [Next]_vars => FifoInv' /\ [Channel!Next]_<<Queue, sent, out>>
  BY TypeStep, ChannelStep, FifoIsWhole DEF ChannelVars
<1> QED BY <1>1, <1>2, PTL DEF Spec, ImplementsSerialChannel, Channel!Spec
=============================================================================
