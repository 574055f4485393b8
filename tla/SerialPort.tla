----------------------------- MODULE SerialPort -----------------------------
(***************************************************************************)
(* The serial port the guest sees (vm/omap35xx/uart.c): the receive FIFO,  *)
(* the holding register, and the cause of interrupt it identifies.  Each C *)
(* function is an operator from port to port, or, when it may touch the    *)
(* interrupt controller, to the port and the signal it sends there: raise  *)
(* for throwInterrupt, clear for clearInterrupt.  An operator that is not  *)
(* used is a mutated form of the next one.                                 *)
(*                                                                         *)
(* Left out: the divisor latch, modem and flow control registers, which    *)
(* are written and read back, and the access modes, which only choose the  *)
(* register an offset names.                                               *)
(***************************************************************************)
EXTENDS Integers

CONSTANTS
  FifoSize,   \* RX_FIFO_SIZE
  PtrMod      \* values of rxFifoPtr, an unsigned word

ASSUME FifoAssumption ==
  /\ FifoSize \in Nat \ {0}
  /\ PtrMod \in Nat /\ PtrMod > FifoSize

Byte  == Nat
Place == 0 .. FifoSize - 1

(* Bits of IER, and what IIR says: none is its IT_PENDING bit, which is    *)
(* set when there is no interrupt.                                         *)
Enable == {"RHR", "THR", "LINE_ST"}
Cause  == Enable \cup {"none"}

Port == [ptr : 0 .. PtrMod - 1, fifo : [Place -> Byte], rhr : Byte,
         data : BOOLEAN,      \* LSR.RX_FIFO_E: there is a byte to read
         overrun : BOOLEAN,   \* LSR.RX_OE
         ier : SUBSET Enable, iir : Cause,
         fifoOn : BOOLEAN,    \* FCR.FIFO_EN
         loopback : BOOLEAN]

ResetPort == [ptr |-> 0, fifo |-> [i \in Place |-> 0], rhr |-> 0,
              data |-> FALSE, overrun |-> FALSE, ier |-> {}, iir |-> "none",
              fifoOn |-> FALSE, loopback |-> FALSE]

Effect(p, s) == [port |-> p, signal |-> s]
Raise(p, cause) == Effect([p EXCEPT !.iir = cause], "raise")
RaiseIf(p, cause) == IF cause \in p.ier THEN Raise(p, cause) ELSE Effect(p, "none")

-----------------------------------------------------------------------------
(* A byte goes to the end of the FIFO, and is in RHR when it is the first. *)
PutByteBehindRhr(p, b) ==
  [p EXCEPT !.fifo = [@ EXCEPT ![p.ptr] = b], !.data = TRUE, !.ptr = @ + 1]
PutByte(p, b) ==
  [p EXCEPT !.rhr = IF p.ptr = 0 THEN b ELSE @,
            !.fifo = [@ EXCEPT ![p.ptr] = b], !.data = TRUE, !.ptr = @ + 1]

(* uartPutRxByte: a byte arrives on the line.                              *)
UartPutRxByte(p, b) ==
  IF ~ p.fifoOn THEN RaiseIf([p EXCEPT !.rhr = b, !.data = TRUE], "RHR")
  ELSE IF p.ptr >= FifoSize THEN RaiseIf([p EXCEPT !.overrun = TRUE], "LINE_ST")
  ELSE RaiseIf(PutByte(p, b), "RHR")

(* uartTxByte in loopback mode; without it the byte is printed.            *)
UartTxByte(p, b) ==
  IF p.ptr >= FifoSize THEN [p EXCEPT !.overrun = TRUE] ELSE PutByte(p, b)

(* uartRxByte: the guest reads RHR.                                        *)
ReadValue(p) == IF p.data THEN p.rhr ELSE 0

Shifted(p) ==
  [p EXCEPT !.fifo = [i \in Place |-> p.fifo[IF i < FifoSize - 1 THEN i + 1 ELSE i]],
            !.ptr = (@ - 1) % PtrMod, !.overrun = FALSE]

Emptied(p) == [p EXCEPT !.rhr = 0, !.data = FALSE]

UartRxByte(p) ==
  LET q == Shifted(p)
  IN IF ~ p.data THEN Effect(p, "none")
     ELSE IF q.ptr # 0 THEN Effect([q EXCEPT !.rhr = q.fifo[0]], "none")
     ELSE IF "RHR" \notin p.ier THEN Effect(Emptied(q), "none")
     ELSE IF "THR" \in p.ier THEN Raise(Emptied(q), "THR")
     ELSE Effect([Emptied(q) EXCEPT !.iir = "none"], "none")

-----------------------------------------------------------------------------
(* setIrqFlags: the guest stores to IER.  The transmit FIFO is always      *)
(* empty, so its interrupt is due as soon as it is enabled; disabling      *)
(* either interrupt clears the cause of both.                              *)
CauseAfterIgnoringData(p, flags) ==
  IF "RHR" \in p.ier \ flags THEN IF "THR" \in flags THEN "THR" ELSE "none"
  ELSE IF "THR" \in flags \ p.ier THEN "THR"
  ELSE IF "THR" \in p.ier \ flags THEN "none"
  ELSE p.iir

CauseAfter(p, flags) ==
  LET enables(e) == e \in flags \ p.ier
      disables(e) == e \in p.ier \ flags
  IN IF enables("RHR") /\ p.data THEN "RHR"
     ELSE IF disables("RHR") THEN IF "THR" \in flags THEN "THR" ELSE "none"
     ELSE IF enables("THR") THEN "THR"
     ELSE IF disables("THR") THEN "none"
     ELSE p.iir

SetIrqFlags(p, flags) ==
  LET throws == \/ "THR" \in flags \ p.ier
                \/ "RHR" \in flags \ p.ier /\ p.data
                \/ "RHR" \in p.ier \ flags /\ "THR" \in flags
      cause == CauseAfter(p, flags)
  IN Effect([p EXCEPT !.iir = cause, !.ier = flags],
            IF cause = "none" THEN "clear" ELSE IF throws THEN "raise" ELSE "none")

(* A store to FCR: FIFO_EN, and RX_FIFO_CLR.                               *)
StoreFcrKeepsPtr(p, on, clear) ==
  [p EXCEPT !.fifoOn = on,
            !.rhr = IF clear THEN 0 ELSE @,
            !.data = @ /\ ~ clear, !.overrun = @ /\ ~ clear]
StoreFcr(p, on, clear) ==
  [p EXCEPT !.fifoOn = on,
            !.ptr = IF clear THEN 0 ELSE @,
            !.fifo = IF clear THEN ResetPort.fifo ELSE @,
            !.rhr = IF clear THEN 0 ELSE @,
            !.data = @ /\ ~ clear, !.overrun = @ /\ ~ clear]
=============================================================================
