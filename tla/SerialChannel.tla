--------------------------- MODULE SerialChannel ---------------------------
(***************************************************************************)
(* What the serial port promises: the guest reads the bytes of the line in *)
(* the order they came, each once, and none is lost unless the FIFO was    *)
(* full when it came or the guest threw its contents away.  Bytes are      *)
(* numbered in the order they are sent.                                    *)
(***************************************************************************)
EXTENDS Integers, Sequences

CONSTANTS FifoSize, MaxBytes

VARIABLES
  queue,   \* bytes the guest has still to read
  sent,    \* number of the last byte sent
  out      \* what the guest last read, 0 if there was nothing to read

Init == queue = <<>> /\ sent = 0 /\ out = 0

Receive ==
  /\ sent < MaxBytes /\ sent' = sent + 1
  /\ queue' = IF Len(queue) < FifoSize THEN Append(queue, sent') ELSE queue
  /\ UNCHANGED out

Read ==
  /\ \/ queue = <<>> /\ out' = 0 /\ UNCHANGED queue
     \/ queue # <<>> /\ out' = Head(queue) /\ queue' = Tail(queue)
  /\ UNCHANGED sent

Discard == queue' = <<>> /\ UNCHANGED <<sent, out>>

Next == Receive \/ Read \/ Discard

Spec == Init /\ [][Next]_<<queue, sent, out>>
=============================================================================
