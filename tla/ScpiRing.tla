------------------------------ MODULE ScpiRing ------------------------------
(***************************************************************************)
(* The index arithmetic of the two byte rings of g_scpi_msg (rxBuf for     *)
(* commands, txBuf for responses) in scpi_vxi_tmc/scpi_msg_adpt.c.  A ring *)
(* is empty when its two indices are equal; the writer never compares them *)
(* so nothing in the code keeps a ring from being filled past its end.     *)
(***************************************************************************)
EXTENDS Integers, Sequences

CONSTANT BufMax   \* SCPI_BUF_MAX, 1024 in tmc.h

ASSUME BufMaxAssumption == BufMax \in Nat /\ BufMax >= 2

Idx == 0 .. BufMax - 1

(***************************************************************************)
(* What SCPI_CMD_RX_AVAIL and SCPI_RESPONSE_TX_AVAIL compute: how many     *)
(* bytes lie between the head and the tail.                                *)
(***************************************************************************)
Avail(head, tail) == IF tail >= head THEN tail - head ELSE BufMax - head + tail

\* The reader's `head++; if (head >= SCPI_BUF_MAX) head = 0`.
HeadNextNoWrap(i) == i + 1
HeadNext(i) == IF i + 1 >= BufMax THEN 0 ELSE i + 1

\* The writer's `if (tail >= SCPI_BUF_MAX-1) tail = 0; else tail++`.
TailNext(i) == IF i >= BufMax - 1 THEN 0 ELSE i + 1

-----------------------------------------------------------------------------
\* The slot k places after the head, and the bytes a reader would find.
Slot(head, k) == IF head + k >= BufMax THEN head + k - BufMax ELSE head + k

Contents(buf, head, tail) ==
  [k \in 1 .. Avail(head, tail) |-> buf[Slot(head, k - 1)]]

=============================================================================
