---------------------------- MODULE CommandStream ----------------------------
(***************************************************************************)
(* What the command ring of scpi_msg_adpt.c promises to the SCPI thread    *)
(* when one thread writes commands: a first-in first-out stream of bytes   *)
(* with room for Capacity of them, read in chunks of at most ReadLen.      *)
(* The promise ends when a writer overruns a full stream, which the code   *)
(* neither prevents nor reports: from then on anything may be read, until  *)
(* the process starts again.                                               *)
(***************************************************************************)
EXTENDS Integers, Sequences

CONSTANTS Byte, Capacity, ReadLen

VARIABLES
  pending,   \* bytes written and not yet read, oldest first
  chunk,     \* what the current (or the last) read has returned so far
  overrun    \* a full stream has been written to

vars == <<pending, chunk, overrun>>

Init ==
  /\ pending = <<>>
  /\ chunk = <<>>
  /\ overrun = FALSE

Put ==
  /\ Len(pending) < Capacity
  /\ \E b \in Byte : pending' = Append(pending, b)
  /\ UNCHANGED <<chunk, overrun>>

NewRead ==
  /\ chunk' = <<>>
  /\ UNCHANGED <<pending, overrun>>

Get ==
  /\ pending # <<>>
  /\ Len(chunk) < ReadLen
  /\ chunk' = Append(chunk, Head(pending))
  /\ pending' = Tail(pending)
  /\ UNCHANGED overrun

\* Nothing is promised of pending and chunk once the stream is overrun.
Overrun == overrun' = TRUE

Restart ==
  /\ pending' = <<>>
  /\ chunk' = <<>>
  /\ overrun' = FALSE

Next ==
  \/ ~overrun /\ (Put \/ NewRead \/ Get)
  \/ Overrun
  \/ Restart

Spec == Init /\ [][Next]_vars
=============================================================================
