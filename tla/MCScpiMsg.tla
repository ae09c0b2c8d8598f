------------------------------ MODULE MCScpiMsg ------------------------------
(***************************************************************************)
(* Instances of ScpiMsg for TLC: model values for threads and bytes.       *)
(***************************************************************************)
EXTENDS ScpiMsg

CONSTANTS usb, vxi, b1, b2

=============================================================================
