----------------------------- MODULE MCUsbGadget -----------------------------
(* Instances of UsbGadget for TLC: model values for threads; the threads are   *)
(* alike, so runs without a liveness property may permute them.                *)
EXTENDS UsbGadget, TLC

CONSTANTS t1, t2, t3

Symmetry == Permutations(Thread)

=============================================================================
