------------------------------- MODULE MCUsbTmc -------------------------------
(* Instances of UsbTmc for TLC, in units of 2 cells (Align) instead of 4 bytes: *)
(* a header of 2, a buffer of 4, so 2 cells of data in a packet.                *)
EXTENDS UsbTmc

CONSTANTS x, y

\* Empty, with a byte of padding, without padding, two packets.
Shapes == {<<>>, <<x>>, <<x, y>>, <<y, x, y, x, x>>}

=============================================================================
