------------------------------- MODULE MCVxi11 -------------------------------
(* Instances of Vxi11 for TLC: one client on each transport. *)
EXTENDS Vxi11

CONSTANTS t, u

\* A link and two writes over TCP; one call in two transmissions over UDP.
Calls == [tcp |-> 3, udp |-> 1]

=============================================================================
