---------------------------- MODULE UsbDescriptors ----------------------------
(* The descriptors init_device writes to gadgetfs (usb.c), as records of the     *)
(* fields that have to agree with one another.                                   *)
EXTENDS UsbString, FiniteSets

Size == [tag |-> 4, device |-> 18, config |-> 9, interface |-> 9, endpoint |-> 7]

\* What autoconfig chooses for musb-hdrc, the only controller it knows.
EpName  == [source |-> "ep1in", sink |-> "ep3out"]
Address == [source |-> 128 + 1, sink |-> 3]

Device    == [type |-> "device", bNumConfigurations |-> 1, strings |-> {1, 2, 3}]
Interface == [type |-> "interface", bNumEndpoints |-> 2, strings |-> {5}]
Config    == [type |-> "config", bNumInterfaces |-> 1, bConfigurationValue |-> 1,
              wTotalLength |-> 32, strings |-> {4}]
Endpoint(e) == [type |-> "endpoint", bEndpointAddress |-> Address[e], strings |-> {}]
Status      == [type |-> "endpoint", bEndpointAddress |-> 0, strings |-> {}]

fs_eps == <<Endpoint("source"), Endpoint("sink"), Status>>
hs_eps == fs_eps

\* Where each part of a buffer begins, and where the buffer ends.
Offsets(buf) ==
  LET before[i \in 1 .. Len(buf) + 1] ==
        IF i = 1 THEN 0 ELSE before[i - 1] + Size[buf[i - 1].type]
  IN before

Bytes(buf) == Offsets(buf)[Len(buf) + 1]

\* A slip: all endpoints of the table are written.
build_config_all(eps) ==
  LET body == <<Interface>> \o eps
  IN <<[Config EXCEPT !.wTotalLength = Size.config + Bytes(body)]>> \o body

build_config(eps) ==
  LET body == <<Interface>> \o SubSeq(eps, 1, Interface.bNumEndpoints)
  IN <<[Config EXCEPT !.wTotalLength = Size.config + Bytes(body)]>> \o body

Tag == [type |-> "tag", strings |-> {}]

\* The buffer of init_device: full speed, high speed, device.
Descriptors == <<Tag>> \o build_config(fs_eps) \o build_config(hs_eps) \o <<Device>>

\* The file gadgetfs has for an endpoint of this controller.
FileOf(address) == IF address >= 128 THEN "ep1in" ELSE "ep3out"

-----------------------------------------------------------------------------
(* What gadgetfs and the host read in a buffer: they find a descriptor by the  *)
(* lengths before it.                                                          *)

FoundAt(buf, type, offset) ==
  \E i \in DOMAIN buf : buf[i].type = type /\ Offsets(buf)[i] = offset

\* The configuration at position i: it ends where wTotalLength says, with all its
\* endpoints in it, which are different ones.
ConfigComplete(buf, i) ==
  LET end   == Offsets(buf)[i] + buf[i].wTotalLength
      parts == {k \in DOMAIN buf : k > i /\ Offsets(buf)[k] < end}
      eps   == {k \in parts : buf[k].type = "endpoint"}
      itf   == CHOOSE k \in parts : buf[k].type = "interface"
  IN /\ \E type \in {"config", "device"} : FoundAt(buf, type, end)
     /\ \E k \in parts : buf[k].type = "interface"
     /\ Cardinality(eps) = buf[itf].bNumEndpoints
     /\ {buf[k].bEndpointAddress : k \in eps} = {Address[e] : e \in DOMAIN Address}

Accepted(buf) ==
  /\ Cardinality({i \in DOMAIN buf : buf[i].type = "config"}) = 2
  /\ \A i \in DOMAIN buf : buf[i].type = "config" => ConfigComplete(buf, i)
  /\ FoundAt(buf, "device", Bytes(buf) - Size.device)
=============================================================================
