------------------------------- MODULE UsbDevice -------------------------------
(* The programs' start and the control requests of the device that it leads to:  *)
(* the host can ask as soon as the descriptors are written and ep0 is polled,    *)
(* which in scpi_vxi_tmc is before the main thread has started the other parts.  *)
EXTENDS Startup, UsbControl

vars == <<startVars, controlVars>>

Init == StartInit /\ ControlInit

\* The threads of an ended process are gone, whatever they were at.
ControlUnlessEnded ==
  IF pc' = "ended"
  THEN /\ setup' = None /\ answer' = None /\ io' = FALSE /\ open' = {}
       /\ step' = "none" /\ status' = FALSE /\ reset' = {}
  ELSE UNCHANGED controlVars

MainStep == Starts /\ ControlUnlessEnded

\* ep0_thread polls between requests.
Ep0Step ==
  \/ setup = None /\ Ep0Ends /\ ControlUnlessEnded
  \/ ep0 /\ handle_control /\ UNCHANGED startVars

HostStep ==
  /\ device /\ ep0
  /\ HostHasAnswer \/ \E r \in Asked : HostAsks(r)
  /\ UNCHANGED startVars

IoStep == device /\ EndpointsChange /\ UNCHANGED startVars

\* There is nothing left to do when the main thread serves or has ended.
Rests == pc \in {"serving", "ended"} /\ UNCHANGED vars

Next == MainStep \/ Ep0Step \/ HostStep \/ IoStep \/ Rests

Spec == Init /\ [][Next]_vars /\ WF_vars(MainStep)

-----------------------------------------------------------------------------
TypeOK ==
  /\ program \in Program /\ vxi \in 0 .. Len(VxiStep)
  /\ pc \in {"queue", "mount", "chdir", "init_device", "ep0", "vxi", "thread", "svc_run",
             "serving", "ended"}
  /\ {dir, mounted, queue, device, ep0, scpi, io, status} \subseteq BOOLEAN
  /\ failed \subseteq {"queue", "usb", "vxi", "thread"}
  /\ setup \in Asked \union {None}
  /\ answer = None \/ answer.kind \in {"data", "ack", "stall"}
  /\ open \subseteq DOMAIN Address /\ reset \subseteq DOMAIN Address
  /\ step \in {"none", "source", "sink", "end"}

BufferIsGood ==
  /\ Accepted(Descriptors)
  /\ \A e \in DOMAIN Address : FileOf(Address[e]) = EpName[e]
  /\ \A i \in DOMAIN Descriptors : Descriptors[i].strings \subseteq DOMAIN Text

\* What init_device writes when the device appears is a buffer gadgetfs can take
\* apart: both configurations are as long as they say and end where the next part
\* begins, hold the two endpoints that the I/O threads open under the names that
\* gadgetfs gives their addresses, and every string they name is in the table.
DescriptorsAccepted == device => BufferIsGood

FirstUnits(text) == IF Len(text) > MaxUnits THEN SubSeq(text, 1, MaxUnits) ELSE text

AsksForText ==
  /\ setup # None /\ answer # None
  /\ setup.type = 128 /\ setup.request = GetDescriptor
  /\ setup.value \div 256 = StringDescriptor /\ setup.index = Language
  /\ (setup.value % 256) \in DOMAIN Text

\* handle_control answers a request for a string of the table with that text, in
\* full or as far as the host asked for it and a descriptor's length byte can say,
\* never with a stall and never with the text of another id.
StringsAreText ==
  AsksForText =>
    /\ answer.kind = "data"
    /\ answer.text = FirstUnits(Text[setup.value % 256])
    /\ answer.len \in {setup.length, 2 + 2 * Len(answer.text)}

\* No answer to a standard request is longer than the host asked for, whatever the
\* text has: gadgetfs would send more than the host's transfer takes.
AnswersFit ==
  (setup # None /\ answer # None /\ setup.type \in Standard /\ answer.kind = "data") =>
    answer.len <= setup.length

\* SET_INTERFACE is acknowledged only if both endpoints were reset: the I/O threads
\* open and close them between the two ioctls, so that either can fail alone.
AckMeansDone ==
  (setup # None /\ answer # None /\ setup.request = SetInterface /\ answer.kind = "ack") =>
    reset = {"source", "sink"}

\* A part that a serving program lacks is missing because a call failed in it, or
\* the queue, without which scpi_adpt_init starts neither bus: VXI-11 serves without
\* the USB part, and scpi_vxi_tmc never ends because of it.  (The other way round it
\* does: without a transport svc_run returns and main exits, which ends the device.)
FaultIsContained ==
  /\ pc = "serving" =>
       /\ (program # "vxi11_server" /\ ~ep0) => failed \intersect {"queue", "usb"} # {}
       /\ (program # "usb" /\ vxi < Len(VxiStep)) => failed \intersect {"queue", "vxi"} # {}
       /\ program = "scpi" => scpi
  /\ (pc = "ended" /\ program = "scpi") => failed \intersect {"queue", "vxi", "thread"} # {}

\* Whatever fails, the main thread comes to serve or the process ends: no failed
\* call leaves it half started.
StartEnds == <>(pc \in {"serving", "ended"})
=============================================================================
