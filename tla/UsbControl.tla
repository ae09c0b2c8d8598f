------------------------------ MODULE UsbControl ------------------------------
(* Control requests: what handle_control (usb.c) answers on ep0, and what it has *)
(* done by then.  A request is answered by one read or write of ep0: in the      *)
(* direction of the request that is its data or its acknowledgement, in the      *)
(* other direction it stalls.  The I/O threads, UsbGadget's subject, appear only *)
(* as far as SET_INTERFACE meets them: which descriptors name a usable endpoint. *)
EXTENDS UsbDescriptors

CONSTANTS Text,     \* stringtab: a text for each id
          Asked,    \* the requests of the host
          None,
          Garbage   \* a text made of what follows stringtab in memory

Language == 1033
Request == [type : 0 .. 255, request : 0 .. 255, value : Nat, index : Nat, length : Nat]

ASSUME ControlAssumption == Asked \subseteq Request /\ None \notin Request

\* The ids are a byte; 0 is the list of languages.
ASSUME TextAssumption ==
  /\ DOMAIN Text \subseteq 1 .. 255 /\ \A id \in DOMAIN Text : Text[id] \in Seq(Unit)
  /\ Garbage \in Seq(Nat)

\* Standard requests, tmc.h's class requests, and GET_CAPABILITIES' answer.
GetDescriptor == 6
SetConfiguration == 9
GetInterface == 10
SetInterface == 11
InitiateClear == 5
CheckClear == 6
GetCapabilities == 7
IndicatorPulse == 160
CapabilitiesSize == 24
StringDescriptor == 3

VARIABLES setup,   \* the request handle_control works on, or None
          answer,  \* what the host got for it, or None
          io,      \* a sink thread runs
          open,    \* the endpoints that source_fd and sink_fd name and that are enabled
          step,    \* SET_INTERFACE: the ioctl that is next, or "none"
          status,  \* SET_INTERFACE: an ioctl has failed
          reset    \* history: the endpoints whose toggle this request has reset

controlVars == <<setup, answer, io, open, step, status, reset>>

ControlInit ==
  /\ setup = None /\ answer = None /\ io = FALSE /\ open = {}
  /\ step = "none" /\ status = FALSE /\ reset = {}

-----------------------------------------------------------------------------
(* The host and the I/O threads.                                               *)

HostAsks(r) ==
  /\ setup = None /\ setup' = r /\ reset' = {}
  /\ UNCHANGED <<answer, io, open, step, status>>

HostHasAnswer ==
  /\ answer # None /\ setup' = None /\ answer' = None
  /\ UNCHANGED <<io, open, step, status, reset>>

\* A thread that is cancelled before it has pushed its cleanup handler, or whose
\* source_open fails, leaves its OUT file open; no thread closes the IN file.
LeavesFiles == open' = open \/ open' = open \ {"sink"}

EndpointsChange ==
  /\ \/ io /\ open' = open \union {"sink"} /\ UNCHANGED io
     \/ io /\ "sink" \in open /\ open' = open \union {"source"} /\ UNCHANGED io
     \/ io /\ io' = FALSE /\ LeavesFiles
     \/ open' = {} /\ UNCHANGED io   \* a disconnect disables what is open
  /\ UNCHANGED <<setup, answer, step, status, reset>>

-----------------------------------------------------------------------------
(* ep0.                                                                        *)

ToHost(r) == r.type >= 128   \* USB_DIR_IN
Stall == [kind |-> "stall", len |-> 0, text |-> <<>>]
Ack   == [kind |-> "ack", len |-> 0, text |-> <<>>]

Writes(n, text) ==
  answer' = IF ToHost(setup) THEN [kind |-> "data", len |-> n, text |-> text] ELSE Stall
Reads  == answer' = IF ToHost(setup) THEN Stall ELSE Ack
Stalls == IF ToHost(setup) THEN Reads ELSE Writes(0, <<>>)

Handles(type, request) ==
  /\ setup # None /\ answer = None /\ step = "none"
  /\ setup.type \in type /\ setup.request \in request
  /\ UNCHANGED <<setup, step, status, reset>>

Standard == 0 .. 255 \ {161, 162}
Same == UNCHANGED <<io, open>>

TmcInterfaceRequest ==
  /\ Handles({161}, 0 .. 255) /\ Same
  /\ \/ setup.request \in {InitiateClear, CheckClear, IndicatorPulse} /\ Writes(1, <<>>)
     \/ setup.request = GetCapabilities /\ Writes(CapabilitiesSize, <<>>)
     \/ /\ setup.request \notin {InitiateClear, CheckClear, IndicatorPulse, GetCapabilities}
        /\ Stalls

\* INITIATE_ABORT_* and CHECK_ABORT_*
TmcEndpointRequest ==
  /\ Handles({162}, 0 .. 255) /\ Same
  /\ IF setup.request \in 1 .. 4 THEN Writes(2, <<>>) ELSE Stalls

\* A slip: the host's buffer is not asked for.
AnswersWholeString(text) == Writes(DescriptorLength(text), text)

AnswersString(text) ==
  Writes(IF setup.length < DescriptorLength(text) THEN setup.length
         ELSE DescriptorLength(text), text)

\* String 0 lists the language.  The table has no end mark: an id it does not hold
\* is looked for in what follows it in memory.
GetString ==
  /\ Handles(Standard, {GetDescriptor}) /\ Same
  /\ LET id == setup.value % 256
         text == usb_gadget_get_string(Utf8(Text[id]))
     IN \/ /\ setup.type # 128 \/ setup.value \div 256 # StringDescriptor
              \/ (id # 0 /\ setup.index # Language)
           /\ Stalls
        \/ /\ setup.type = 128 /\ setup.value \div 256 = StringDescriptor
           /\ id = 0 \/ setup.index = Language
           /\ \/ id = 0 /\ AnswersString(<<Language>>)
              \/ /\ id \in DOMAIN Text
                 /\ IF text = Fail THEN Stalls ELSE AnswersString(text)
              \/ /\ id \notin DOMAIN Text \union {0}
                 /\ Stalls \/ AnswersString(Garbage)

\* A failure of start_io is acknowledged all the same.
SetConfig ==
  /\ Handles(Standard, {SetConfiguration})
  /\ \/ /\ setup.type = 0 /\ setup.value = Config.bConfigurationValue
        /\ io' \in {TRUE, io} /\ UNCHANGED open /\ Reads
     \/ /\ setup.type = 0 /\ setup.value = 0
        /\ io' = FALSE /\ Reads
        /\ IF io THEN LeavesFiles ELSE UNCHANGED open
     \/ /\ setup.type # 0 \/ setup.value \notin {0, Config.bConfigurationValue}
        /\ Same /\ Stalls

GetIntf ==
  /\ Handles(Standard, {GetInterface}) /\ Same
  /\ IF setup.type = 129 /\ setup.index = 0 /\ setup.length <= 1
     THEN Writes(setup.length, <<>>) ELSE Stalls

Unknown ==
  /\ Handles(Standard, 0 .. 255 \ {GetDescriptor, SetConfiguration, GetInterface, SetInterface})
  /\ Same /\ Stalls

\* SET_INTERFACE: a refusal, or the two ioctls and what the status says of them.
RefuseIntf ==
  /\ Handles(Standard, {SetInterface}) /\ Same
  /\ setup.type # 1 \/ setup.index # 0 \/ setup.value # 0
  /\ Stalls

SetIntf ==
  /\ setup # None /\ answer = None /\ step = "none"
  /\ setup.type = 1 /\ setup.request = SetInterface /\ setup.index = 0 /\ setup.value = 0
  /\ step' = "source" /\ status' = FALSE
  /\ UNCHANGED <<setup, answer, io, open, reset>>

ClearHalt(e, next) ==
  /\ step = e /\ step' = next
  /\ \/ e \in open /\ reset' = reset \union {e} /\ UNCHANGED status
     \/ e \notin open /\ status' = TRUE /\ UNCHANGED reset
  /\ UNCHANGED <<setup, answer, io, open>>

ClearSource == ClearHalt("source", "sink")

\* A slip: the second ioctl's result replaces the first's.
ClearSinkOnly ==
  /\ step = "sink" /\ step' = "end"
  /\ status' = ("sink" \notin open)
  /\ reset' = IF "sink" \in open THEN reset \union {"sink"} ELSE reset
  /\ UNCHANGED <<setup, answer, io, open>>

ClearSink == ClearHalt("sink", "end")

EndIntf ==
  /\ step = "end" /\ step' = "none"
  /\ IF status THEN Stalls ELSE Reads
  /\ UNCHANGED <<setup, io, open, status, reset>>

handle_control ==
  \/ TmcInterfaceRequest \/ TmcEndpointRequest \/ GetString \/ SetConfig \/ GetIntf
  \/ Unknown \/ RefuseIntf \/ SetIntf \/ ClearSource \/ ClearSink \/ EndIntf
=============================================================================
