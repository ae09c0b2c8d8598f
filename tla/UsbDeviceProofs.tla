---------------------------- MODULE UsbDeviceProofs ----------------------------
(* What holds of the programs' start whatever fails in it, of SET_INTERFACE       *)
(* whatever the I/O threads do meanwhile, and of the answers to the other         *)
(* standard requests, for every set of requests and every table of strings; and   *)
(* what the descriptors and the conversion of strings are.                        *)
EXTENDS UsbDevice, WellFoundedInduction, SequenceTheorems, FiniteSetTheorems, TLAPS

InStartUp ==
  /\ program \in Program
  /\ pc \in {"queue", "mount", "chdir", "init_device", "ep0", "vxi", "thread", "svc_run",
            "serving", "ended"}

Parts == {"queue", "usb", "vxi", "thread"}

Flags ==
  /\ dir \in BOOLEAN /\ mounted \in BOOLEAN /\ queue \in BOOLEAN /\ device \in BOOLEAN
  /\ ep0 \in BOOLEAN /\ scpi \in BOOLEAN

\* Each program makes only its own calls.
Places ==
  /\ pc = "queue" => program = "scpi"
  /\ pc = "chdir" => program = "usb"
  /\ pc \in {"mount", "init_device", "ep0"} => program # "vxi11_server"
  /\ pc \in {"vxi", "thread", "svc_run"} => program # "usb"
  /\ pc \in {"queue", "mount", "chdir", "init_device", "ep0", "vxi"} => vxi < Len(VxiStep)

\* What is behind the main thread is there, or its failure is on record.
Behind ==
  /\ (program # "vxi11_server" /\ pc \in {"vxi", "thread", "svc_run", "serving"} /\ ~ep0)
       => failed \intersect {"queue", "usb"} # {}
  /\ (program # "usb" /\ pc \in {"thread", "svc_run", "serving"} /\ vxi < Len(VxiStep))
       => failed \intersect {"queue", "vxi"} # {}
  /\ (program = "scpi" /\ pc \in {"svc_run", "serving"}) => scpi
  /\ (program = "scpi" /\ pc = "ended") => failed \intersect {"queue", "vxi", "thread"} # {}
  /\ ep0 => pc \in {"vxi", "thread", "svc_run", "serving"}
  /\ (program = "usb" /\ ep0) => pc = "serving"

StartInv == InStartUp /\ vxi \in 0 .. 8 /\ failed \subseteq Parts /\ Flags /\ Places /\ Behind

ControlType ==
  /\ setup \in Asked \union {None}
  /\ answer = None \/ answer.kind \in {"data", "ack", "stall"}
  /\ open \subseteq {"source", "sink"} /\ reset \subseteq {"source", "sink"}
  /\ step \in {"none", "source", "sink", "end"}

ControlFlags == io \in BOOLEAN /\ status \in BOOLEAN

\* Inside SET_INTERFACE the status knows which of the two ioctls have failed.
Ioctls ==
  /\ step # "none" => setup # None /\ answer = None
  /\ answer # None => setup # None
  /\ (step = "sink" /\ ~status) => "source" \in reset
  /\ (step = "end" /\ ~status) => reset = {"source", "sink"}

ControlInv == ControlType /\ ControlFlags /\ Ioctls /\ AckMeansDone

IInv == StartInv /\ ControlInv

LEMMA VxiSteps == Len(VxiStep) = 8
BY DEF VxiStep

LEMMA InitIInv == Init => IInv
<1> SUFFICES ASSUME Init PROVE IInv
    OBVIOUS
<1> USE DEF Init, StartInit, ControlInit, First, Program
<1>1. InStartUp /\ vxi \in 0 .. 8 /\ failed \subseteq Parts
    BY DEF InStartUp, Parts
<1>2. Flags
    BY Zenon DEF Flags
<1>3. Places
    BY VxiSteps DEF Places
<1>4. Behind
    BY VxiSteps DEF Behind
<1>5. ControlType /\ ControlFlags
    BY DEF ControlType, ControlFlags
<1>6. Ioctls /\ AckMeansDone
    BY DEF Ioctls, AckMeansDone
<1> QED BY <1>1, <1>2, <1>3, <1>4, <1>5, <1>6 DEF IInv, StartInv, ControlInv

-----------------------------------------------------------------------------
(* The start.                                                                  *)

\* Every call of the main thread leaves what it has behind it accounted for.
LEMMA StartsKeeps ==
  ASSUME StartInv, Starts
  PROVE  StartInv'
<1> USE VxiSteps DEF StartInv, InStartUp, Parts, Program, Fails, Exit
<1>1. CASE MakeQueue
  <2>1. InStartUp'
      BY <1>1 DEF MakeQueue
  <2>2. vxi' \in 0 .. 8
      BY <1>1 DEF MakeQueue, Places
  <2>3. failed' \subseteq Parts
      BY <1>1 DEF MakeQueue
  <2>4. Flags'
      BY <1>1, Zenon DEF MakeQueue, Flags
  <2>5. Places'
      BY <1>1 DEF MakeQueue, Places
  <2>6. Behind'
      BY <1>1 DEF MakeQueue, Places, Behind
  <2> QED BY <2>1, <2>2, <2>3, <2>4, <2>5, <2>6
<1>2. CASE Mount
  <2>1. InStartUp'
      BY <1>2 DEF Mount, UsbGivenUp
  <2>2. vxi' \in 0 .. 8
      BY <1>2 DEF Mount, UsbGivenUp, Places
  <2>3. failed' \subseteq Parts
      BY <1>2 DEF Mount, UsbGivenUp
  <2>4. Flags'
      BY <1>2, Zenon DEF Mount, UsbGivenUp, Flags
  <2>5. Places'
      BY <1>2 DEF Mount, UsbGivenUp, Places
  <2>6. Behind'
      BY <1>2 DEF Mount, UsbGivenUp, Places, Behind
  <2> QED BY <2>1, <2>2, <2>3, <2>4, <2>5, <2>6
<1>3. CASE Chdir
  <2>1. InStartUp'
      BY <1>3 DEF Chdir
  <2>2. vxi' \in 0 .. 8
      BY <1>3 DEF Chdir, Places
  <2>3. failed' \subseteq Parts
      BY <1>3 DEF Chdir
  <2>4. Flags'
      BY <1>3, Zenon DEF Chdir, Flags
  <2>5. Places'
      BY <1>3 DEF Chdir, Places
  <2>6. Behind'
      BY <1>3 DEF Chdir, Places, Behind
  <2> QED BY <2>1, <2>2, <2>3, <2>4, <2>5, <2>6
<1>4. CASE InitDevice
  <2>1. InStartUp'
      BY <1>4 DEF InitDevice, UsbGivenUp
  <2>2. vxi' \in 0 .. 8
      BY <1>4 DEF InitDevice, UsbGivenUp, Places
  <2>3. failed' \subseteq Parts
      BY <1>4 DEF InitDevice, UsbGivenUp
  <2>4. Flags'
      BY <1>4, Zenon DEF InitDevice, UsbGivenUp, Flags
  <2>5. Places'
      BY <1>4 DEF InitDevice, UsbGivenUp, Places
  <2>6. Behind'
      BY <1>4 DEF InitDevice, UsbGivenUp, Places, Behind
  <2> QED BY <2>1, <2>2, <2>3, <2>4, <2>5, <2>6
<1>5. CASE StartEp0
  <2>1. InStartUp'
      BY <1>5 DEF StartEp0
  <2>2. vxi' \in 0 .. 8
      BY <1>5 DEF StartEp0, Places
  <2>3. failed' \subseteq Parts
      BY <1>5 DEF StartEp0
  <2>4. Flags'
      BY <1>5, Zenon DEF StartEp0, Flags
  <2>5. Places'
      BY <1>5 DEF StartEp0, Places
  <2>6. Behind'
      BY <1>5 DEF StartEp0, Places, Behind
  <2> QED BY <2>1, <2>2, <2>3, <2>4, <2>5, <2>6
<1>6. CASE RegisterVxi
  <2>1. InStartUp'
      BY <1>6 DEF RegisterVxi
  <2>2. vxi' \in 0 .. 8
      BY <1>6 DEF RegisterVxi, Places
  <2>3. failed' \subseteq Parts
      BY <1>6 DEF RegisterVxi
  <2>4. Flags'
      BY <1>6, Zenon DEF RegisterVxi, Flags
  <2>5. Places'
      BY <1>6 DEF RegisterVxi, Places
  <2>6. Behind'
      BY <1>6 DEF RegisterVxi, Places, Behind
  <2> QED BY <2>1, <2>2, <2>3, <2>4, <2>5, <2>6
<1>7. CASE CreateThread
  <2>1. InStartUp'
      BY <1>7 DEF CreateThread
  <2>2. vxi' \in 0 .. 8
      BY <1>7 DEF CreateThread, Places
  <2>3. failed' \subseteq Parts
      BY <1>7 DEF CreateThread
  <2>4. Flags'
      BY <1>7, Zenon DEF CreateThread, Flags
  <2>5. Places'
      BY <1>7 DEF CreateThread, Places
  <2>6. Behind'
      BY <1>7 DEF CreateThread, Places, Behind
  <2> QED BY <2>1, <2>2, <2>3, <2>4, <2>5, <2>6
<1>8. CASE SvcRun
  <2>1. InStartUp'
      BY <1>8 DEF SvcRun
  <2>2. vxi' \in 0 .. 8
      BY <1>8 DEF SvcRun, Places
  <2>3. failed' \subseteq Parts
      BY <1>8 DEF SvcRun
  <2>4. Flags'
      BY <1>8, Zenon DEF SvcRun, Flags
  <2>5. Places'
      BY <1>8 DEF SvcRun, Places
  <2>6. Behind'
      BY <1>8 DEF SvcRun, Places, Behind
  <2> QED BY <2>1, <2>2, <2>3, <2>4, <2>5, <2>6
<1> QED BY <1>1, <1>2, <1>3, <1>4, <1>5, <1>6, <1>7, <1>8 DEF Starts

\* The end of ep0_thread is a failure of the USB part.
LEMMA Ep0EndsKeeps ==
  ASSUME StartInv, Ep0Ends
  PROVE  StartInv'
<1> USE VxiSteps DEF StartInv, InStartUp, Parts, Program, Fails, Exit, Ep0Ends
<1>1. InStartUp'
    OBVIOUS
<1>2. vxi' \in 0 .. 8
    OBVIOUS
<1>3. failed' \subseteq Parts
    OBVIOUS
<1>4. Flags'
    BY Zenon DEF Flags
<1>5. Places'
    BY DEF Places
<1>6. Behind'
    BY DEF Behind
<1> QED BY <1>1, <1>2, <1>3, <1>4, <1>5, <1>6

-----------------------------------------------------------------------------
(* The control requests.                                                       *)

LEMMA EndedKeeps ==
  ASSUME ControlInv, ControlUnlessEnded
  PROVE  ControlInv'
<1> USE DEF ControlInv
<1>1. CASE pc' = "ended"
  <2> USE <1>1 DEF ControlUnlessEnded
  <2>1. ControlType'
      BY DEF ControlType
  <2>2. ControlFlags' /\ Ioctls' /\ AckMeansDone'
      BY DEF ControlFlags, Ioctls, AckMeansDone
  <2> QED BY <2>1, <2>2
<1>2. CASE pc' # "ended"
    BY <1>2 DEF ControlUnlessEnded, controlVars, ControlType, ControlFlags, Ioctls, AckMeansDone
<1> QED BY <1>1, <1>2

LEMMA HostKeeps ==
  ASSUME ControlInv, HostHasAnswer \/ \E r \in Asked : HostAsks(r)
  PROVE  ControlInv'
<1> USE DEF ControlInv
<1>1. CASE HostHasAnswer
    BY <1>1 DEF HostHasAnswer, ControlType, ControlFlags, Ioctls, AckMeansDone
<1>2. ASSUME NEW r \in Asked, HostAsks(r)
      PROVE  ControlInv'
  <2> USE <1>2, ControlAssumption DEF HostAsks
  <2>1. ControlType' /\ ControlFlags'
      BY DEF ControlType, ControlFlags
  <2>2. Ioctls'
      BY DEF Ioctls
  <2>3. AckMeansDone'
      BY DEF AckMeansDone, Ioctls
  <2> QED BY <2>1, <2>2, <2>3
<1> QED BY <1>1, <1>2

LEMMA EndpointsKeep ==
  ASSUME ControlInv, EndpointsChange
  PROVE  ControlInv'
<1> USE DEF ControlInv, EndpointsChange, LeavesFiles
<1>1. ControlType'
    BY DEF ControlType
<1>2. ControlFlags'
    BY DEF ControlFlags
<1>3. Ioctls' /\ AckMeansDone'
    BY DEF Ioctls, AckMeansDone
<1> QED BY <1>1, <1>2, <1>3

\* What a read or a write of ep0 can be for the host.
LEMMA WritesKind ==
  ASSUME NEW n, NEW text, Writes(n, text)
  PROVE  answer'.kind \in {"data", "stall"}
BY DEF Writes, Stall

LEMMA ReadsKind == Reads => answer'.kind \in {"ack", "stall"}
BY DEF Reads, Stall, Ack

LEMMA StallsKind == Stalls => answer'.kind = "stall"
BY DEF Stalls, Reads, Writes, Stall

\* A request that is answered at once.
LEMMA Answered ==
  ASSUME ControlInv, NEW types, NEW requests, Handles(types, requests),
         answer'.kind \in {"data", "ack", "stall"},
         setup.request = SetInterface => answer'.kind # "ack",
         io' \in BOOLEAN, open' \subseteq open
  PROVE  ControlInv'
<1> USE DEF ControlInv, Handles
<1>1. ControlType'
    BY DEF ControlType
<1>2. ControlFlags'
    BY DEF ControlFlags
<1>3. Ioctls'
    BY DEF Ioctls
<1>4. AckMeansDone'
    BY DEF AckMeansDone
<1> QED BY <1>1, <1>2, <1>3, <1>4

LEMMA SameType == ControlInv /\ Same => io' \in BOOLEAN /\ open' \subseteq open
BY DEF ControlInv, ControlFlags, Same

\* Every request, and every step of SET_INTERFACE.
LEMMA HandleControlKeeps ==
  ASSUME ControlInv, handle_control
  PROVE  ControlInv'
<1>1. CASE TmcInterfaceRequest
  <2>1. answer'.kind \in {"data", "stall"}
      BY <1>1, WritesKind, StallsKind DEF TmcInterfaceRequest
  <2> QED BY <1>1, <2>1, Answered, SameType DEF TmcInterfaceRequest
<1>2. CASE TmcEndpointRequest
  <2>1. answer'.kind \in {"data", "stall"}
      BY <1>2, WritesKind, StallsKind DEF TmcEndpointRequest
  <2> QED BY <1>2, <2>1, Answered, SameType DEF TmcEndpointRequest
<1>3. CASE GetString
  <2>1. answer'.kind \in {"data", "stall"}
      BY <1>3, WritesKind, StallsKind DEF GetString, AnswersString
  <2> QED BY <1>3, <2>1, Answered, SameType DEF GetString
<1>4. CASE SetConfig
  <2>1. answer'.kind \in {"data", "ack", "stall"}
      BY <1>4, ReadsKind, StallsKind DEF SetConfig
  <2>2. setup.request # SetInterface
      BY <1>4 DEF SetConfig, Handles, SetConfiguration, SetInterface
  <2>3. io' \in BOOLEAN /\ open' \subseteq open
      BY <1>4 DEF SetConfig, LeavesFiles, Same, ControlInv, ControlFlags
  <2> QED BY <1>4, <2>1, <2>2, <2>3, Answered DEF SetConfig
<1>5. CASE GetIntf
  <2>1. answer'.kind \in {"data", "stall"}
      BY <1>5, WritesKind, StallsKind DEF GetIntf
  <2> QED BY <1>5, <2>1, Answered, SameType DEF GetIntf
<1>6. CASE Unknown
    BY <1>6, StallsKind, Answered, SameType DEF Unknown
<1>7. CASE RefuseIntf
    BY <1>7, StallsKind, Answered, SameType DEF RefuseIntf
<1>8. CASE SetIntf
    BY <1>8 DEF SetIntf, ControlInv, ControlType, ControlFlags, Ioctls, AckMeansDone
<1>9. ASSUME NEW e \in {"source", "sink"}, ClearHalt(e, IF e = "source" THEN "sink" ELSE "end")
      PROVE  ControlInv'
  <2> USE <1>9 DEF ControlInv, ClearHalt
  <2>1. ControlType'
      BY DEF ControlType
  <2>2. ControlFlags'
      BY DEF ControlFlags
  <2>3. answer = None
      BY DEF Ioctls
  <2>4. AckMeansDone'
      BY <2>3 DEF AckMeansDone
  <2>5. Ioctls'
    <3>1. CASE e = "source"
        BY <2>3, <3>1 DEF Ioctls
    <3>2. CASE e = "sink"
        BY <2>3, <3>2 DEF Ioctls, ControlType
    <3> QED BY <3>1, <3>2
  <2> QED BY <2>1, <2>2, <2>4, <2>5
<1>10. CASE ClearSource \/ ClearSink
    BY <1>9, <1>10 DEF ClearSource, ClearSink
<1>11. CASE EndIntf
  <2> USE <1>11 DEF EndIntf, ControlInv
  <2>1. answer'.kind \in {"ack", "stall"} /\ (status => answer'.kind # "ack")
      BY ReadsKind, StallsKind
  <2>2. ControlType' /\ ControlFlags'
      BY <2>1 DEF ControlType, ControlFlags
  <2>3. Ioctls'
      BY DEF Ioctls
  <2>4. AckMeansDone'
      BY <2>1 DEF AckMeansDone, Ioctls
  <2> QED BY <2>2, <2>3, <2>4
<1> QED BY <1>1, <1>2, <1>3, <1>4, <1>5, <1>6, <1>7, <1>8, <1>10, <1>11 DEF handle_control

-----------------------------------------------------------------------------
LEMMA StepIInv == IInv /\ [Next]_vars => IInv'
<1> SUFFICES ASSUME IInv, [Next]_vars PROVE IInv'
    OBVIOUS
<1> USE DEF IInv
<1>1. ASSUME UNCHANGED startVars PROVE StartInv'
    BY <1>1 DEF StartInv, startVars, InStartUp, Flags, Places, Behind
<1>2. ASSUME UNCHANGED controlVars PROVE ControlInv'
    BY <1>2 DEF ControlInv, controlVars, ControlType, ControlFlags, Ioctls, AckMeansDone
<1>3. CASE MainStep
    BY <1>3, StartsKeeps, EndedKeeps DEF MainStep
<1>4. CASE Ep0Step
    BY <1>1, <1>4, Ep0EndsKeeps, EndedKeeps, HandleControlKeeps DEF Ep0Step
<1>5. CASE HostStep
    BY <1>1, <1>5, HostKeeps DEF HostStep
<1>6. CASE IoStep
    BY <1>1, <1>6, EndpointsKeep DEF IoStep
<1>7. CASE UNCHANGED vars
    BY <1>1, <1>2, <1>7 DEF vars
<1> QED BY <1>3, <1>4, <1>5, <1>6, <1>7 DEF Next, Rests

\* The inductive invariant, for any requests: the start's part and ep0's part.
THEOREM Invariance == Spec => []IInv
BY InitIInv, StepIInv, PTL DEF Spec

LEMMA TypeFollows == IInv => TypeOK
<1> SUFFICES ASSUME IInv PROVE TypeOK
    OBVIOUS
<1> USE DEF IInv, StartInv, ControlInv
<1>1. vxi \in 0 .. Len(VxiStep)
    BY VxiSteps
<1>2. {dir, mounted, queue, device, ep0, scpi, io, status} \subseteq BOOLEAN
    BY Zenon DEF Flags, ControlFlags
<1>3. open \subseteq DOMAIN Address /\ reset \subseteq DOMAIN Address
    BY DEF ControlType, Address
<1> QED BY <1>1, <1>2, <1>3 DEF TypeOK, InStartUp, Parts, ControlType

LEMMA FaultFollows == IInv => FaultIsContained
BY DEF IInv, StartInv, Behind, FaultIsContained

LEMMA AckFollows == IInv => AckMeansDone
BY DEF IInv, ControlInv

\* The variables keep their types, for every set of requests.
THEOREM TypeCorrect == Spec => []TypeOK
BY Invariance, TypeFollows, PTL

\* What a serving program lacks is missing because of a recorded failure.
THEOREM FaultContained == Spec => []FaultIsContained
BY Invariance, FaultFollows, PTL

\* SET_INTERFACE is acknowledged only when both endpoints were reset.
THEOREM AckHonest == Spec => []AckMeansDone
BY Invariance, AckFollows, PTL

-----------------------------------------------------------------------------
(* The strings: utf8_to_utf16le step by step.                                  *)

\* Induction over a set of numbers.
LEMMA SetInduction ==
  ASSUME NEW T, 0 \in T, \A n \in Nat : n \in T => n + 1 \in T
  PROVE  Nat \subseteq T
<1> DEFINE Less == {ij \in Nat \X Nat : ij[1] < ij[2]}
           Left == Nat \ T
<1>1. IsWellFoundedOn(Less, Nat)
    BY NatLessThanWellFounded DEF OpToRel
<1>2. SUFFICES ASSUME Left # {} PROVE FALSE
    OBVIOUS
<1>3. PICK x \in Left : \A y \in Left : ~ (<<y, x>> \in Less)
  <2>1. Left \subseteq Nat
      OBVIOUS
  <2> HIDE DEF Less, Left
  <2> QED BY <1>1, <1>2, <2>1, WFMin
<1>4. x - 1 \in Nat /\ x - 1 < x /\ x - 1 + 1 = x
    OBVIOUS
<1>5. x - 1 \in T
    BY <1>3, <1>4
<1> QED BY <1>4, <1>5

LEMMA ReadingUnrolled ==
  ASSUME NEW s, NEW len \in Nat
  PROVE  /\ Reading(s, len)[0] = [at |-> 1, units |-> <<>>]
         /\ \A i \in 0 .. len - 1 : Reading(s, len)[i + 1] = NextChar(s, Reading(s, len)[i])
<1> DEFINE zero == [at |-> 1, units |-> <<>>]
           More(r) == NextChar(s, r)
           Is(f, m) == f = [i \in 0 .. m |-> IF i = 0 THEN zero ELSE More(f[i - 1])]
           T == {m \in Nat : \E f : Is(f, m)}
<1>1. Reading(s, len) = CHOOSE f : Is(f, len)
    BY Zenon DEF Reading
<1> HIDE DEF More, zero
<1>2. 0 \in T
  <2>1. Is([i \in 0 .. 0 |-> zero], 0)
      OBVIOUS
  <2> QED BY <2>1
<1>3. ASSUME NEW m \in Nat, m \in T PROVE m + 1 \in T
  <2>1. PICK f : Is(f, m)
      BY <1>3
  <2> DEFINE g == [i \in 0 .. m + 1 |-> IF i = m + 1 THEN More(f[m]) ELSE f[i]]
  <2>2. ASSUME NEW i \in 0 .. m + 1
        PROVE  g[i] = IF i = 0 THEN zero ELSE More(g[i - 1])
    <3>1. CASE i = m + 1
        BY <3>1
    <3>2. CASE i \in 0 .. m
        BY <2>1, <3>2
    <3> QED BY <3>1, <3>2
  <2>3. Is(g, m + 1)
      BY <2>2
  <2> HIDE DEF g, Is
  <2> QED BY <2>3
<1>4. len \in T
  <2> HIDE DEF T
  <2> QED BY <1>2, <1>3, SetInduction
<1>5. Is(Reading(s, len), len)
  <2> HIDE DEF Is
  <2> QED BY <1>1, <1>4
<1>6. ASSUME NEW i \in 0 .. len - 1
      PROVE  Reading(s, len)[i + 1] = More(Reading(s, len)[i])
    BY <1>5
<1>7. Reading(s, len)[0] = zero
    BY <1>5
<1> QED BY Zenon, <1>6, <1>7 DEF More, zero

LEMMA WritingUnrolled ==
  ASSUME NEW t, Len(t) \in Nat
  PROVE  /\ Writing(t)[0] = <<>>
         /\ \A i \in 0 .. Len(t) - 1 : Writing(t)[i + 1] = Writing(t)[i] \o Utf8Char(t[i + 1])
<1> DEFINE len == Len(t)
           More(r, i) == r \o Utf8Char(t[i])
           Is(f, m) == f = [i \in 0 .. m |-> IF i = 0 THEN <<>> ELSE More(f[i - 1], i)]
           T == {m \in Nat : \E f : Is(f, m)}
<1>1. Writing(t) = CHOOSE f : Is(f, len)
    BY Zenon DEF Writing
<1> HIDE DEF More, len
<1>2. 0 \in T
  <2>1. Is([i \in 0 .. 0 |-> <<>>], 0)
      OBVIOUS
  <2> QED BY <2>1
<1>3. ASSUME NEW m \in Nat, m \in T PROVE m + 1 \in T
  <2>1. PICK f : Is(f, m)
      BY <1>3
  <2> DEFINE g == [i \in 0 .. m + 1 |-> IF i = m + 1 THEN More(f[m], m + 1) ELSE f[i]]
  <2>2. ASSUME NEW i \in 0 .. m + 1
        PROVE  g[i] = IF i = 0 THEN <<>> ELSE More(g[i - 1], i)
    <3>1. CASE i = m + 1
        BY <3>1
    <3>2. CASE i \in 0 .. m
        BY <2>1, <3>2
    <3> QED BY <3>1, <3>2
  <2>3. Is(g, m + 1)
      BY <2>2
  <2> HIDE DEF g, Is
  <2> QED BY <2>3
<1>4. len \in T
  <2>1. len \in Nat
      BY DEF len
  <2> HIDE DEF T
  <2> QED BY <1>2, <1>3, <2>1, SetInduction
<1>5. Is(Writing(t), len)
  <2> HIDE DEF Is
  <2> QED BY <1>1, <1>4
<1>6. len \in Nat
    BY DEF len
<1>7. ASSUME NEW i \in 0 .. len - 1
      PROVE  Writing(t)[i + 1] = More(Writing(t)[i], i + 1)
    BY <1>5, <1>6
<1>8. Writing(t)[0] = <<>>
    BY <1>5, <1>6
<1> QED BY Zenon, <1>7, <1>8 DEF More, len

\* What is read is a sequence, be it a text or Fail.
LEMMA ReadLength ==
  ASSUME NEW s, NEW len \in Nat
  PROVE  Len(utf8_to_utf16le(s, len)) \in Nat
<1> DEFINE U == {Char(s, i)[2] : i \in Nat} \union {-1}
           R == [at : Nat, units : Seq(U)]
           read == Reading(s, len)
           T == {m \in Nat : m <= len => read[m] \in R}
<1>1. \A i \in 0 .. len - 1 : read[i + 1] = NextChar(s, read[i])
    BY ReadingUnrolled
<1>10. read[0] = [at |-> 1, units |-> <<>>]
    BY ReadingUnrolled
<1>2. Fail \in Seq(U)
    BY DEF Fail
<1>3. ASSUME NEW i \in Nat, Char(s, i) # Fail
      PROVE  Char(s, i)[1] \in Nat /\ Char(s, i)[2] \in U
  <2>1. Char(s, i)[2] \in U
      OBVIOUS
  <2> DEFINE c == s[i]
             d == At(s, i + 1)
             e == At(s, i + 2)
             a1 == (c % 32) * 64 + (d % 64)
             a2 == (c % 16) * 4096 + (d % 64) * 64 + (e % 64)
  <2>2. Char(s, i) \in {<<1, c>>, <<2, a1>>, <<3, a2>>}
    <3> HIDE DEF c, d, e, a1, a2
    <3> QED BY <1>3 DEF Char, c, d, e, a1, a2
  <2> HIDE DEF c, a1, a2
  <2>3. \A x : <<1, x>>[1] = 1 /\ <<2, x>>[1] = 2 /\ <<3, x>>[1] = 3
      OBVIOUS
  <2> QED BY <2>1, <2>2, <2>3
<1>4. ASSUME NEW r \in R PROVE NextChar(s, r) \in R
  <2> DEFINE c == Char(s, r.at)
  <2>1. NextChar(s, r) = IF r.units = Fail \/ r.at > Len(s) THEN r
                         ELSE IF c = Fail THEN [r EXCEPT !.units = Fail]
                              ELSE [at |-> r.at + c[1], units |-> Append(r.units, c[2])]
      BY DEF NextChar
  <2>2. c # Fail => c[1] \in Nat /\ c[2] \in U
      BY <1>3
  <2> HIDE DEF c, U
  <2>3. [r EXCEPT !.units = Fail] \in R
      BY <1>2
  <2>4. c # Fail => [at |-> r.at + c[1], units |-> Append(r.units, c[2])] \in R
      BY <2>2
  <2> HIDE DEF R
  <2> QED BY <2>1, <2>3, <2>4
<1> HIDE DEF U, read
<1>5. 0 \in T
  <2>1. read[0] \in R
    <3>1. <<>> \in Seq(U)
        OBVIOUS
    <3> QED BY <1>10, <3>1
  <2> HIDE DEF R
  <2> QED BY <2>1
<1>6. ASSUME NEW m \in Nat, m \in T PROVE m + 1 \in T
  <2> HIDE DEF R
  <2> SUFFICES ASSUME m + 1 <= len PROVE read[m + 1] \in R
      OBVIOUS
  <2>1. m \in 0 .. len - 1 /\ m <= len
      OBVIOUS
  <2>2. read[m] \in R
      BY <1>6, <2>1
  <2>3. read[m + 1] = NextChar(s, read[m])
      BY <1>1, <2>1
  <2> QED BY <1>4, <2>2, <2>3
<1>7. read[len] \in R
  <2>1. len \in T
    <3> HIDE DEF T
    <3> QED BY <1>5, <1>6, SetInduction
  <2> QED BY <2>1
<1>8. read[len].units \in Seq(U)
    BY <1>7
<1>9. utf8_to_utf16le(s, len) = read[len].units
    BY DEF read, utf8_to_utf16le
<1> QED BY <1>8, <1>9

LEMMA SeqParts ==
  ASSUME NEW S, NEW t \in Seq(S)
  PROVE  Len(t) \in Nat /\ \A i \in 1 .. Len(t) : t[i] \in S
OBVIOUS

LEMMA Quotients ==
  ASSUME NEW u \in Nat
  PROVE  u \div 64 \in Nat /\ u \div 4096 \in Nat /\ u % 64 \in Nat /\ (u \div 64) % 64 \in Nat
<1>1. u \div 64 \in Nat
    OBVIOUS
<1>2. u \div 4096 \in Nat
    OBVIOUS
<1>3. \A n \in Nat : n % 64 \in Nat
    OBVIOUS
<1>4. (u \div 64) % 64 \in Nat /\ u % 64 \in Nat
    BY Zenon, <1>1, <1>3
<1> QED BY <1>1, <1>2, <1>4

LEMMA Utf8CharBytes ==
  ASSUME NEW u \in Unit
  PROVE  Utf8Char(u) \in Seq(Nat)
<1> DEFINE x == 192 + u \div 64
           y == 128 + (u % 64)
           z == 224 + u \div 4096
           v == 128 + ((u \div 64) % 64)
<1>1. u \in Nat
    BY DEF Unit
<1>2. x \in Nat /\ y \in Nat /\ z \in Nat /\ v \in Nat
    BY <1>1, Quotients
<1>3. Utf8Char(u) = IF u < 128 THEN <<u>> ELSE IF u < 2048 THEN <<x, y>> ELSE <<z, v, y>>
    BY DEF Utf8Char
<1> HIDE DEF x, y, z, v
<1> QED BY <1>1, <1>2, <1>3

LEMMA Utf8Length ==
  ASSUME NEW t \in Seq(Unit)
  PROVE  Len(Utf8(t)) \in Nat
<1> DEFINE w == Writing(t)
           T == {m \in Nat : m <= Len(t) => w[m] \in Seq(Nat)}
<1>1. Len(t) \in Nat /\ \A i \in 1 .. Len(t) : t[i] \in Unit
    BY SeqParts
<1>2. \A i \in 0 .. Len(t) - 1 : w[i + 1] = w[i] \o Utf8Char(t[i + 1])
    BY <1>1, WritingUnrolled
<1>10. w[0] = <<>>
    BY <1>1, WritingUnrolled
<1>3. \A u \in Unit : Utf8Char(u) \in Seq(Nat)
    BY Utf8CharBytes
<1> HIDE DEF w
<1>4. 0 \in T
  <2>1. <<>> \in Seq(Nat)
      OBVIOUS
  <2>2. w[0] \in Seq(Nat)
      BY Zenon, <1>10, <2>1
  <2> QED BY <2>2
<1>5. ASSUME NEW m \in Nat, m \in T PROVE m + 1 \in T
  <2> SUFFICES ASSUME m + 1 <= Len(t) PROVE w[m + 1] \in Seq(Nat)
      OBVIOUS
  <2>1. m \in 0 .. Len(t) - 1 /\ m + 1 \in 1 .. Len(t)
      BY <1>1
  <2> DEFINE A == w[m]
             B == Utf8Char(t[m + 1])
  <2>2. A \in Seq(Nat)
    <3>1. m \in Nat /\ m <= Len(t)
        BY <1>1, <2>1
    <3> QED BY <1>5, <3>1
  <2>4. B \in Seq(Nat)
      BY <1>1, <1>3, <2>1
  <2>3. w[m + 1] = A \o B
      BY <1>2, <2>1
  <2> HIDE DEF A, B
  <2> QED BY <2>2, <2>3, <2>4
<1>6. w[Len(t)] \in Seq(Nat)
  <2>1. Len(t) \in T
    <3> HIDE DEF T
    <3> QED BY <1>1, <1>4, <1>5, SetInduction
  <2> QED BY <2>1
<1> QED BY <1>6 DEF w, Utf8

\* A descriptor's text is a sequence, be it a text or Fail.
LEMMA StringLength ==
  ASSUME NEW t \in Seq(Unit)
  PROVE  Len(usb_gadget_get_string(Utf8(t))) \in Nat
<1> DEFINE len == IF Len(Utf8(t)) > MaxUnits THEN MaxUnits ELSE Len(Utf8(t))
<1>1. len \in Nat
    BY Utf8Length, MaxUnitsAssumption
<1> HIDE DEF len
<1>2. Len(utf8_to_utf16le(Utf8(t), len)) \in Nat
    BY <1>1, ReadLength
<1> QED BY <1>2 DEF usb_gadget_get_string, len

-----------------------------------------------------------------------------
(* The strings of ASCII characters.                                            *)

Low == 1 .. 127
Ascii(t) == t \in Seq(Low)

LEMMA OneMore ==
  ASSUME NEW S, NEW t \in Seq(S), NEW m \in 0 .. Len(t) - 1
  PROVE  /\ SubSeq(t, 1, m) \in Seq(S) /\ Len(SubSeq(t, 1, m)) = m
         /\ SubSeq(t, 1, m + 1) = Append(SubSeq(t, 1, m), t[m + 1])
         /\ SubSeq(t, 1, m + 1) = SubSeq(t, 1, m) \o <<t[m + 1]>>
<1> DEFINE A == SubSeq(t, 1, m)
           B == SubSeq(t, 1, m + 1)
           x == t[m + 1]
<1>1. Len(t) \in Nat /\ m \in Nat /\ x \in S
    OBVIOUS
<1>2. A \in Seq(S) /\ Len(A) = m /\ \A i \in 1 .. m : A[i] = t[i]
    BY <1>1
<1>3. B \in Seq(S) /\ Len(B) = m + 1 /\ \A i \in 1 .. m + 1 : B[i] = t[i]
    BY <1>1
<1> HIDE DEF A, B
<1>4. /\ Append(A, x) \in Seq(S) /\ Len(Append(A, x)) = m + 1
      /\ \A i \in 1 .. m + 1 : Append(A, x)[i] = t[i]
    BY <1>1, <1>2
<1>5. /\ A \o <<x>> \in Seq(S) /\ Len(A \o <<x>>) = m + 1
      /\ \A i \in 1 .. m + 1 : (A \o <<x>>)[i] = t[i]
    BY <1>1, <1>2
<1> DEFINE C == Append(A, x)
           D == A \o <<x>>
<1>6. B = C
  <2>1. C \in Seq(S) /\ Len(C) = m + 1 /\ \A i \in 1 .. m + 1 : C[i] = t[i]
      BY <1>4
  <2> HIDE DEF C
  <2> QED BY <1>1, <1>3, <2>1, SeqEqual
<1>7. B = D
  <2>1. D \in Seq(S) /\ Len(D) = m + 1 /\ \A i \in 1 .. m + 1 : D[i] = t[i]
      BY <1>5
  <2> HIDE DEF D
  <2> QED BY <1>1, <1>3, <2>1, SeqEqual
<1> QED BY Zenon, <1>2, <1>6, <1>7 DEF A, B, C, D, x

LEMMA WholeIs ==
  ASSUME NEW S, NEW t \in Seq(S)
  PROVE  SubSeq(t, 1, Len(t)) = t
<1> DEFINE w == SubSeq(t, 1, Len(t))
<1>1. w \in Seq(S) /\ Len(w) = Len(t) /\ Len(t) \in Nat /\ \A i \in 1 .. Len(t) : w[i] = t[i]
    OBVIOUS
<1> HIDE DEF w
<1>2. w = t
    BY <1>1, SeqEqual
<1> QED BY <1>2 DEF w

\* A character of 7 bits is one byte and one unit.
LEMMA LowIsByte ==
  ASSUME NEW u \in Low
  PROVE  u \in Nat /\ u < 128 /\ u # -1 /\ u \div 32 # 6 /\ u \div 16 # 14
<1>1. u \in Nat /\ u < 128 /\ u # -1
    BY DEF Low
<1>2. u \div 32 # 6
    BY <1>1
<1>3. u \div 16 # 14
    BY <1>1
<1> QED BY <1>1, <1>2, <1>3

LEMMA LowUtf8 ==
  ASSUME NEW u \in Low
  PROVE  Utf8Char(u) = <<u>>
<1>1. u < 128
    BY LowIsByte
<1> QED BY Zenon, <1>1 DEF Utf8Char

LEMMA LowChar ==
  ASSUME NEW s, NEW i, s[i] \in Low
  PROVE  Char(s, i) = <<1, s[i]>>
<1> DEFINE c == s[i]
           d == At(s, i + 1)
           e == At(s, i + 2)
           two   == (c % 32) * 64 + (d % 64)
           three == (c % 16) * 4096 + (d % 64) * 64 + (e % 64)
<1>1. Char(s, i) = CASE c < 128 -> <<1, c>>
                     [] c \div 32 = 6 /\ Continues(d) -> <<2, two>>
                     [] c \div 16 = 14 /\ Continues(d) /\ Continues(e) /\ ~Surrogate(three)
                          -> <<3, three>>
                     [] OTHER -> Fail
    BY Zenon DEF Char
<1>2. c < 128 /\ c \div 32 # 6 /\ c \div 16 # 14
    BY LowIsByte
<1> HIDE DEF c, d, e, two, three
<1> QED BY <1>1, <1>2 DEF c

LEMMA LowNotFail ==
  ASSUME NEW w \in Seq(Low)
  PROVE  w # Fail
<1> SUFFICES ASSUME w = Fail PROVE FALSE
    OBVIOUS
<1>1. Len(Fail) = 1 /\ Fail[1] = -1
    BY DEF Fail
<1>2. w[1] \in Low
  <2>1. 1 \in 1 .. Len(w)
      BY <1>1
  <2> QED BY <2>1, SeqParts
<1> QED BY <1>1, <1>2, LowIsByte

LEMMA AsciiUtf8 ==
  ASSUME NEW t, Ascii(t)
  PROVE  Utf8(t) = t
<1> DEFINE w == Writing(t)
           T == {m \in Nat : m <= Len(t) => w[m] = SubSeq(t, 1, m)}
<1>1. Len(t) \in Nat /\ \A i \in 1 .. Len(t) : t[i] \in Low
    BY SeqParts DEF Ascii
<1>2. \A i \in 0 .. Len(t) - 1 : w[i + 1] = w[i] \o Utf8Char(t[i + 1])
    BY <1>1, WritingUnrolled
<1>10. w[0] = <<>>
    BY <1>1, WritingUnrolled
<1> HIDE DEF w
<1>3. 0 \in T
  <2>1. SubSeq(t, 1, 0) = <<>>
      BY DEF Ascii
  <2> QED BY <1>10, <2>1
<1>4. ASSUME NEW m \in Nat, m \in T PROVE m + 1 \in T
  <2> SUFFICES ASSUME m + 1 <= Len(t) PROVE w[m + 1] = SubSeq(t, 1, m + 1)
      OBVIOUS
  <2>1. m \in 0 .. Len(t) - 1 /\ m + 1 \in 1 .. Len(t)
      BY <1>1
  <2>2. Utf8Char(t[m + 1]) = <<t[m + 1]>>
      BY <1>1, <2>1, LowUtf8
  <2>3. w[m] = SubSeq(t, 1, m)
      BY <1>1, <1>4, <2>1
  <2>4. SubSeq(t, 1, m + 1) = SubSeq(t, 1, m) \o <<t[m + 1]>>
      BY <2>1, OneMore DEF Ascii
  <2> QED BY Zenon, <1>2, <2>1, <2>2, <2>3, <2>4
<1>5. w[Len(t)] = SubSeq(t, 1, Len(t))
  <2>1. Len(t) \in T
    <3> HIDE DEF T
    <3> QED BY <1>1, <1>3, <1>4, SetInduction
  <2> QED BY <1>1, <2>1
<1> QED BY <1>5, WholeIs DEF w, Utf8, Ascii

LEMMA AsciiReading ==
  ASSUME NEW t, Ascii(t), NEW len \in 0 .. Len(t)
  PROVE  utf8_to_utf16le(t, len) = SubSeq(t, 1, len)
<1> DEFINE read == Reading(t, len)
           Is(i) == [at |-> i + 1, units |-> SubSeq(t, 1, i)]
           T == {m \in Nat : m <= len => read[m] = Is(m)}
<1>1. Len(t) \in Nat /\ len \in Nat /\ len <= Len(t) /\ \A i \in 1 .. Len(t) : t[i] \in Low
    BY DEF Ascii
<1>2. \A i \in 0 .. len - 1 : read[i + 1] = NextChar(t, read[i])
    BY <1>1, ReadingUnrolled
<1>10. read[0] = [at |-> 1, units |-> <<>>]
    BY <1>1, ReadingUnrolled
<1>3. ASSUME NEW m \in 0 .. len - 1 PROVE NextChar(t, Is(m)) = Is(m + 1)
  <2>1. m \in 0 .. Len(t) - 1 /\ m + 1 \in 1 .. Len(t) /\ ~(m + 1 > Len(t))
      BY <1>1
  <2> DEFINE A == SubSeq(t, 1, m)
             c == Char(t, m + 1)
  <2>2. c = <<1, t[m + 1]>> /\ c[1] = 1 /\ c[2] = t[m + 1]
    <3>1. t[m + 1] \in Low
        BY <1>1, <2>1
    <3>2. c = <<1, t[m + 1]>>
        BY <3>1, LowChar
    <3> HIDE DEF c
    <3> QED BY <3>2
  <2>3. A \in Seq(Low) /\ SubSeq(t, 1, m + 1) = Append(A, t[m + 1])
      BY <2>1, OneMore DEF Ascii
  <2> DEFINE r == Is(m)
  <2>4. r.at = m + 1 /\ r.units = A
      OBVIOUS
  <2> HIDE DEF A, c, r
  <2>5. A # Fail /\ c # Fail
    <3>1. Len(c) = 2 /\ Len(Fail) = 1
        BY <2>2 DEF Fail
    <3>2. c # Fail
        BY <3>1
    <3>3. A # Fail
        BY <2>3, LowNotFail
    <3> QED BY <3>2, <3>3
  <2>6. NextChar(t, r) = [at |-> m + 1 + 1, units |-> Append(A, t[m + 1])]
      BY <2>1, <2>2, <2>4, <2>5 DEF NextChar, c
  <2> QED BY Zenon, <2>3, <2>6 DEF r
<1> HIDE DEF read, Is
<1>4. 0 \in T
  <2>1. SubSeq(t, 1, 0) = <<>>
      BY DEF Ascii
  <2> QED BY <1>10, <2>1 DEF Is
<1>5. ASSUME NEW m \in Nat, m \in T PROVE m + 1 \in T
  <2> SUFFICES ASSUME m + 1 <= len PROVE read[m + 1] = Is(m + 1)
      OBVIOUS
  <2>1. m \in 0 .. len - 1
      BY <1>1
  <2> QED BY <1>2, <1>3, <1>5, <2>1
<1>6. read[len] = Is(len)
  <2>1. len \in T
    <3> HIDE DEF T
    <3> QED BY <1>1, <1>4, <1>5, SetInduction
  <2> QED BY <1>1, <2>1
<1> QED BY <1>6 DEF read, Is, utf8_to_utf16le

\* The text of the descriptor of an ASCII string is the string, cut to what the descriptor can
\* hold: the conversion of UTF-8 to UTF-16 in usb_gadget_get_string takes none of it wrong.
THEOREM AsciiString ==
  ASSUME NEW t, Ascii(t)
  PROVE  usb_gadget_get_string(Utf8(t)) = FirstUnits(t) /\ FirstUnits(t) # Fail
<1> DEFINE len == IF Len(t) > MaxUnits THEN MaxUnits ELSE Len(t)
           w == SubSeq(t, 1, len)
<1>1. len \in 0 .. Len(t) /\ Len(t) \in Nat
    BY MaxUnitsAssumption DEF Ascii
<1>2. usb_gadget_get_string(Utf8(t)) = w
  <2>1. usb_gadget_get_string(t) = utf8_to_utf16le(t, len)
      BY DEF usb_gadget_get_string
  <2> HIDE DEF len
  <2> QED BY <1>1, <2>1, AsciiUtf8, AsciiReading
<1>3. w = FirstUnits(t)
  <2>1. SubSeq(t, 1, Len(t)) = t
      BY WholeIs DEF Ascii
  <2> QED BY <2>1 DEF FirstUnits
<1>4. w # Fail
  <2> HIDE DEF len
  <2>1. w \in Seq(Low)
      BY <1>1 DEF Ascii
  <2> HIDE DEF w
  <2> QED BY <2>1, LowNotFail
<1> HIDE DEF w
<1> QED BY <1>2, <1>3, <1>4

-----------------------------------------------------------------------------
(* What ep0 answers.                                                           *)

\* Between the ioctls the request is still SET_INTERFACE.
StepType == step # "none" => setup.type = 1

AInv == IInv /\ StepType /\ AnswersFit

\* A request is answered with no data: there is nothing to say of the answer.
LEMMA NoData ==
  ASSUME setup' = setup, answer'.kind # "data"
  PROVE  AnswersFit'
BY DEF AnswersFit

LEMMA FittingAnswer ==
  ASSUME setup' = setup, NEW n, NEW text, Writes(n, text), n <= setup.length
  PROVE  AnswersFit'
<1> DEFINE a == [kind |-> "data", len |-> n, text |-> text]
<1>1. CASE ToHost(setup)
  <2>1. answer' = a
      BY <1>1 DEF Writes
  <2>2. answer'.len = n
      BY <2>1
  <2> QED BY <2>2 DEF AnswersFit
<1>2. CASE ~ ToHost(setup)
  <2>1. answer'.kind = "stall"
      BY <1>2 DEF Writes, Stall
  <2> QED BY <2>1, NoData
<1> QED BY <1>1, <1>2

\* The host's length bounds the answer, however long the text is.
LEMMA StringFits ==
  ASSUME setup' = setup, setup \in Request, NEW text, Len(text) \in Nat, AnswersString(text)
  PROVE  AnswersFit'
<1> DEFINE all == DescriptorLength(text)
           n == IF setup.length < all THEN setup.length ELSE all
<1>1. setup.length \in Nat /\ all \in Nat
    BY DEF Request, DescriptorLength
<1>2. n <= setup.length
  <2> HIDE DEF all
  <2> QED BY <1>1
<1>3. Writes(n, text)
    BY DEF AnswersString
<1> HIDE DEF n
<1> QED BY <1>2, <1>3, FittingAnswer

LEMMA SetupIsRequest ==
  ASSUME ControlInv, setup # None
  PROVE  setup \in Request
BY ControlAssumption DEF ControlInv, ControlType

LEMMA GetStringFits ==
  ASSUME ControlInv, GetString
  PROVE  AnswersFit'
<1>1. setup' = setup /\ setup # None /\ setup \in Request
    BY SetupIsRequest DEF GetString, Handles
<1> DEFINE id == setup.value % 256
           text == usb_gadget_get_string(Utf8(Text[id]))
<1>2. \/ Stalls \/ AnswersString(<<Language>>)
      \/ id \in DOMAIN Text /\ AnswersString(text)
      \/ AnswersString(Garbage)
    BY DEF GetString
<1> HIDE DEF id
<1>3. CASE Stalls
  <2>1. answer'.kind = "stall"
      BY <1>3, StallsKind
  <2> QED BY <1>1, <2>1, NoData
<1>4. CASE AnswersString(<<Language>>)
  <2>1. Len(<<Language>>) \in Nat
      OBVIOUS
  <2> QED BY <1>1, <1>4, <2>1, StringFits
<1>5. CASE id \in DOMAIN Text /\ AnswersString(text)
  <2>1. Text[id] \in Seq(Unit)
      BY <1>5, TextAssumption
  <2>2. Len(text) \in Nat
      BY <2>1, StringLength
  <2> HIDE DEF text
  <2> QED BY <1>1, <1>5, <2>2, StringFits
<1>6. CASE AnswersString(Garbage)
  <2>1. Len(Garbage) \in Nat
      BY TextAssumption
  <2> QED BY <1>1, <1>6, <2>1, StringFits
<1> QED BY <1>2, <1>3, <1>4, <1>5, <1>6

LEMMA ControlFits ==
  ASSUME ControlInv, StepType, AnswersFit, handle_control
  PROVE  AnswersFit' /\ StepType'
<1>1. setup' = setup
    BY DEF handle_control, TmcInterfaceRequest, TmcEndpointRequest, GetString, SetConfig, GetIntf,
           Unknown, RefuseIntf, SetIntf, ClearSource, ClearSink, ClearHalt, EndIntf, Handles
<1>2. StepType'
    BY <1>1 DEF StepType, handle_control, TmcInterfaceRequest, TmcEndpointRequest, GetString,
                SetConfig, GetIntf, Unknown, RefuseIntf, SetIntf, ClearSource, ClearSink,
                ClearHalt, EndIntf, Handles
<1>3. CASE TmcInterfaceRequest \/ TmcEndpointRequest
  <2>1. setup.type \in {161, 162}
      BY <1>3 DEF TmcInterfaceRequest, TmcEndpointRequest, Handles
  <2> QED BY <1>1, <1>2, <2>1 DEF AnswersFit, Standard
<1>4. CASE GetString
    BY <1>2, <1>4, GetStringFits
<1>5. CASE SetConfig
  <2>1. Reads \/ Stalls
      BY <1>5 DEF SetConfig
  <2>2. answer'.kind # "data"
      BY <2>1, ReadsKind, StallsKind
  <2> QED BY <1>1, <1>2, <2>2, NoData
<1>6. CASE GetIntf
  <2>1. setup.length <= setup.length
    <3>1. setup # None
        BY <1>6 DEF GetIntf, Handles
    <3>2. setup.length \in Nat
        BY <3>1, SetupIsRequest DEF Request
    <3> QED BY <3>2
  <2>2. Stalls \/ Writes(setup.length, <<>>)
      BY <1>6 DEF GetIntf
  <2>3. CASE Stalls
    <3>1. answer'.kind # "data"
        BY <2>3, StallsKind
    <3> QED BY <1>1, <1>2, <3>1, NoData
  <2>4. CASE Writes(setup.length, <<>>)
      BY <1>1, <1>2, <2>1, <2>4, FittingAnswer
  <2> QED BY <2>2, <2>3, <2>4
<1>7. CASE Unknown \/ RefuseIntf
  <2>1. Stalls
      BY <1>7 DEF Unknown, RefuseIntf
  <2>2. answer'.kind # "data"
      BY <2>1, StallsKind
  <2> QED BY <1>1, <1>2, <2>2, NoData
<1>8. CASE SetIntf \/ ClearSource \/ ClearSink
  <2>1. answer' = answer
      BY <1>8 DEF SetIntf, ClearSource, ClearSink, ClearHalt
  <2> QED BY <1>1, <1>2, <2>1 DEF AnswersFit
<1>9. CASE EndIntf
  <2>1. Reads \/ Stalls
      BY <1>9 DEF EndIntf
  <2>2. answer'.kind # "data"
      BY <2>1, ReadsKind, StallsKind
  <2> QED BY <1>1, <1>2, <2>2, NoData
<1> QED BY <1>3, <1>4, <1>5, <1>6, <1>7, <1>8, <1>9 DEF handle_control

\* The answer to a request is there until the host has it, and the next request waits.
Kept ==
  \/ setup' = setup /\ answer' = answer /\ step' = step
  \/ setup' = None /\ step' = "none"
  \/ answer' = None /\ step' = "none"

LEMMA OthersKeep ==
  ASSUME IInv, [Next]_vars
  PROVE  (ep0 /\ handle_control) \/ Kept
<1>1. ASSUME ControlUnlessEnded PROVE Kept
    BY <1>1 DEF ControlUnlessEnded, controlVars, Kept
<1>2. ASSUME HostHasAnswer PROVE Kept
  <2>1. setup' = None /\ step' = step /\ answer # None
      BY <1>2 DEF HostHasAnswer
  <2>2. step = "none"
      BY <2>1 DEF IInv, ControlInv, Ioctls
  <2> QED BY <2>1, <2>2 DEF Kept
<1>3. ASSUME NEW r \in Asked, HostAsks(r) PROVE Kept
  <2>1. setup = None /\ answer' = answer /\ step' = step
      BY <1>3 DEF HostAsks
  <2>2. answer = None /\ step = "none"
      BY <2>1 DEF IInv, ControlInv, Ioctls
  <2> QED BY <2>1, <2>2 DEF Kept
<1>4. CASE MainStep
    BY <1>1, <1>4 DEF MainStep
<1>5. CASE Ep0Step
    BY <1>1, <1>5 DEF Ep0Step
<1>6. CASE HostStep
    BY <1>2, <1>3, <1>6 DEF HostStep
<1>7. CASE IoStep \/ Rests \/ UNCHANGED vars
    BY <1>7 DEF IoStep, EndpointsChange, Rests, vars, controlVars, Kept
<1> QED BY <1>4, <1>5, <1>6, <1>7 DEF Next

LEMMA AInvSteps == AInv /\ [Next]_vars => AInv'
<1> SUFFICES ASSUME AInv, [Next]_vars PROVE AInv'
    OBVIOUS
<1>1. IInv'
    BY StepIInv DEF AInv
<1>2. CASE ep0 /\ handle_control
    BY <1>1, <1>2, ControlFits DEF AInv, IInv
<1>3. CASE Kept
    BY <1>1, <1>3 DEF AInv, Kept, StepType, AnswersFit
<1> QED BY <1>2, <1>3, OthersKeep DEF AInv

\* The answers of ep0 keep within the host's length, whatever its requests and the texts.
THEOREM AnswersFitAlways == Spec => []AnswersFit
<1>1. Init => StepType /\ AnswersFit
    BY DEF Init, ControlInit, StepType, AnswersFit
<1>2. AInv /\ [Next]_vars => AInv'
    BY AInvSteps
<1>3. Init => AInv
    BY <1>1, InitIInv DEF AInv
<1>4. AInv => AnswersFit
    BY DEF AInv
<1> QED BY <1>2, <1>3, <1>4, PTL DEF Spec

-----------------------------------------------------------------------------
(* The strings of the table.                                                   *)

\* stringtab's texts are ASCII, in both programs.
PlainTexts == \A id \in DOMAIN Text : Ascii(Text[id])

SInv == AInv /\ StringsAreText

LEMMA TextIsAnswered ==
  ASSUME PlainTexts, GetString, AsksForText'
  PROVE  StringsAreText'
<1> DEFINE id == setup.value % 256
           t == Text[id]
           text == usb_gadget_get_string(Utf8(t))
<1>1. setup' = setup
    BY DEF GetString, Handles
<1>2. /\ setup.type = 128 /\ setup.value \div 256 = StringDescriptor
      /\ setup.index = Language /\ id \in DOMAIN Text
    BY <1>1 DEF AsksForText
<1>3. id # 0
  <2> HIDE DEF id
  <2>1. DOMAIN Text \subseteq 1 .. 255
      BY TextAssumption
  <2>2. id \in 1 .. 255
      BY <1>2, <2>1
  <2> QED BY <2>2
<1>4. IF text = Fail THEN Stalls ELSE AnswersString(text)
  <2> HIDE DEF id
  <2>1. id = setup.value % 256
      BY DEF id
  <2> QED BY <1>2, <1>3, <2>1 DEF GetString
<1>5. text = FirstUnits(t) /\ text # Fail
  <2> HIDE DEF id
  <2> QED BY <1>2, AsciiString DEF PlainTexts
<1> HIDE DEF text
<1> DEFINE n == IF setup.length < DescriptorLength(text) THEN setup.length
                ELSE DescriptorLength(text)
<1>6. answer' = [kind |-> "data", len |-> n, text |-> text]
    BY <1>2, <1>4, <1>5 DEF AnswersString, Writes, ToHost
<1>7. n \in {setup.length, 2 + 2 * Len(text)}
    BY DEF DescriptorLength
<1> HIDE DEF n, t
<1>8. answer'.kind = "data" /\ answer'.text = FirstUnits(t) /\ answer'.len = n
    BY <1>5, <1>6
<1> QED BY <1>1, <1>5, <1>7, <1>8 DEF StringsAreText, t

\* No other branch of handle_control answers such a request.
LEMMA ControlStrings ==
  ASSUME PlainTexts, ControlInv, StepType, StringsAreText, handle_control
  PROVE  StringsAreText'
<1> SUFFICES ASSUME AsksForText' PROVE StringsAreText'
    BY DEF StringsAreText
<1>1. setup' = setup
    BY DEF handle_control, TmcInterfaceRequest, TmcEndpointRequest, GetString, SetConfig, GetIntf,
           Unknown, RefuseIntf, SetIntf, ClearSource, ClearSink, ClearHalt, EndIntf, Handles
<1>2. setup.type = 128 /\ setup.request = 6
    BY <1>1 DEF AsksForText, GetDescriptor
<1>3. CASE GetString
    BY <1>3, TextIsAnswered
<1>4. CASE TmcInterfaceRequest \/ TmcEndpointRequest
    BY <1>2, <1>4 DEF TmcInterfaceRequest, TmcEndpointRequest, Handles
<1>5. CASE SetConfig \/ GetIntf \/ Unknown \/ RefuseIntf
    BY <1>2, <1>5 DEF SetConfig, GetIntf, Unknown, RefuseIntf, Handles, GetDescriptor,
                      SetConfiguration, GetInterface, SetInterface
<1>6. CASE SetIntf \/ ClearSource \/ ClearSink \/ EndIntf
    BY <1>2, <1>6 DEF SetIntf, ClearSource, ClearSink, ClearHalt, EndIntf, StepType
<1> QED BY <1>3, <1>4, <1>5, <1>6 DEF handle_control

\* A device whose texts are ASCII answers each request for one with that text.
THEOREM AsciiStringsAreText ==
  ASSUME PlainTexts
  PROVE  Spec => []StringsAreText
<1>1. Init => AInv /\ StringsAreText
  <2>1. Init => IInv
      BY InitIInv
  <2>2. Init => StepType /\ AnswersFit /\ StringsAreText
      BY DEF Init, ControlInit, StepType, AnswersFit, StringsAreText, AsksForText
  <2> QED BY <2>1, <2>2 DEF AInv
<1>2. SInv /\ [Next]_vars => SInv'
  <2> SUFFICES ASSUME SInv, [Next]_vars PROVE SInv'
      OBVIOUS
  <2>1. AInv'
      BY AInvSteps DEF SInv
  <2>2. CASE ep0 /\ handle_control
      BY <2>1, <2>2, ControlStrings DEF SInv, AInv, IInv
  <2>3. CASE Kept
      BY <2>1, <2>3 DEF SInv, Kept, StringsAreText, AsksForText
  <2> QED BY <2>2, <2>3, OthersKeep DEF SInv, AInv
<1>3. Init => SInv
    BY <1>1 DEF SInv
<1>4. SInv => StringsAreText
    BY DEF SInv
<1> QED BY <1>2, <1>3, <1>4, PTL DEF Spec

-----------------------------------------------------------------------------
(* The descriptors.                                                            *)

LEMMA OffsetsUnrolled ==
  ASSUME NEW buf, Len(buf) \in Nat
  PROVE  /\ Offsets(buf)[1] = 0
         /\ \A i \in 1 .. Len(buf) : Offsets(buf)[i + 1] = Offsets(buf)[i] + Size[buf[i].type]
<1> DEFINE len == Len(buf)
           More(n, i) == n + Size[buf[i].type]
           Is(f, m) == f = [i \in 1 .. m + 1 |-> IF i = 1 THEN 0 ELSE More(f[i - 1], i - 1)]
           T == {m \in Nat : \E f : Is(f, m)}
<1>1. Offsets(buf) = CHOOSE f : Is(f, len)
    BY Zenon DEF Offsets
<1> HIDE DEF More
<1>2. 0 \in T
  <2>1. Is([i \in 1 .. 1 |-> 0], 0)
      OBVIOUS
  <2> QED BY <2>1
<1>3. ASSUME NEW m \in Nat, m \in T PROVE m + 1 \in T
  <2>1. PICK f : Is(f, m)
      BY <1>3
  <2> DEFINE g == [i \in 1 .. m + 2 |-> IF i = m + 2 THEN More(f[m + 1], m + 1) ELSE f[i]]
  <2>2. ASSUME NEW i \in 1 .. m + 2
        PROVE  g[i] = IF i = 1 THEN 0 ELSE More(g[i - 1], i - 1)
    <3>1. CASE i = m + 2
        BY <3>1
    <3>2. CASE i \in 1 .. m + 1
        BY <2>1, <3>2
    <3> QED BY <3>1, <3>2
  <2>3. Is(g, m + 1)
      BY <2>2
  <2> HIDE DEF g, Is
  <2> QED BY <2>3
<1>4. len \in T
  <2> HIDE DEF T
  <2> QED BY <1>2, <1>3, SetInduction
<1>5. Is(Offsets(buf), len)
  <2> HIDE DEF Is
  <2> QED BY <1>1, <1>4
<1>6. ASSUME NEW i \in 1 .. len
      PROVE  Offsets(buf)[i + 1] = More(Offsets(buf)[i], i)
    BY <1>5
<1>7. Offsets(buf)[1] = 0
    BY <1>5
<1> QED BY Zenon, <1>6, <1>7 DEF More

Part == {Tag, Device, Interface, Config, Endpoint("source"), Endpoint("sink"), Status}

LEMMA FirstTwo ==
  ASSUME NEW S, NEW s, \A k \in 1 .. 2 : s[k] \in S
  PROVE  /\ SubSeq(s, 1, 2) \in Seq(S) /\ Len(SubSeq(s, 1, 2)) = 2
         /\ SubSeq(s, 1, 2)[1] = s[1] /\ SubSeq(s, 1, 2)[2] = s[2]
<1>1. /\ SubSeq(s, 1, 2) \in Seq(S) /\ Len(SubSeq(s, 1, 2)) = (IF 1 <= 2 THEN 2 - 1 + 1 ELSE 0)
      /\ \A i \in 1 .. 2 - 1 + 1 : SubSeq(s, 1, 2)[i] = s[1 + i - 1]
    BY SubSeqProperties
<1> QED BY <1>1

\* A configuration: 9 bytes, an interface of 9, two endpoints of 7.
LEMMA OneConfig ==
  /\ build_config(fs_eps) \in Seq(Part) /\ Len(build_config(fs_eps)) = 4
  /\ build_config(fs_eps)[1] = Config /\ build_config(fs_eps)[2] = Interface
  /\ build_config(fs_eps)[3] = Endpoint("source") /\ build_config(fs_eps)[4] = Endpoint("sink")
<1> DEFINE head == <<Interface>>
           tail == SubSeq(fs_eps, 1, 2)
           body == head \o tail
           o == Offsets(body)
<1>1. /\ tail \in Seq(Part) /\ Len(tail) = 2
      /\ tail[1] = Endpoint("source") /\ tail[2] = Endpoint("sink")
  <2>1. fs_eps[1] = Endpoint("source") /\ fs_eps[2] = Endpoint("sink")
      BY DEF fs_eps
  <2>2. \A k \in 1 .. 2 : fs_eps[k] \in Part
    <3> HIDE DEF fs_eps
    <3> QED BY <2>1 DEF Part
  <2> HIDE DEF Part, fs_eps
  <2>3. tail \in Seq(Part) /\ Len(tail) = 2 /\ tail[1] = fs_eps[1] /\ tail[2] = fs_eps[2]
      BY <2>2, FirstTwo
  <2> HIDE DEF tail
  <2> QED BY <2>1, <2>3
<1>2. head \in Seq(Part) /\ Len(head) = 1 /\ head[1] = Interface
  <2>1. Interface \in Part
      BY DEF Part
  <2> HIDE DEF Part
  <2> QED BY <2>1
<1> HIDE DEF head, tail
<1>3. /\ body \in Seq(Part) /\ Len(body) = 3
      /\ body[1] = Interface /\ body[2] = Endpoint("source") /\ body[3] = Endpoint("sink")
  <2>1. /\ body \in Seq(Part) /\ Len(body) = Len(head) + Len(tail)
        /\ \A k \in 1 .. Len(head) + Len(tail) :
             body[k] = IF k <= Len(head) THEN head[k] ELSE tail[k - Len(head)]
      BY <1>1, <1>2, ConcatProperties, Zenon
  <2> HIDE DEF body
  <2> QED BY <1>1, <1>2, <2>1
<1>4. Bytes(body) = 23
  <2> HIDE DEF body
  <2>1. /\ body[1].type = "interface" /\ body[2].type = "endpoint"
        /\ body[3].type = "endpoint"
      BY <1>3 DEF Interface, Endpoint
  <2>2. Len(body) \in Nat
      BY <1>3
  <2>3. o[1] = 0 /\ \A k \in 1 .. Len(body) : o[k + 1] = o[k] + Size[body[k].type]
      BY <2>2, OffsetsUnrolled
  <2> HIDE DEF o
  <2>4. /\ o[1] = 0 /\ o[1 + 1] = o[1] + Size[body[1].type]
        /\ o[2 + 1] = o[2] + Size[body[2].type] /\ o[3 + 1] = o[3] + Size[body[3].type]
      BY <1>3, <2>3
  <2>5. o[4] = 23
      BY <2>1, <2>4 DEF Size
  <2> QED BY <1>3, <2>5 DEF Bytes, o
<1>5. build_config(fs_eps) = <<Config>> \o body
  <2>1. Size.config + Bytes(body) = 32
      BY <1>4 DEF Size
  <2>2. [Config EXCEPT !.wTotalLength = 32] = Config
      BY DEF Config
  <2>3. Interface.bNumEndpoints = 2
      BY DEF Interface
  <2> QED BY Zenon, <2>1, <2>2, <2>3 DEF build_config, body, head, tail
<1> DEFINE first == <<Config>>
<1>6. first \in Seq(Part) /\ Len(first) = 1 /\ first[1] = Config
  <2>1. Config \in Part
      BY DEF Part
  <2> HIDE DEF Part
  <2> QED BY <2>1
<1> HIDE DEF first, body
<1> DEFINE all == first \o body
<1>7. /\ all \in Seq(Part) /\ Len(all) = Len(first) + Len(body)
      /\ \A k \in 1 .. Len(first) + Len(body) :
           all[k] = IF k <= Len(first) THEN first[k] ELSE body[k - Len(first)]
    BY <1>3, <1>6, ConcatProperties, Zenon
<1>8. build_config(fs_eps) = all
    BY <1>5 DEF first
<1> HIDE DEF all
<1> QED BY <1>3, <1>6, <1>7, <1>8

\* u is s, of length a, followed by t, of length b.
Joins(u, s, t, a, b) ==
  /\ Len(u) = a + b
  /\ \A i \in 1 .. a : u[i] = s[i]
  /\ \A i \in 1 .. b : u[a + i] = t[i]

LEMMA Concat ==
  ASSUME NEW S, NEW s \in Seq(S), NEW t \in Seq(S), NEW a \in Nat, NEW b \in Nat,
         Len(s) = a, Len(t) = b
  PROVE  s \o t \in Seq(S) /\ Joins(s \o t, s, t, a, b)
<1>1. /\ s \o t \in Seq(S) /\ Len(s \o t) = Len(s) + Len(t)
      /\ \A i \in 1 .. Len(s) + Len(t) :
           (s \o t)[i] = IF i <= Len(s) THEN s[i] ELSE t[i - Len(s)]
    BY ConcatProperties
<1> DEFINE u == s \o t
<1> HIDE DEF u
<1>2. ASSUME NEW i \in 1 .. a PROVE u[i] = s[i]
    BY <1>1 DEF u
<1>3. ASSUME NEW i \in 1 .. b PROVE u[a + i] = t[i]
  <2>1. a + i \in 1 .. a + b /\ ~ (a + i <= a) /\ a + i - a = i
      OBVIOUS
  <2> QED BY <1>1, <2>1 DEF u
<1>4. u \in Seq(S) /\ Len(u) = a + b
    BY <1>1 DEF u
<1>5. Joins(u, s, t, a, b)
    BY <1>2, <1>3, <1>4 DEF Joins
<1> QED BY <1>4, <1>5 DEF u

\* What the parts of init_device's buffer are.
Layout ==
  /\ Len(Descriptors) = 10
  /\ Descriptors[1] = Tag /\ Descriptors[10] = Device
  /\ \A i \in {2, 6} :
       /\ Descriptors[i] = Config /\ Descriptors[i + 1] = Interface
       /\ Descriptors[i + 2] = Endpoint("source") /\ Descriptors[i + 3] = Endpoint("sink")

LEMMA BufferIs == Descriptors \in Seq(Part) /\ Layout
<1> DEFINE b == build_config(fs_eps)
           tag == <<Tag>>
           device1 == <<Device>>
           x == tag \o b
           y == x \o b
           z == y \o device1
<1>1. Descriptors = z
    BY DEF Descriptors, hs_eps
<1>2. b \in Seq(Part) /\ Len(b) = 4
    BY OneConfig
<1>3. tag \in Seq(Part) /\ Len(tag) = 1 /\ tag[1] = Tag
  <2>1. Tag \in Part
      BY DEF Part
  <2> HIDE DEF Part
  <2> QED BY <2>1
<1>4. device1 \in Seq(Part) /\ Len(device1) = 1 /\ device1[1] = Device
  <2>1. Device \in Part
      BY DEF Part
  <2> HIDE DEF Part
  <2> QED BY <2>1
<1>5. b[1] = Config /\ b[2] = Interface /\ b[3] = Endpoint("source") /\ b[4] = Endpoint("sink")
    BY OneConfig
<1> HIDE DEF b, tag, device1
<1>6. x \in Seq(Part) /\ Joins(x, tag, b, 1, 4)
    BY <1>2, <1>3, Concat
<1>7. Len(x) = 5 /\ x[1] = tag[1] /\ \A i \in 1 .. 4 : x[1 + i] = b[i]
    BY <1>6 DEF Joins
<1> HIDE DEF x
<1>8. y \in Seq(Part) /\ Joins(y, x, b, 5, 4)
    BY <1>2, <1>6, <1>7, Concat
<1>9. Len(y) = 9 /\ (\A i \in 1 .. 5 : y[i] = x[i]) /\ (\A i \in 1 .. 4 : y[5 + i] = b[i])
    BY <1>8 DEF Joins
<1> HIDE DEF y
<1>10. z \in Seq(Part) /\ Joins(z, y, device1, 9, 1)
    BY <1>4, <1>8, <1>9, Concat
<1> HIDE DEF z
<1>11. Len(z) = 10 /\ (\A i \in 1 .. 9 : z[i] = y[i]) /\ z[10] = device1[1]
  <2>1. z[9 + 1] = device1[1]
      BY <1>10 DEF Joins
  <2> QED BY <1>10, <2>1 DEF Joins
<1>12. z[1] = Tag /\ z[10] = Device
    BY <1>3, <1>4, <1>7, <1>9, <1>11
<1>13. /\ z[2] = Config /\ z[2 + 1] = Interface
       /\ z[2 + 2] = Endpoint("source") /\ z[2 + 3] = Endpoint("sink")
    BY <1>5, <1>7, <1>9, <1>11
<1>14. /\ z[6] = Config /\ z[6 + 1] = Interface
       /\ z[6 + 2] = Endpoint("source") /\ z[6 + 3] = Endpoint("sink")
    BY <1>5, <1>9, <1>11
<1> QED BY <1>1, <1>10, <1>11, <1>12, <1>13, <1>14 DEF Layout

LEMMA Domain == DOMAIN Descriptors = 1 .. 10
<1>1. DOMAIN Descriptors = 1 .. Len(Descriptors)
    BY BufferIs, LenProperties
<1> QED BY <1>1, BufferIs DEF Layout

LEMMA TypesAre ==
  /\ Descriptors[1].type = "tag" /\ Descriptors[10].type = "device"
  /\ Descriptors[2].type = "config" /\ Descriptors[6].type = "config"
  /\ Descriptors[3].type = "interface" /\ Descriptors[7].type = "interface"
  /\ \A i \in {4, 5, 8, 9} : Descriptors[i].type = "endpoint"
<1> DEFINE d == Descriptors
<1> HIDE DEF d
<1>1. /\ d[1].type = "tag" /\ d[10].type = "device"
      /\ \A i \in {2, 6} :
           /\ d[i].type = "config" /\ d[i + 1].type = "interface"
           /\ d[i + 2].type = "endpoint" /\ d[i + 3].type = "endpoint"
    BY BufferIs DEF Layout, Tag, Config, Interface, Endpoint, Device, d
<1>2. /\ d[2 + 1] = d[3] /\ d[2 + 2] = d[4] /\ d[2 + 3] = d[5]
      /\ d[6 + 1] = d[7] /\ d[6 + 2] = d[8] /\ d[6 + 3] = d[9]
    OBVIOUS
<1>3. /\ d[2].type = "config" /\ d[3].type = "interface"
      /\ d[4].type = "endpoint" /\ d[5].type = "endpoint"
    BY <1>1, <1>2
<1>4. /\ d[6].type = "config" /\ d[7].type = "interface"
      /\ d[8].type = "endpoint" /\ d[9].type = "endpoint"
    BY <1>1, <1>2
<1> QED BY <1>1, <1>3, <1>4 DEF d

\* Where they begin.
LEMMA PlacesAre ==
  LET o == Offsets(Descriptors)
  IN /\ o[1] = 0 /\ o[2] = 4 /\ o[3] = 13 /\ o[4] = 22 /\ o[5] = 29 /\ o[6] = 36
     /\ o[7] = 45 /\ o[8] = 54 /\ o[9] = 61 /\ o[10] = 68 /\ o[11] = 86
<1> DEFINE d == Descriptors
           o == Offsets(d)
<1>1. Len(d) = 10
    BY BufferIs DEF Layout
<1>2. /\ Size["tag"] = 4 /\ Size["device"] = 18 /\ Size["config"] = 9
      /\ Size["interface"] = 9 /\ Size["endpoint"] = 7
    BY DEF Size
<1>3. /\ d[1].type = "tag" /\ d[10].type = "device"
      /\ d[2].type = "config" /\ d[6].type = "config"
      /\ d[3].type = "interface" /\ d[7].type = "interface"
      /\ \A i \in {4, 5, 8, 9} : d[i].type = "endpoint"
    BY TypesAre
<1> HIDE DEF d
<1>4. o[1] = 0 /\ \A i \in 1 .. Len(d) : o[i + 1] = o[i] + Size[d[i].type]
  <2>1. Len(d) \in Nat
      BY <1>1
  <2> QED BY <2>1, OffsetsUnrolled
<1> HIDE DEF o
<1>5. /\ o[1 + 1] = o[1] + 4 /\ o[2 + 1] = o[2] + 9 /\ o[3 + 1] = o[3] + 9
      /\ o[4 + 1] = o[4] + 7 /\ o[5 + 1] = o[5] + 7
    BY <1>1, <1>2, <1>3, <1>4
<1>6. /\ o[6 + 1] = o[6] + 9 /\ o[7 + 1] = o[7] + 9 /\ o[8 + 1] = o[8] + 7
      /\ o[9 + 1] = o[9] + 7 /\ o[10 + 1] = o[10] + 18
    BY <1>1, <1>2, <1>3, <1>4
<1>7. o[2] = 4 /\ o[3] = 13 /\ o[4] = 22 /\ o[5] = 29 /\ o[6] = 36
    BY <1>4, <1>5
<1>8. o[7] = 45 /\ o[8] = 54 /\ o[9] = 61 /\ o[10] = 68 /\ o[11] = 86
    BY <1>6, <1>7
<1> QED BY <1>4, <1>7, <1>8 DEF d, o

LEMMA PairSize ==
  ASSUME NEW a, NEW b, a # b
  PROVE  Cardinality({a, b}) = 2
<1>1. IsFiniteSet({a}) /\ Cardinality({a}) = 1
    BY FS_Singleton
<1>2. {a, b} = {a} \union {b} /\ b \notin {a}
    OBVIOUS
<1> QED BY <1>1, <1>2, FS_AddElement

\* A configuration whose end is where position n begins, with n the next one or the device.
LEMMA Complete ==
  ASSUME NEW i \in {2, 6}, NEW n \in {6, 10}, n = i + 4
  PROVE  ConfigComplete(Descriptors, i)
<1> DEFINE d == Descriptors
           o == Offsets(d)
           end == o[i] + d[i].wTotalLength
           parts == {k \in DOMAIN d : k > i /\ o[k] < end}
           eps == {k \in parts : d[k].type = "endpoint"}
           itf == CHOOSE k \in parts : d[k].type = "interface"
<1>1. DOMAIN d = 1 .. 10
    BY Domain
<1>2. /\ o[1] = 0 /\ o[2] = 4 /\ o[3] = 13 /\ o[4] = 22 /\ o[5] = 29 /\ o[6] = 36
      /\ o[7] = 45 /\ o[8] = 54 /\ o[9] = 61 /\ o[10] = 68 /\ o[11] = 86
    BY PlacesAre
<1>3. /\ d[1].type = "tag" /\ d[10].type = "device"
      /\ d[2].type = "config" /\ d[6].type = "config"
      /\ d[3].type = "interface" /\ d[7].type = "interface"
      /\ \A k \in {4, 5, 8, 9} : d[k].type = "endpoint"
    BY TypesAre
<1>4. /\ d[i] = Config /\ d[i + 1] = Interface
      /\ d[i + 2] = Endpoint("source") /\ d[i + 3] = Endpoint("sink")
    BY BufferIs DEF Layout
<1> HIDE DEF d, o
<1>5. end = o[n]
  <2>1. d[i].wTotalLength = 32
      BY <1>4 DEF Config
  <2>2. (i = 2 /\ n = 6) \/ (i = 6 /\ n = 10)
      OBVIOUS
  <2> QED BY <1>2, <2>1, <2>2
<1>6. parts = {i + 1, i + 2, i + 3}
  <2>1. CASE i = 2 /\ n = 6
    <3>1. parts = {k \in 1 .. 10 : k > 2 /\ o[k] < 36}
        BY <1>1, <1>2, <1>5, <2>1
    <3>2. \A k \in 1 .. 10 : k > 2 /\ o[k] < 36 <=> k \in {3, 4, 5}
        BY <1>2
    <3> QED BY <2>1, <3>1, <3>2
  <2>2. CASE i = 6 /\ n = 10
    <3>1. parts = {k \in 1 .. 10 : k > 6 /\ o[k] < 68}
        BY <1>1, <1>2, <1>5, <2>2
    <3>2. \A k \in 1 .. 10 : k > 6 /\ o[k] < 68 <=> k \in {7, 8, 9}
        BY <1>2
    <3> QED BY <2>2, <3>1, <3>2
  <2>3. (i = 2 /\ n = 6) \/ (i = 6 /\ n = 10)
      OBVIOUS
  <2> QED BY <2>1, <2>2, <2>3
<1> HIDE DEF end, parts
<1>7. /\ d[i + 1].type = "interface" /\ d[i + 2].type = "endpoint"
      /\ d[i + 3].type = "endpoint"
    BY <1>4 DEF Interface, Endpoint
<1>8. eps = {i + 2, i + 3}
    BY <1>6, <1>7
<1> HIDE DEF eps
<1>9. Cardinality(eps) = 2
  <2>1. i + 2 # i + 3
      OBVIOUS
  <2> QED BY <1>8, <2>1, PairSize
<1>10. itf = i + 1
    BY <1>6, <1>7 DEF itf
<1> HIDE DEF itf
<1>11. Cardinality(eps) = d[itf].bNumEndpoints
  <2>1. Interface.bNumEndpoints = 2
      BY DEF Interface
  <2> QED BY <1>4, <1>9, <1>10, <2>1
<1>12. {d[k].bEndpointAddress : k \in eps} = {Address[e] : e \in DOMAIN Address}
  <2>1. /\ d[i + 2].bEndpointAddress = Address["source"]
        /\ d[i + 3].bEndpointAddress = Address["sink"]
      BY <1>4 DEF Endpoint
  <2>2. DOMAIN Address = {"source", "sink"}
      BY DEF Address
  <2> HIDE DEF Address
  <2> QED BY <1>8, <2>1, <2>2
<1>13. \E type \in {"config", "device"} : FoundAt(d, type, end)
  <2>1. n \in DOMAIN d /\ d[n].type \in {"config", "device"} /\ o[n] = end
      BY <1>1, <1>3, <1>5
  <2> QED BY <2>1 DEF FoundAt, o
<1>14. \E k \in parts : d[k].type = "interface"
    BY <1>6, <1>7
<1> QED BY Zenon, <1>11, <1>12, <1>13, <1>14 DEF ConfigComplete, d, o, end, parts, eps, itf

\* init_device's buffer, given texts for the strings that it names.
LEMMA GoodBuffer ==
  ASSUME 1 .. 5 \subseteq DOMAIN Text
  PROVE  BufferIsGood
<1> DEFINE d == Descriptors
<1>1. DOMAIN d = 1 .. 10 /\ Len(d) = 10
    BY Domain, BufferIs DEF Layout
<1>2. {i \in DOMAIN d : d[i].type = "config"} = {2, 6}
  <2>1. /\ d[1].type = "tag" /\ d[10].type = "device"
        /\ d[2].type = "config" /\ d[6].type = "config"
        /\ d[3].type = "interface" /\ d[7].type = "interface"
        /\ \A i \in {4, 5, 8, 9} : d[i].type = "endpoint"
      BY TypesAre
  <2> HIDE DEF d
  <2> QED BY <1>1, <2>1
<1>3. Cardinality({i \in DOMAIN d : d[i].type = "config"}) = 2
  <2>1. 2 # 6
      OBVIOUS
  <2>2. Cardinality({2, 6}) = 2
      BY <2>1, PairSize
  <2> QED BY Zenon, <1>2, <2>2
<1>4. ConfigComplete(d, 2) /\ ConfigComplete(d, 6)
    BY Complete
<1>5. FoundAt(d, "device", Bytes(d) - Size.device)
  <2>1. Offsets(d)[10] = 68 /\ Offsets(d)[11] = 86 /\ d[10].type = "device"
      BY PlacesAre, TypesAre
  <2>2. Size.device = 18
      BY DEF Size
  <2> HIDE DEF d
  <2>3. Bytes(d) - Size.device = Offsets(d)[10]
      BY <1>1, <2>1, <2>2 DEF Bytes
  <2> QED BY <1>1, <2>1, <2>3 DEF FoundAt
<1>6. Accepted(d)
  <2> HIDE DEF d
  <2> QED BY <1>2, <1>3, <1>4, <1>5 DEF Accepted
<1>7. \A e \in DOMAIN Address : FileOf(Address[e]) = EpName[e]
    BY DEF Address, EpName, FileOf
<1>8. \A i \in DOMAIN d : d[i].strings \subseteq DOMAIN Text
  <2>1. \A p \in Part : p.strings \subseteq 1 .. 5
      BY DEF Part, Tag, Device, Interface, Config, Endpoint, Status
  <2>2. \A i \in DOMAIN d : d[i] \in Part
      BY <1>1, BufferIs, ElementOfSeq
  <2> HIDE DEF d
  <2> QED BY <2>1, <2>2
<1> QED BY <1>6, <1>7, <1>8 DEF BufferIsGood

\* gadgetfs can take the buffer of init_device apart, as soon as the device is there.
THEOREM DescriptorsGood ==
  ASSUME 1 .. 5 \subseteq DOMAIN Text
  PROVE  Spec => []DescriptorsAccepted
<1>1. BufferIsGood
    BY GoodBuffer
<1>2. DescriptorsAccepted
    BY <1>1 DEF DescriptorsAccepted
<1> QED BY <1>2, PTL
=============================================================================
