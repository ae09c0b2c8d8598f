----------------------------- MODULE UsbTestProofs -----------------------------
(* That usbtest runs what its command line asks for and waits for the tests it   *)
(* has begun, for any devices, options and number of cases.                      *)
EXTENDS UsbTest, FiniteSetTheorems, SequenceTheorems, TLAPS

Place == {"options", "ftw", "start", "single", "join", "end", "crashed"}
HowFar == {"none", "open", "running", "not created", "not opened", "ended"}
Busy(f) == thread[f] \in {"open", "running"}

OptionsType == argv \in Argv /\ args \in Seq(Range(argv)) /\ test \in Int
DeviceType == device \in File \union {None} /\ (pc = "single" => device # None)
FlagsType == all \in BOOLEAN /\ not \in BOOLEAN /\ forever \in BOOLEAN
ListType ==
  /\ left \subseteq File /\ testdevs \in Seq(File) /\ entry \in 1 .. Len(testdevs) + 1
  /\ Len(testdevs) + Cardinality(left) <= Cardinality(File)
  /\ pc \in {"options", "ftw"} => entry = 1
TestsType == thread \in [File -> HowFar] /\ case \in [File -> 0 .. TestCases]

Types ==
  pc \in Place /\ OptionsType /\ DeviceType /\ FlagsType /\ ListType /\ TestsType

\* The tests that can have begun, by the place of main.
Begun ==
  /\ pc \in {"options", "ftw"} => \A f \in File : thread[f] = "none"
  /\ pc = "start" =>
       \A f \in File : thread[f] # "none" =>
         device = None /\ \E i \in 1 .. Len(testdevs) : i < entry /\ testdevs[i] = f
  /\ pc = "single" => \A f \in File : f # device => thread[f] = "none"
  /\ pc = "join" =>
       \A f \in File : thread[f] # "none" => \E i \in 1 .. Len(testdevs) : testdevs[i] = f

\* The ones that main has waited for.
Joined ==
  pc = "join" => \A i \in 1 .. Len(testdevs) : i < entry => ~Busy(testdevs[i])

\* The options read so far, and those left, are the command line; none of them can
\* ask for a loop.
Read == Len(argv) - Len(args)
ArgsLeft ==
  /\ Read \in 0 .. Len(argv)
  /\ \A i \in 1 .. Len(args) : args[i] = argv[Read + i]
  /\ pc \notin {"options", "end", "crashed"} => args = <<>>
  /\ forever = FALSE /\ test >= -1

\* The option at i is the last of the first n about the devices, and it is a -D.
Names(i, n) == argv[i][1] = "D" /\ \A j \in 1 .. n : j > i => argv[j][1] \notin {"a", "D"}

\* What the options read so far have left behind.
Heeded ==
  pc \in {"options", "ftw"} =>
    \A i \in 1 .. Read :
      /\ argv[i][1] = "n" => not = TRUE
      /\ Names(i, Read) => device = argv[i][2]

\* No test without a command line that asks for it, and with a device named, its only.
Asked ==
  /\ (pc \in {"start", "single", "join"} \/ \E f \in File : thread[f] # "none") =>
       \A i \in 1 .. Len(argv) :
         argv[i][1] # "n" /\ (Names(i, Len(argv)) => device = argv[i][2])
  /\ pc = "join" => device = None
  /\ device # None => \A f \in File : thread[f] # "none" => f = device

\* A file is visited once.
VisitedOnce ==
  \A i \in 1 .. Len(testdevs) :
    testdevs[i] \notin left /\ \A j \in 1 .. Len(testdevs) : j # i => testdevs[j] # testdevs[i]

\* The cases below n that the options chose.
ChosenBelow(n) == IF test = -1 THEN [i \in 1 .. n |-> i - 1]
                  ELSE IF test < n THEN <<test>> ELSE <<>>
CasesSoFar ==
  \A f \in File :
    /\ ran[f] = ChosenBelow(case[f])
    /\ thread[f] \notin {"running", "ended"} => case[f] = 0
    /\ thread[f] = "ended" => case[f] = TestCases

Asking ==
  ArgsLeft /\ Heeded /\ Asked /\ VisitedOnce /\ ran \in [File -> Seq(Int)] /\ CasesSoFar

IInv == Types /\ Begun /\ Joined /\ ThreadsAreJoined

LEMMA InitIInv == Init => IInv
<1> SUFFICES ASSUME Init PROVE IInv
    OBVIOUS
<1> USE DEF Init
<1>1. OptionsType /\ DeviceType
    BY UsbTestAssumption DEF OptionsType, DeviceType
<1>2. FlagsType
    BY Zenon DEF FlagsType
<1>3. ListType
  <2>1. Cardinality(File) \in Nat
      BY UsbTestAssumption, FS_CardinalityType
  <2> QED BY <2>1 DEF ListType
<1>4. TestsType
    BY UsbTestAssumption DEF TestsType, HowFar
<1>5. Begun /\ Joined /\ ThreadsAreJoined
    BY DEF Begun, Joined, ThreadsAreJoined
<1>6. pc \in Place
    BY DEF Place
<1> QED BY <1>1, <1>2, <1>3, <1>4, <1>5, <1>6 DEF IInv, Types

-----------------------------------------------------------------------------
(* main                                                                        *)

LEMMA OptionKeeps ==
  ASSUME IInv, Option
  PROVE  IInv'
<1> USE DEF IInv, Types
<1>1. OptionsType' /\ DeviceType'
  <2>1. Head(args) \in Range(argv) /\ Tail(args) \in Seq(Range(argv))
    <3> DEFINE S == Range(argv)
    <3>1. args \in Seq(S) /\ args # <<>>
        BY DEF OptionsType, Option
    <3> HIDE DEF S
    <3>2. Head(args) \in S /\ Tail(args) \in Seq(S)
        BY <3>1
    <3> QED BY <3>2 DEF S
  <2>2. /\ Head(args)[1] = "D" => Head(args)[2] \in File
        /\ Head(args)[1] = "t" => Head(args)[2] \in Int
      BY <2>1, UsbTestAssumption DEF OptionsType
  <2>3. argv' = argv /\ args' = Tail(args) /\ pc' \in {pc, "end"} /\ pc = "options"
      BY DEF Option, Tests
  <2>4. test' \in Int
      BY <2>2 DEF Option, OptionsType
  <2>5. device' \in File \union {None}
      BY <2>2 DEF Option, DeviceType
  <2> QED BY <2>1, <2>3, <2>4, <2>5 DEF OptionsType, DeviceType
<1>2. FlagsType'
    BY Zenon DEF FlagsType, Option
<1>3. pc = "options" /\ pc' \in {"options", "end"} /\ UNCHANGED <<List, Tests>>
    BY DEF Option
<1>4. ListType' /\ TestsType' /\ pc' \in Place
    BY <1>3 DEF ListType, TestsType, List, Tests, Place
<1>5. Begun' /\ Joined' /\ ThreadsAreJoined'
    BY <1>3 DEF Begun, Joined, ThreadsAreJoined, Tests
<1> QED BY <1>1, <1>2, <1>4, <1>5

\* The options and the flags stay.
LEMMA ConfigStays ==
  ASSUME IInv, UNCHANGED <<args, argv, all, not, forever, test>>
  PROVE  OptionsType' /\ FlagsType'
BY DEF IInv, Types, OptionsType, FlagsType

LEMMA OptionsEndKeeps ==
  ASSUME IInv, OptionsEnd
  PROVE  IInv'
<1> USE DEF IInv, Types
<1>1. /\ pc = "options" /\ pc' \in {"ftw", "end"}
      /\ UNCHANGED <<List, Tests, device, args, argv, all, not, forever, test>>
    BY DEF OptionsEnd, Exit, Config
<1>2. OptionsType' /\ FlagsType'
    BY <1>1, ConfigStays
<1>3. DeviceType' /\ ListType' /\ TestsType' /\ pc' \in Place
    BY <1>1 DEF DeviceType, ListType, TestsType, List, Tests, Place
<1>4. Begun' /\ Joined' /\ ThreadsAreJoined'
    BY <1>1 DEF Begun, Joined, ThreadsAreJoined, Tests
<1> QED BY <1>2, <1>3, <1>4

LEMMA FindKeeps ==
  ASSUME IInv, NEW f \in File, find_testdev(f)
  PROVE  IInv'
<1> USE DEF IInv, Types
<1>1. /\ pc = "ftw" /\ f \in left /\ left' = left \ {f}
      /\ testdevs' = <<f>> \o testdevs \/ testdevs' = testdevs
      /\ UNCHANGED <<pc, entry, Tests, device, args, argv, all, not, forever, test>>
    BY DEF find_testdev, Config
<1>2. OptionsType' /\ FlagsType' /\ DeviceType' /\ TestsType' /\ pc' \in Place
    BY <1>1, ConfigStays DEF DeviceType, TestsType, Tests
<1>3. ListType'
  <2>1. testdevs' \in Seq(File) /\ Len(testdevs') <= Len(testdevs) + 1
      BY <1>1 DEF ListType
  <2>2. IsFiniteSet(left)
      BY UsbTestAssumption, FS_Subset DEF ListType
  <2>3. Cardinality(left') = Cardinality(left) - 1 /\ Cardinality(left) \in Nat
      BY <1>1, <2>2, FS_RemoveElement, FS_CardinalityType
  <2>4. Cardinality(File) \in Nat
      BY UsbTestAssumption, FS_CardinalityType
  <2>5. entry' = 1 /\ left' \subseteq File /\ Len(testdevs) \in Nat /\ Len(testdevs') \in Nat
      BY <1>1, <2>1 DEF ListType
  <2> QED BY <2>1, <2>3, <2>4, <2>5 DEF ListType
<1>4. Begun' /\ Joined' /\ ThreadsAreJoined'
    BY <1>1 DEF Begun, Joined, ThreadsAreJoined, Tests
<1> QED BY <1>2, <1>3, <1>4

LEMMA ListEndsKeeps ==
  ASSUME IInv, ListEnds
  PROVE  IInv'
<1> USE DEF IInv, Types
<1>1. /\ pc = "ftw" /\ pc' \in {"start", "end"}
      /\ UNCHANGED <<List, Tests, args, argv, all, not, forever, test>>
      /\ device' = device \/ (Len(testdevs) = 1 /\ device' = testdevs[1])
    BY DEF ListEnds, Exit
<1>2. OptionsType' /\ FlagsType'
    BY <1>1, ConfigStays
<1>3. ListType' /\ TestsType' /\ pc' \in Place
    BY <1>1 DEF ListType, TestsType, List, Tests, Place
<1>4. DeviceType'
    BY <1>1 DEF DeviceType, ListType
<1>5. Begun' /\ Joined' /\ ThreadsAreJoined'
    BY <1>1 DEF Begun, Joined, ThreadsAreJoined, Tests
<1> QED BY <1>2, <1>3, <1>4, <1>5

LEMMA Sizes ==
  ASSUME ListType
  PROVE  /\ Len(testdevs) \in Nat /\ entry \in Nat /\ 1 <= entry /\ entry <= Len(testdevs) + 1
         /\ \A i \in 1 .. Len(testdevs) : testdevs[i] \in File
BY DEF ListType

\* main goes on in its list.
LEMMA EntryMoves ==
  ASSUME ListType, UNCHANGED <<left, testdevs>>, pc' \notin {"options", "ftw"},
         \/ entry' \in {1, entry}
         \/ entry <= Len(testdevs) /\ entry' = entry + 1
  PROVE  ListType'
<1>1. entry' \in 1 .. Len(testdevs) + 1
  <2>1. CASE entry' \in {1, entry}
      BY <2>1, Sizes
  <2>2. CASE entry <= Len(testdevs) /\ entry' = entry + 1
      BY <2>2, Sizes
  <2> QED BY <2>1, <2>2
<1> QED BY <1>1 DEF ListType

LEMMA StartOneKeeps ==
  ASSUME IInv, StartOne
  PROVE  IInv'
<1> USE DEF IInv, Types
<1>1. /\ pc = "start" /\ device # None
      /\ UNCHANGED <<left, testdevs, case, device, args, argv, all, not, forever, test>>
      /\ \/ entry <= Len(testdevs) /\ entry' = entry + 1 /\ pc' = pc /\ thread' = thread
         \/ entry' = entry /\ pc' = "single" /\ thread' = [thread EXCEPT ![device] = "open"]
    BY DEF StartOne, Listed, Config, Calls
<1>2. OptionsType' /\ FlagsType' /\ DeviceType'
    BY <1>1, ConfigStays DEF DeviceType
<1>3. ListType'
    BY <1>1, EntryMoves
<1>4. TestsType' /\ pc' \in Place
    BY <1>1 DEF TestsType, HowFar, Place
<1>5. \A f \in File : thread[f] = "none"
    BY <1>1 DEF Begun
<1>6. Begun' /\ Joined' /\ ThreadsAreJoined'
    BY <1>1, <1>5 DEF Begun, Joined, ThreadsAreJoined, TestsType
<1> QED BY <1>2, <1>3, <1>4, <1>6

LEMMA CreateThreadKeeps ==
  ASSUME IInv, CreateThread
  PROVE  IInv'
<1> USE DEF IInv, Types
<1>1. /\ pc = "start" /\ device = None
      /\ UNCHANGED <<left, testdevs, case, device, args, argv, all, not, forever, test>>
      /\ \/ /\ entry <= Len(testdevs) /\ entry' = entry + 1 /\ pc' = pc
            /\ \E how \in {"open", "not created"} :
                 thread' = [thread EXCEPT ![testdevs[entry]] = how]
         \/ ~(entry <= Len(testdevs)) /\ entry' = 1 /\ pc' = "join" /\ thread' = thread
    BY DEF CreateThread, Listed, Config, Calls
<1>2. OptionsType' /\ FlagsType' /\ DeviceType'
    BY <1>1, ConfigStays DEF DeviceType
<1>3. ListType'
    BY <1>1, EntryMoves
<1>4. TestsType' /\ pc' \in Place
    BY <1>1 DEF TestsType, HowFar, Place
<1>5. Begun'
  <2>1. CASE pc' = "start"
    <3> SUFFICES ASSUME NEW f \in File, thread'[f] # "none"
                 PROVE  \E i \in 1 .. Len(testdevs) : i < entry' /\ testdevs[i] = f
        BY <1>1, <2>1 DEF Begun
    <3>1. entry \in 1 .. Len(testdevs) /\ entry' = entry + 1
      <4>1. entry <= Len(testdevs) /\ entry' = entry + 1
          BY <1>1, <2>1
      <4>2. Len(testdevs) \in Nat /\ entry \in Nat /\ 1 <= entry
          BY Sizes
      <4> QED BY <4>1, <4>2
    <3>2. CASE f = testdevs[entry]
        BY <3>1, <3>2
    <3>3. CASE f # testdevs[entry]
      <4>1. thread[f] # "none"
          BY <1>1, <2>1, <3>3 DEF TestsType
      <4>2. PICK i \in 1 .. Len(testdevs) : i < entry /\ testdevs[i] = f
          BY <1>1, <4>1 DEF Begun
      <4> QED BY <3>1, <4>2
    <3> QED BY <3>2, <3>3
  <2>2. CASE pc' = "join"
      BY <1>1, <2>2 DEF Begun
  <2> QED BY <1>1, <2>1, <2>2
<1>6. Joined'
    BY <1>1, Sizes DEF Joined
<1>7. ThreadsAreJoined'
    BY <1>1 DEF ThreadsAreJoined
<1> QED BY <1>2, <1>3, <1>4, <1>5, <1>6, <1>7

LEMMA SingleEndsKeeps ==
  ASSUME IInv, SingleEnds
  PROVE  IInv'
<1> USE DEF IInv, Types
<1>1. /\ pc = "single" /\ pc' = "end" /\ thread[device] \in {"not opened", "ended"}
      /\ UNCHANGED <<List, Tests, device, args, argv, all, not, forever, test>>
    BY DEF SingleEnds, Exit, Config, Over
<1>2. OptionsType' /\ FlagsType'
    BY <1>1, ConfigStays
<1>3. DeviceType' /\ ListType' /\ TestsType' /\ pc' \in Place
    BY <1>1 DEF DeviceType, ListType, TestsType, List, Tests, Place
<1>4. Begun' /\ Joined' /\ ThreadsAreJoined'
    BY <1>1 DEF Begun, Joined, ThreadsAreJoined, Tests
<1> QED BY <1>2, <1>3, <1>4

LEMMA JoinKeeps ==
  ASSUME IInv, Join
  PROVE  IInv'
<1> USE DEF IInv, Types
<1>1. /\ pc = "join"
      /\ UNCHANGED <<left, testdevs, Tests, device, args, argv, all, not, forever, test>>
      /\ \/ /\ entry <= Len(testdevs) /\ ~Busy(testdevs[entry])
            /\ entry' = entry + 1 /\ pc' = pc
         \/ /\ entry <= Len(testdevs) /\ thread[testdevs[entry]] = "not created"
            /\ entry' = entry /\ pc' = "crashed"
         \/ ~(entry <= Len(testdevs)) /\ entry' = entry /\ pc' = "end"
    BY DEF Join, Listed, Config, Over, Exit, Busy
<1>2. OptionsType' /\ FlagsType' /\ DeviceType'
    BY <1>1, ConfigStays DEF DeviceType
<1>3. ListType'
    BY <1>1, EntryMoves
<1>4. Begun' /\ TestsType' /\ pc' \in Place
    BY <1>1 DEF Begun, Tests, TestsType, Place
<1>5. Joined'
  <2> SUFFICES ASSUME pc' = "join", NEW i \in 1 .. Len(testdevs), i < entry'
               PROVE  ~Busy(testdevs[i])
      BY <1>1 DEF Joined, Busy, Tests
  <2>1. entry' = entry + 1 /\ entry \in Nat /\ ~Busy(testdevs[entry])
      BY <1>1 DEF ListType
  <2> QED BY <1>1, <2>1 DEF Joined
<1>6. ThreadsAreJoined'
  <2>1. CASE pc' = "end"
    <3>1. \A i \in 1 .. Len(testdevs) : i < entry
        BY <1>1, <2>1, Sizes
    <3>2. \A f \in File : ~Busy(f)
        BY <1>1, <3>1 DEF Begun, Joined, Busy
    <3> QED BY <1>1, <2>1, <3>2 DEF ThreadsAreJoined, Busy, Tests
  <2>2. CASE pc' = "crashed"
    <3>1. testdevs[entry] \in File /\ thread[testdevs[entry]] = "not created"
      <4>1. entry <= Len(testdevs)
          BY <1>1, <2>2
      <4>2. thread[testdevs[entry]] = "not created"
          BY <1>1, <2>2
      <4>3. Len(testdevs) \in Nat /\ entry \in Nat /\ 1 <= entry
          BY Sizes
      <4>4. entry \in 1 .. Len(testdevs)
          BY <4>1, <4>3
      <4>5. testdevs[entry] \in File
        <5>1. \A i \in 1 .. Len(testdevs) : testdevs[i] \in File
            BY Sizes
        <5> QED BY <4>4, <5>1
      <4> QED BY <4>2, <4>5
    <3> QED BY <1>1, <2>2, <3>1 DEF ThreadsAreJoined, Tests
  <2> QED BY <1>1, <2>1, <2>2 DEF ThreadsAreJoined
<1> QED BY <1>2, <1>3, <1>4, <1>5, <1>6

-----------------------------------------------------------------------------
(* A test, which goes on only once it has begun.                               *)

LEMMA TestKeeps ==
  ASSUME IInv, NEW f \in File, handle_testdev(f)
  PROVE  IInv'
<1> USE DEF IInv, Types
<1>1. /\ pc \notin {"end", "crashed"} /\ Busy(f)
      /\ UNCHANGED <<pc, List, device, args, argv, all, not, forever, test>>
      /\ thread' = thread \/ \E how \in {"running", "not opened", "ended"} :
                                thread' = [thread EXCEPT ![f] = how]
      /\ \/ case' = case \/ case' = [case EXCEPT ![f] = 0]
         \/ case[f] < TestCases /\ case' = [case EXCEPT ![f] = @ + 1]
    BY DEF handle_testdev, OpenDevice, RunCase, CasesEnd, Calls, Config, Busy
<1>2. OptionsType' /\ FlagsType'
    BY <1>1, ConfigStays
<1>3. DeviceType' /\ ListType' /\ pc' \in Place
    BY <1>1 DEF DeviceType, ListType, List
<1>4. TestsType'
  <2>1. thread' \in [File -> HowFar]
      BY <1>1 DEF TestsType, HowFar
  <2>2. case' \in [File -> 0 .. TestCases]
    <3>1. case \in [File -> 0 .. TestCases] /\ TestCases \in Nat /\ case[f] \in 0 .. TestCases
        BY UsbTestAssumption DEF TestsType
    <3>2. case[f] < TestCases => case[f] + 1 \in 0 .. TestCases
        BY <3>1
    <3>3. 0 \in 0 .. TestCases
        BY <3>1
    <3>4. \/ case' = case \/ case' = [case EXCEPT ![f] = 0]
          \/ case[f] < TestCases /\ case' = [case EXCEPT ![f] = case[f] + 1]
        BY <1>1
    <3> QED BY <3>1, <3>2, <3>3, <3>4
  <2> QED BY <2>1, <2>2 DEF TestsType
<1>5. \A g \in File : thread'[g] # "none" => thread[g] # "none"
    BY <1>1 DEF TestsType, Busy
<1>6. Begun'
    BY <1>1, <1>5 DEF Begun, List
<1>7. Joined'
  <2> SUFFICES ASSUME pc = "join", NEW i \in 1 .. Len(testdevs), i < entry
               PROVE  ~(thread'[testdevs[i]] \in {"open", "running"})
      BY <1>1 DEF Joined, Busy, List
  <2>1. testdevs[i] \in File /\ ~Busy(testdevs[i])
      BY DEF Joined, ListType
  <2> QED BY <1>1, <2>1 DEF Busy, TestsType
<1>8. ThreadsAreJoined'
    BY <1>1 DEF ThreadsAreJoined
<1> QED BY <1>2, <1>3, <1>4, <1>6, <1>7, <1>8

-----------------------------------------------------------------------------
(* What the command line asks for.                                             *)

LEMMA ArgvIsSeq ==
  ASSUME OptionsType
  PROVE  /\ Len(argv) \in Nat /\ Len(args) \in Nat
         /\ \A i \in 1 .. Len(argv) : argv[i][1] = "D" => argv[i][2] \in File
         /\ DOMAIN argv = 1 .. Len(argv)
<1>1. argv \in Seq(Range(argv))
    BY UsbTestAssumption DEF OptionsType
<1>2. \A i \in 1 .. Len(argv) : argv[i] \in Range(argv)
    BY <1>1 DEF Range
<1>3. Len(argv) \in Nat /\ DOMAIN argv = 1 .. Len(argv)
  <2> DEFINE S == Range(argv)
  <2>1. argv \in Seq(S)
      BY <1>1
  <2> HIDE DEF S
  <2> QED BY <2>1
<1>4. Len(args) \in Nat
  <2> DEFINE S == Range(argv)
  <2>1. args \in Seq(S)
      BY DEF OptionsType
  <2> HIDE DEF S
  <2> QED BY <2>1
<1> QED BY <1>2, <1>3, <1>4, UsbTestAssumption DEF OptionsType

LEMMA InitAsking == Init => Asking
<1> SUFFICES ASSUME Init PROVE Asking
    OBVIOUS
<1> USE DEF Init
<1>1. IInv /\ Len(argv) \in Nat
    BY InitIInv, ArgvIsSeq DEF IInv, Types
<1>2. ArgsLeft
    BY <1>1 DEF ArgsLeft, Read
<1>3. Heeded
    BY <1>1 DEF Heeded, Read
<1>4. Asked
    BY DEF Asked
<1>5. ran \in [File -> Seq(Int)]
    OBVIOUS
<1>6. CasesSoFar
  <2>1. [i \in 1 .. 0 |-> i - 1] = <<>>
      OBVIOUS
  <2> QED BY <2>1 DEF CasesSoFar, ChosenBelow
<1>7. VisitedOnce
    BY DEF VisitedOnce
<1> QED BY <1>2, <1>3, <1>4, <1>5, <1>6, <1>7 DEF Asking

\* While the options are read nothing has run: the choice of the cases is free.
LEMMA NothingRan ==
  ASSUME IInv, Asking, pc \in {"options", "ftw"}, UNCHANGED Tests, test' \in Int, test' >= -1
  PROVE  CasesSoFar' /\ ran' \in [File -> Seq(Int)]
<1>1. \A f \in File : thread[f] = "none" /\ case[f] = 0
    BY DEF IInv, Begun, Asking, CasesSoFar
<1>2. [i \in 1 .. 0 |-> i - 1] = <<>>
    OBVIOUS
<1>3. ChosenBelow(0) = <<>> /\ ChosenBelow(0)' = <<>>
    BY <1>2 DEF ChosenBelow, Asking, ArgsLeft, IInv, Types, OptionsType
<1>4. \A f \in File : ran[f] = <<>>
    BY <1>1, <1>3 DEF Asking, CasesSoFar
<1>5. CasesSoFar'
    BY <1>1, <1>2, <1>4 DEF CasesSoFar, ChosenBelow, Tests
<1> QED BY <1>5 DEF Tests, Asking

\* The options, the cases and the tests stay as they are.
LEMMA ArgsStay ==
  ASSUME Asking, UNCHANGED <<args, argv, forever, test>>, pc # "options" \/ args = <<>>,
         pc \notin {"end", "crashed"}
  PROVE  ArgsLeft'
BY DEF Asking, ArgsLeft, Read

LEMMA ListStays ==
  ASSUME Asking, UNCHANGED <<left, testdevs>>
  PROVE  VisitedOnce'
BY DEF Asking, VisitedOnce

LEMMA CasesStay ==
  ASSUME Asking, UNCHANGED <<ran, case, test>>,
         \A f \in File : thread'[f] \in {"running", "ended"} => thread'[f] = thread[f],
         \A f \in File : thread[f] \in {"running", "ended"} => thread'[f] = thread[f]
  PROVE  CasesSoFar' /\ ran' \in [File -> Seq(Int)]
BY DEF Asking, CasesSoFar, ChosenBelow

LEMMA OptionAsks ==
  ASSUME IInv, Asking, Option
  PROVE  Asking'
<1> USE DEF IInv, Types
<1> DEFINE o == Head(args)
           known == o[1] \in Letters \ {"h"} /\ ~(o[1] = "t" /\ o[2] < 0)
<1>1. /\ pc = "options" /\ args # <<>> /\ args' = Tail(args) /\ argv' = argv
      /\ pc' = IF known THEN pc ELSE "end"
      /\ device' = IF ~known THEN device
                   ELSE IF o[1] = "D" THEN o[2] ELSE IF o[1] = "a" THEN None ELSE device
      /\ test' = IF known /\ o[1] = "t" THEN o[2] ELSE test
      /\ UNCHANGED <<Tests, left, testdevs>>
    BY DEF Option, List
<1>2. /\ Len(args') = Len(args) - 1 /\ Len(args) \in Nat /\ Len(args) > 0 /\ o = args[1]
      /\ \A i \in 1 .. Len(args') : args'[i] = args[i + 1]
  <2> DEFINE S == Range(argv)
  <2>1. args \in Seq(S) /\ args # <<>> /\ args' = Tail(args)
      BY <1>1 DEF OptionsType
  <2> HIDE DEF S
  <2> QED BY <2>1
<1>3. Len(argv) \in Nat /\ \A i \in 1 .. Len(argv) : argv[i][1] = "D" => argv[i][2] \in File
    BY ArgvIsSeq
<1>4. Read \in 0 .. Len(argv) /\ \A i \in 1 .. Len(args) : args[i] = argv[Read + i]
    BY DEF Asking, ArgsLeft
<1>5. Read' = Read + 1 /\ o = argv[Read + 1] /\ Read' \in 1 .. Len(argv)
    BY <1>1, <1>2, <1>3, <1>4 DEF Read
<1>6. forever' = FALSE
  <2>1. forever' = (forever \/ (known /\ o[1] = "l"))
      BY DEF Option
  <2>2. known => o[1] # "l"
      BY DEF Letters
  <2>3. forever = FALSE
      BY DEF Asking, ArgsLeft
  <2> HIDE DEF o, known
  <2> QED BY Zenon, <2>1, <2>2, <2>3
<1>7. test' \in Int /\ test' >= -1
  <2>1. test \in Int /\ test >= -1
      BY DEF OptionsType, Asking, ArgsLeft
  <2>2. (known /\ o[1] = "t") => o[2] \in Int /\ ~(o[2] < 0)
    <3>1. o \in Range(argv)
        BY <1>3, <1>5, ArgvIsSeq DEF Range
    <3> QED BY <3>1, UsbTestAssumption DEF OptionsType
  <2> HIDE DEF known
  <2> QED BY <1>1, <2>1, <2>2
<1>8. ArgsLeft'
    BY <1>1, <1>2, <1>3, <1>4, <1>5, <1>6, <1>7 DEF ArgsLeft, Read
<1>9. Heeded'
  <2> SUFFICES ASSUME pc' = "options", NEW i \in 1 .. Read + 1
               PROVE  /\ argv[i][1] = "n" => not' = TRUE
                      /\ Names(i, Read + 1) => device' = argv[i][2]
      BY <1>1, <1>5 DEF Heeded, Names
  <2>1. known
      BY <1>1
  <2>2. CASE i = Read + 1
    <3>1. argv[i][1] = "n" => not' = TRUE
      <4>1. not' = (not \/ (known /\ o[1] = "n"))
          BY DEF Option
      <4>2. o[1] = argv[i][1]
          BY <1>5, <2>2
      <4> HIDE DEF o, known
      <4> QED BY Zenon, <2>1, <4>1, <4>2
    <3>2. Names(i, Read + 1) => device' = argv[i][2]
        BY <1>1, <1>5, <2>1, <2>2 DEF Names
    <3> QED BY <3>1, <3>2
  <2>3. CASE i \in 1 .. Read
    <3>1. /\ argv[i][1] = "n" => not = TRUE
          /\ Names(i, Read) => device = argv[i][2]
        BY <1>1, <2>3 DEF Asking, Heeded
    <3>2. not = TRUE => not' = TRUE
      <4>1. not' = (not \/ (known /\ o[1] = "n"))
          BY DEF Option
      <4> HIDE DEF o, known
      <4> QED BY Zenon, <4>1
    <3>3. Names(i, Read + 1) => Names(i, Read) /\ o[1] \notin {"a", "D"}
        BY <1>4, <1>5, <2>3, <1>3 DEF Names
    <3>4. o[1] \notin {"a", "D"} => device' = device
        BY <1>1
    <3> QED BY <3>1, <3>2, <3>3, <3>4
  <2>4. i = Read + 1 \/ i \in 1 .. Read
    <3>1. Read \in Int /\ i \in 1 .. Read + 1
        BY <1>3, <1>4
    <3> QED BY <3>1
  <2> QED BY <2>2, <2>3, <2>4
<1>10. Asked'
    BY <1>1 DEF Asked, Begun, Tests
<1> QED BY <1>1, <1>7, <1>8, <1>9, <1>10, NothingRan, ListStays DEF Asking

LEMMA OptionsEndAsks ==
  ASSUME IInv, Asking, OptionsEnd
  PROVE  Asking'
<1> USE DEF IInv, Types
<1>1. /\ pc = "options" /\ pc' \in {"ftw", "end"} /\ args = <<>>
      /\ UNCHANGED <<Tests, left, testdevs, device, args, argv, not, forever, test>>
    BY DEF OptionsEnd, Exit, Config, List
<1>2. ArgsLeft'
    BY <1>1, ArgsStay
<1>3. Heeded'
    BY <1>1 DEF Heeded, Asking, Names, Read
<1>4. Asked'
    BY <1>1 DEF Asked, Begun, Tests
<1> QED BY <1>1, <1>2, <1>3, <1>4, NothingRan, ListStays DEF Asking, ArgsLeft, OptionsType

LEMMA FindAsks ==
  ASSUME IInv, Asking, NEW f \in File, find_testdev(f)
  PROVE  Asking'
<1> USE DEF IInv, Types
<1>1. /\ pc = "ftw" /\ f \in left /\ left' = left \ {f}
      /\ testdevs' = <<f>> \o testdevs \/ testdevs' = testdevs
      /\ UNCHANGED <<pc, Tests, device, args, argv, not, forever, test>>
    BY DEF find_testdev, Config
<1>2. ArgsLeft'
    BY <1>1, ArgsStay
<1>3. Heeded' /\ Asked'
    BY <1>1 DEF Heeded, Asking, Names, Read, Asked, Begun, Tests
<1>4. VisitedOnce'
  <2>1. CASE testdevs' = testdevs
      BY <1>1, <2>1 DEF Asking, VisitedOnce
  <2>2. CASE testdevs' = <<f>> \o testdevs
    <3>1. /\ Len(testdevs') = Len(testdevs) + 1 /\ Len(testdevs) \in Nat /\ testdevs'[1] = f
          /\ \A i \in 2 .. Len(testdevs) + 1 :
               testdevs'[i] = testdevs[i - 1] /\ i - 1 \in 1 .. Len(testdevs)
        BY <2>2 DEF ListType
    <3>2. \A i \in 1 .. Len(testdevs') : i = 1 \/ i \in 2 .. Len(testdevs) + 1
        BY <3>1
    <3>3. \A i \in 1 .. Len(testdevs) : testdevs[i] # f /\ testdevs[i] \notin left
        BY <1>1 DEF Asking, VisitedOnce
    <3>4. \A i, j \in 1 .. Len(testdevs) : i # j => testdevs[j] # testdevs[i]
        BY DEF Asking, VisitedOnce
    <3>5. \A i, j \in 2 .. Len(testdevs) + 1 : i # j => i - 1 # j - 1
        BY <3>1
    <3>6. \A i \in 1 .. Len(testdevs') : testdevs'[i] \notin left'
        BY <1>1, <3>1, <3>2, <3>3
    <3>7. \A i, j \in 1 .. Len(testdevs') : i # j => testdevs'[j] # testdevs'[i]
        BY <3>1, <3>2, <3>3, <3>4, <3>5
    <3> QED BY <3>6, <3>7 DEF VisitedOnce
  <2> QED BY <1>1, <2>1, <2>2
<1> QED BY <1>1, <1>2, <1>3, <1>4, NothingRan DEF Asking, ArgsLeft, OptionsType

\* The tests can only start under a command line that wants them.
LEMMA ListEndsAsks ==
  ASSUME IInv, Asking, ListEnds
  PROVE  Asking'
<1> USE DEF IInv, Types
<1>1. /\ pc = "ftw" /\ pc' \in {"start", "end"}
      /\ UNCHANGED <<Tests, left, testdevs, args, argv, all, not, forever, test>>
      /\ pc' = "start" => ~not
      /\ device # None => device' = device
    BY DEF ListEnds, Exit, List
<1>2. ArgsLeft'
    BY <1>1, ArgsStay
<1>3. Heeded'
    BY <1>1 DEF Heeded
<1>4. \A f \in File : thread'[f] = "none"
    BY <1>1 DEF Begun, Tests
<1>5. Asked'
  <2> SUFFICES ASSUME pc' = "start", NEW i \in 1 .. Len(argv)
               PROVE  argv[i][1] # "n" /\ (Names(i, Len(argv)) => device' = argv[i][2])
      BY <1>1, <1>4 DEF Asked, Names
  <2>1. Read = Len(argv)
      BY <1>1, ArgvIsSeq DEF Asking, ArgsLeft, Read
  <2>2. /\ argv[i][1] = "n" => not = TRUE
        /\ Names(i, Len(argv)) => device = argv[i][2]
      BY <1>1, <2>1 DEF Asking, Heeded
  <2>3. argv[i][1] # "n"
      BY Zenon, <1>1, <2>2
  <2>4. Names(i, Len(argv)) => argv[i][2] # None
      BY ArgvIsSeq, UsbTestAssumption DEF Names
  <2> QED BY <1>1, <2>2, <2>3, <2>4
<1> QED BY <1>1, <1>2, <1>3, <1>5, NothingRan, ListStays DEF Asking, ArgsLeft, OptionsType

\* A test begins, and the cases it is asked to run are still the first.
LEMMA StartOneAsks ==
  ASSUME IInv, Asking, StartOne
  PROVE  Asking'
<1> USE DEF IInv, Types
<1>1. /\ pc = "start" /\ device # None
      /\ UNCHANGED <<left, testdevs, case, ran, device, args, argv, not, forever, test>>
      /\ \/ pc' = pc /\ thread' = thread
         \/ pc' = "single" /\ thread' = [thread EXCEPT ![device] = "open"]
    BY DEF StartOne, Config, Calls
<1>2. ArgsLeft' /\ Heeded'
    BY <1>1, ArgsStay DEF Heeded
<1>3. \A f \in File : thread[f] = "none"
    BY <1>1 DEF Begun
<1>4. Asked'
  <2>1. \A f \in File : thread'[f] # "none" => f = device
      BY <1>1, <1>3 DEF TestsType
  <2> QED BY <1>1, <2>1 DEF Asking, Asked, Names
<1>5. CasesSoFar' /\ ran' \in [File -> Seq(Int)]
    BY <1>1, <1>3, CasesStay DEF TestsType
<1> QED BY <1>1, <1>2, <1>4, <1>5, ListStays DEF Asking

LEMMA CreateThreadAsks ==
  ASSUME IInv, Asking, CreateThread
  PROVE  Asking'
<1> USE DEF IInv, Types
<1>1. /\ pc = "start" /\ device = None /\ pc' \in {"start", "join"}
      /\ UNCHANGED <<left, testdevs, case, ran, device, args, argv, not, forever, test>>
    BY DEF CreateThread, Config
<1>2. ArgsLeft' /\ Heeded'
    BY <1>1, ArgsStay DEF Heeded
<1>3. Asked'
    BY <1>1 DEF Asking, Asked, Names
<1>4. \A f \in File : thread'[f] \in {"running", "ended"} \/ thread[f] \in {"running", "ended"}
                        => thread'[f] = thread[f]
  <2>1. CASE entry <= Len(testdevs)
    <3>1. entry \in 1 .. Len(testdevs) /\ testdevs[entry] \in File
        BY <2>1, Sizes
    <3>2. thread[testdevs[entry]] = "none"
      <4> SUFFICES ASSUME thread[testdevs[entry]] # "none" PROVE FALSE
          OBVIOUS
      <4>1. PICK i \in 1 .. Len(testdevs) : i < entry /\ testdevs[i] = testdevs[entry]
          BY <1>1, <3>1 DEF Begun
      <4>2. i # entry
          BY <3>1, <4>1
      <4> QED BY <3>1, <4>1, <4>2 DEF Asking, VisitedOnce
    <3>3. PICK how \in {"open", "not created"} : thread' = [thread EXCEPT ![testdevs[entry]] = how]
        BY <2>1 DEF CreateThread, Listed, Calls
    <3> QED BY <3>2, <3>3 DEF TestsType
  <2>2. CASE ~(entry <= Len(testdevs))
      BY <2>2 DEF CreateThread, Listed
  <2> QED BY <2>1, <2>2
<1>5. CasesSoFar' /\ ran' \in [File -> Seq(Int)]
    BY <1>1, <1>4, CasesStay
<1> QED BY <1>1, <1>2, <1>3, <1>5, ListStays DEF Asking

\* main waits, or ends.
LEMMA WaitAsks ==
  ASSUME IInv, Asking, SingleEnds \/ Join
  PROVE  Asking'
<1> USE DEF IInv, Types
<1>1. /\ pc \in {"single", "join"} /\ pc' \in {"join", "end", "crashed"}
      /\ pc' = "join" => pc = "join"
      /\ UNCHANGED <<Tests, left, testdevs, device, args, argv, not, forever, test>>
    BY DEF SingleEnds, Join, Config, Exit, List
<1>2. ArgsLeft' /\ Heeded'
    BY <1>1, ArgsStay DEF Heeded
<1>3. Asked'
    BY <1>1 DEF Asking, Asked, Names, Tests
<1>4. CasesSoFar' /\ ran' \in [File -> Seq(Int)]
    BY <1>1 DEF Asking, CasesSoFar, ChosenBelow, Tests
<1> QED BY <1>1, <1>2, <1>3, <1>4, ListStays DEF Asking

\* One more case is looked at, and run if it was chosen.
LEMMA ChosenGrows ==
  ASSUME NEW c \in Nat, test \in Int, test >= -1
  PROVE  ChosenBelow(c + 1) = IF test \in {-1, c} THEN Append(ChosenBelow(c), c)
                              ELSE ChosenBelow(c)
<1>1. CASE test = -1
  <2> DEFINE s == [i \in 1 .. c |-> i - 1]
             t == [i \in 1 .. c + 1 |-> i - 1]
  <2>1. /\ s \in Seq(Int) /\ Len(s) = c /\ \A i \in 1 .. c : s[i] = i - 1
        /\ t \in Seq(Int) /\ Len(t) = c + 1 /\ \A i \in 1 .. c + 1 : t[i] = i - 1
      OBVIOUS
  <2> HIDE DEF s, t
  <2>2. /\ Append(s, c) \in Seq(Int) /\ Len(Append(s, c)) = c + 1
        /\ \A i \in 1 .. c + 1 : Append(s, c)[i] = i - 1
      BY <2>1
  <2>3. t = Append(s, c)
      BY <2>1, <2>2, SeqEqual
  <2>4. ChosenBelow(c) = s /\ ChosenBelow(c + 1) = t
      BY <1>1 DEF ChosenBelow, s, t
  <2> QED BY <1>1, <2>3, <2>4
<1>2. CASE test = c
  <2>1. ChosenBelow(c) = <<>> /\ ChosenBelow(c + 1) = <<c>>
      BY <1>2 DEF ChosenBelow
  <2>2. Append(<<>>, c) = <<c>>
      OBVIOUS
  <2> QED BY <1>2, <2>1, <2>2
<1>3. CASE test \notin {-1, c}
    BY <1>3 DEF ChosenBelow
<1> QED BY <1>1, <1>2, <1>3

LEMMA TestAsks ==
  ASSUME IInv, Asking, NEW f \in File, handle_testdev(f)
  PROVE  Asking'
<1> USE DEF IInv, Types
<1>1. /\ pc \notin {"end", "crashed"} /\ thread[f] \in {"open", "running"}
      /\ UNCHANGED <<pc, List, device, args, argv, not, forever, test>>
      /\ \A g \in File : g # f =>
           thread'[g] = thread[g] /\ case'[g] = case[g] /\ ran'[g] = ran[g]
    BY DEF handle_testdev, OpenDevice, RunCase, CasesEnd, Calls, Config, TestsType, Asking
<1>2. ArgsLeft'
    BY <1>1 DEF Asking, ArgsLeft, Read
<1>3. Heeded'
    BY <1>1 DEF Asking, Heeded, Names, Read
<1>4. Asked'
  <2>1. \A g \in File : thread'[g] # "none" => thread[g] # "none"
      BY <1>1
  <2> QED BY <1>1, <2>1 DEF Asking, Asked, Names
<1>5. test \in Int /\ test >= -1 /\ forever = FALSE /\ case[f] \in Nat /\ ran[f] \in Seq(Int)
    BY UsbTestAssumption DEF Asking, ArgsLeft, OptionsType, TestsType
<1>6. /\ ran' \in [File -> Seq(Int)]
      /\ ran'[f] = ChosenBelow(case'[f])
      /\ thread'[f] \notin {"running", "ended"} => case'[f] = 0
      /\ thread'[f] = "ended" => case'[f] = TestCases
  <2>1. CASE OpenDevice(f)
      BY <2>1, <1>5 DEF OpenDevice, Calls, Asking, CasesSoFar, TestsType
  <2>2. CASE RunCase(f)
    <3>1. /\ thread' = thread /\ thread[f] = "running" /\ case'[f] = case[f] + 1
          /\ ran' = IF test \in {-1, case[f]} THEN [ran EXCEPT ![f] = Append(@, case[f])]
                    ELSE ran
        BY <2>2 DEF RunCase, TestsType
    <3>2. ran[f] = ChosenBelow(case[f])
        BY DEF Asking, CasesSoFar
    <3>3. ran \in [File -> Seq(Int)]
        BY DEF Asking
    <3>4. Append(ran[f], case[f]) \in Seq(Int)
        BY <1>5
    <3> QED BY <1>5, <3>1, <3>2, <3>3, <3>4, ChosenGrows
  <2>3. CASE CasesEnd(f)
    <3>1. ~forever
        BY Zenon, <1>5
    <3> QED BY <2>3, <1>5, <3>1 DEF CasesEnd, Calls, Asking, CasesSoFar, TestsType
  <2> QED BY <2>1, <2>2, <2>3 DEF handle_testdev
<1>7. CasesSoFar'
  <2>1. \A c : ChosenBelow(c)' = ChosenBelow(c)
      BY <1>1 DEF ChosenBelow
  <2> SUFFICES ASSUME NEW g \in File
               PROVE  /\ ran'[g] = ChosenBelow(case'[g])
                      /\ thread'[g] \notin {"running", "ended"} => case'[g] = 0
                      /\ thread'[g] = "ended" => case'[g] = TestCases
      BY <1>1 DEF CasesSoFar, ChosenBelow
  <2>2. CASE g = f
      BY <1>6, <2>2
  <2>3. CASE g # f
      BY <1>1, <2>3 DEF Asking, CasesSoFar
  <2> QED BY <2>2, <2>3
<1> QED BY <1>1, <1>2, <1>3, <1>4, <1>6, <1>7, ListStays DEF Asking, List

LEMMA StepAsking == IInv /\ Asking /\ [Next]_vars => Asking'
<1> SUFFICES ASSUME IInv, Asking, [Next]_vars PROVE Asking'
    OBVIOUS
<1>1. ASSUME main PROVE Asking'
    BY <1>1, OptionAsks, OptionsEndAsks, FindAsks, ListEndsAsks, StartOneAsks,
       CreateThreadAsks, WaitAsks DEF main
<1>2. ASSUME UNCHANGED vars PROVE Asking'
    BY <1>2 DEF Asking, ArgsLeft, Heeded, Asked, VisitedOnce, CasesSoFar, ChosenBelow, Names, Read,
                vars
<1> QED BY <1>1, <1>2, TestAsks DEF Next, Rests

-----------------------------------------------------------------------------
LEMMA StepIInv == IInv /\ [Next]_vars => IInv'
<1> SUFFICES ASSUME IInv, [Next]_vars PROVE IInv'
    OBVIOUS
<1>1. ASSUME main PROVE IInv'
    BY <1>1, OptionKeeps, OptionsEndKeeps, FindKeeps, ListEndsKeeps, StartOneKeeps,
       CreateThreadKeeps, SingleEndsKeeps, JoinKeeps DEF main
<1>2. ASSUME UNCHANGED vars PROVE IInv'
    BY <1>2 DEF IInv, Types, OptionsType, DeviceType, FlagsType, ListType, TestsType, Begun,
                Joined, Busy, ThreadsAreJoined, vars
<1> QED BY <1>1, <1>2, TestKeeps DEF Next, Rests

\* The inductive invariant, for any devices: where each test is and what main has left to join.
THEOREM Invariance == Spec => []IInv
BY InitIInv, StepIInv, PTL DEF Spec

LEMMA TypeFollows == IInv => TypeOK
<1> SUFFICES ASSUME IInv PROVE TypeOK
    OBVIOUS
<1> USE DEF IInv, Types
<1>1. {all, not, forever} \subseteq BOOLEAN
    BY Zenon DEF FlagsType
<1>2. Range(testdevs) \subseteq File
    BY DEF ListType, Range
<1> QED BY <1>1, <1>2
        DEF TypeOK, OptionsType, DeviceType, ListType, TestsType, Place, HowFar

\* The variables keep their types: the list never holds more than the files visited.
THEOREM TypeCorrect == Spec => []TypeOK
BY Invariance, TypeFollows, PTL

\* In every state the options read have left what main acts on, and every test has
\* run the chosen ones of the cases it has been through.
THEOREM AskingInvariance == Spec => []Asking
BY InitIInv, StepIInv, InitAsking, StepAsking, PTL DEF Spec

LEMMA AskedFollows == IInv /\ Asking => CasesAsAsked
<1> SUFFICES ASSUME IInv, Asking, NEW f \in File
             PROVE  /\ thread[f] = "ended" => ran[f] = Chosen
                    /\ ran[f] # <<>> => IsPrefix(ran[f], Chosen)
                    /\ thread[f] # "none" => \A i \in DOMAIN argv : argv[i][1] # "n"
                    /\ thread[f] # "none" =>
                         \A i \in DOMAIN argv :
                           (LastSelects(i) /\ argv[i][1] = "D") => f = argv[i][2]
    BY DEF CasesAsAsked
<1> USE DEF IInv, Types
<1>1. /\ test \in Int /\ test >= -1 /\ case[f] \in 0 .. TestCases /\ TestCases \in Nat
      /\ ran[f] = ChosenBelow(case[f])
    BY UsbTestAssumption DEF Asking, ArgsLeft, OptionsType, TestsType, CasesSoFar
<1>2. Chosen = ChosenBelow(TestCases)
    BY DEF Chosen, ChosenBelow
<1>3. thread[f] = "ended" => ran[f] = Chosen
    BY <1>1, <1>2 DEF Asking, CasesSoFar
<1>4. ran[f] # <<>> => IsPrefix(ran[f], Chosen)
  <2>1. CASE test = -1
    <3>1. ran[f] = [i \in 1 .. case[f] |-> i - 1] /\ Chosen = [i \in 1 .. TestCases |-> i - 1]
        BY <1>1, <1>2, <2>1 DEF ChosenBelow
    <3> QED BY <1>1, <3>1 DEF IsPrefix
  <2>2. CASE test # -1
    <3>1. ran[f] # <<>> => ran[f] = <<test>> /\ Chosen = <<test>>
        BY <1>1, <1>2, <2>2 DEF ChosenBelow
    <3> QED BY <3>1 DEF IsPrefix
  <2> QED BY <2>1, <2>2
<1>5. DOMAIN argv = 1 .. Len(argv) /\ \A i \in 1 .. Len(argv) : argv[i][1] = "D" => argv[i][2] \in File
    BY ArgvIsSeq
<1>6. thread[f] # "none" => \A i \in DOMAIN argv : argv[i][1] # "n"
    BY <1>5 DEF Asking, Asked
<1>7. ASSUME thread[f] # "none", NEW i \in DOMAIN argv, LastSelects(i), argv[i][1] = "D"
      PROVE  f = argv[i][2]
  <2>1. Names(i, Len(argv))
      BY <1>5, <1>7 DEF Names, LastSelects
  <2>2. device = argv[i][2]
      BY <1>5, <1>7, <2>1 DEF Asking, Asked
  <2>3. device # None
      BY <1>5, <1>7, <2>2, UsbTestAssumption
  <2> QED BY <1>7, <2>2, <2>3 DEF Asking, Asked
<1> QED BY <1>3, <1>4, <1>6, <1>7

\* What the command line asked for is what is run, for any command line, devices and
\* number of cases.
THEOREM AskedIsRun == Spec => []CasesAsAsked
BY Invariance, AskingInvariance, AskedFollows, PTL

\* The program does not end under a test it has begun, for any devices and options.
THEOREM TestsAreJoined == Spec => []ThreadsAreJoined
BY Invariance, PTL DEF IInv
=============================================================================
