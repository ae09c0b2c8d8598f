-------------------------------- MODULE UsbTest --------------------------------
(* The host's test driver (usbtest.c): the options, the list of the devices that *)
(* ftw collects, and a thread for each of them, or the main thread for only one. *)
(* External: usbfs, whose files appear and vanish with the devices.              *)
EXTENDS Integers, Sequences, SequencesExt, FiniteSets

CONSTANTS File,       \* the files under /proc/bus/usb
          Descriptor, \* the ids that a file's descriptor has; << >> for a file without
          Argv,       \* the command lines tried: options with their arguments
          TestCases,  \* TEST_CASES
          None,
          Env         \* the values of the environment's DEVICE, None if it is not set

\* -D comes with a file, -t with a number.
ASSUME UsbTestAssumption ==
  /\ TestCases \in Nat /\ IsFiniteSet(File) /\ None \notin File /\ Env \subseteq File \union {None}
  /\ \A a \in Argv :
       /\ a \in Seq(Range(a))
       /\ \A o \in Range(a) : (o[1] = "D" => o[2] \in File) /\ (o[1] = "t" => o[2] \in Int)

VARIABLES pc, args,   \* main; the options left
          device, all, not, forever, test,
          left,       \* the files that ftw has still to visit
          testdevs,   \* the list, newest first
          entry,      \* main's place in the list
          thread,     \* of the test of each device, main's own call included
          case,       \* i of handle_testdev
          ran,        \* history: the cases a device was asked to run
          argv        \* history: the whole command line

vars == <<pc, args, device, all, not, forever, test, left, testdevs, entry, thread, case,
          ran, argv>>

\* The letters of getopt; 'l' is not one of them.
Letters == {"D", "a", "c", "g", "h", "n", "s", "t", "v"}

Init ==
  /\ pc = "options" /\ argv \in Argv /\ args = argv
  /\ device \in Env
  /\ all = FALSE /\ not = FALSE /\ forever = FALSE /\ test = -1
  /\ left = File /\ testdevs = <<>> /\ entry = 1
  /\ thread = [f \in File |-> "none"] /\ case = [f \in File |-> 0]
  /\ ran = [f \in File |-> <<>>]

Config == <<device, all, not, forever, test>>
List   == <<left, testdevs, entry>>
Tests  == <<thread, case, ran>>

Exit == pc' = "end"

-----------------------------------------------------------------------------
(* main                                                                        *)

\* The sizes and counts are unsigned: their tests for a negative never hold.
\* An argument that is no option ends in usage too.
Option ==
  /\ pc = "options" /\ args # <<>> /\ args' = Tail(args)
  /\ LET o == Head(args)
         known == o[1] \in Letters \ {"h"} /\ ~(o[1] = "t" /\ o[2] < 0)
     IN /\ pc' = IF known THEN pc ELSE "end"
        /\ device' = IF ~known THEN device
                     ELSE IF o[1] = "D" THEN o[2] ELSE IF o[1] = "a" THEN None ELSE device
        /\ all' = (all \/ (known /\ o[1] = "a"))
        /\ not' = (not \/ (known /\ o[1] = "n"))
        /\ forever' = (forever \/ (known /\ o[1] = "l"))
        /\ test' = IF known /\ o[1] = "t" THEN o[2] ELSE test
  /\ UNCHANGED <<List, Tests, argv>>

\* Usage, or usbfs is missing.
OptionsEnd ==
  /\ pc = "options" /\ args = <<>>
  /\ \/ Exit
     \/ (all \/ device # None) /\ pc' = "ftw"
  /\ UNCHANGED <<args, Config, List, Tests, argv>>

Ids == {<<1351, 4098>>, <<1351, 8757>>, <<1204, 34323>>, <<1351, 128>>, <<1741, 267>>,
        <<1317, 42144>>, <<1317, 42148>>, <<1317, 42147>>, <<65520, 65520>>, <<2914, 89>>}

is_testdev(d) == d \in Ids

\* Directories, files named d..., and whatever could not be opened, read or stored
\* are passed over.
find_testdev(f) ==
  /\ pc = "ftw" /\ f \in left /\ left' = left \ {f}
  /\ \/ is_testdev(Descriptor[f]) /\ testdevs' = <<f>> \o testdevs
     \/ UNCHANGED testdevs
  /\ UNCHANGED <<pc, args, Config, entry, Tests, argv>>

\* A failure of ftw; no device; -n; the only device.
ListEnds ==
  /\ pc = "ftw"
  /\ \/ Exit /\ UNCHANGED device
     \/ left = {} /\ ((testdevs = <<>> /\ device = None) \/ not) /\ Exit /\ UNCHANGED device
     \/ /\ left = {} /\ (testdevs # <<>> \/ device # None) /\ ~not
        /\ device' = IF Len(testdevs) = 1 /\ device = None THEN testdevs[1] ELSE device
        /\ pc' = "start"
  /\ UNCHANGED <<args, all, not, forever, test, List, Tests, argv>>

Listed == entry <= Len(testdevs)
Calls(f, how) == thread' = [thread EXCEPT ![f] = how]

\* A slip: the loop goes on without its step.
StartOneStuck ==
  /\ pc = "start" /\ device # None
  /\ IF Listed /\ testdevs[entry] # device THEN UNCHANGED <<pc, entry, thread>>
     ELSE pc' = "single" /\ Calls(device, "open") /\ UNCHANGED entry
  /\ UNCHANGED <<args, Config, left, testdevs, case, ran, argv>>

\* A device that was named is tested by main, also when it is not on the list.
StartOne ==
  /\ pc = "start" /\ device # None
  /\ IF Listed /\ testdevs[entry] # device
     THEN entry' = entry + 1 /\ UNCHANGED <<pc, thread>>
     ELSE pc' = "single" /\ Calls(device, "open") /\ UNCHANGED entry
  /\ UNCHANGED <<args, Config, left, testdevs, case, ran, argv>>

CreateThread ==
  /\ pc = "start" /\ device = None
  /\ \/ /\ Listed /\ entry' = entry + 1 /\ UNCHANGED pc
        /\ \E how \in {"open", "not created"} : Calls(testdevs[entry], how)
     \/ ~Listed /\ pc' = "join" /\ entry' = 1 /\ UNCHANGED thread
  /\ UNCHANGED <<args, Config, left, testdevs, case, ran, argv>>

Over(f) == thread[f] \in {"not opened", "ended"}

SingleEnds ==
  /\ pc = "single" /\ Over(device) /\ Exit
  /\ UNCHANGED <<args, Config, List, Tests, argv>>

\* A slip: only the newest device is waited for.
JoinNewest ==
  /\ pc = "join" /\ (Over(testdevs[1]) \/ thread[testdevs[1]] = "not created") /\ Exit
  /\ UNCHANGED <<args, Config, List, Tests, argv>>

\* The handle of a thread that was not created was never set: to join it is an
\* error or the end of the process.
Join ==
  /\ pc = "join"
  /\ \/ Listed /\ Over(testdevs[entry]) /\ entry' = entry + 1 /\ UNCHANGED pc
     \/ /\ Listed /\ thread[testdevs[entry]] = "not created"
        /\ \/ entry' = entry + 1 /\ UNCHANGED pc
           \/ pc' = "crashed" /\ UNCHANGED entry
     \/ ~Listed /\ Exit /\ UNCHANGED entry
  /\ UNCHANGED <<args, Config, left, testdevs, Tests, argv>>

main == \/ Option \/ OptionsEnd \/ (\E f \in File : find_testdev(f)) \/ ListEnds
        \/ StartOne \/ CreateThread \/ SingleEnds \/ Join

-----------------------------------------------------------------------------
(* handle_testdev, which ends with the process.                                *)

OpenDevice(f) ==
  /\ thread[f] = "open" /\ \E how \in {"running", "not opened"} : Calls(f, how)
  /\ UNCHANGED <<case, ran>>

\* A slip: -t names the case to begin with.
RunCasesFrom(f) ==
  /\ thread[f] = "running" /\ case[f] < TestCases
  /\ case' = [case EXCEPT ![f] = @ + 1]
  /\ ran' = IF test <= case[f] THEN [ran EXCEPT ![f] = Append(@, case[f])] ELSE ran
  /\ UNCHANGED thread

\* A slip: off by one.
RunCaseTooMany(f) ==
  /\ thread[f] = "running" /\ case[f] <= TestCases
  /\ case' = [case EXCEPT ![f] = @ + 1]
  /\ ran' = IF test \in {-1, case[f]} THEN [ran EXCEPT ![f] = Append(@, case[f])] ELSE ran
  /\ UNCHANGED thread

RunCase(f) ==
  /\ thread[f] = "running" /\ case[f] < TestCases
  /\ case' = [case EXCEPT ![f] = @ + 1]
  /\ ran' = IF test \in {-1, case[f]} THEN [ran EXCEPT ![f] = Append(@, case[f])] ELSE ran
  /\ UNCHANGED thread

CasesEnd(f) ==
  /\ thread[f] = "running" /\ case[f] = TestCases
  /\ IF forever THEN case' = [case EXCEPT ![f] = 0] /\ UNCHANGED thread
     ELSE Calls(f, "ended") /\ UNCHANGED case
  /\ UNCHANGED ran

handle_testdev(f) ==
  /\ pc \notin {"end", "crashed"}
  /\ OpenDevice(f) \/ RunCase(f) \/ CasesEnd(f)
  /\ UNCHANGED <<pc, args, Config, List, argv>>

Rests == pc \in {"end", "crashed"} /\ UNCHANGED vars

Next == main \/ (\E f \in File : handle_testdev(f)) \/ Rests

Spec == Init /\ [][Next]_vars /\ WF_vars(main) /\ \A f \in File : WF_vars(handle_testdev(f))

-----------------------------------------------------------------------------
TypeOK ==
  /\ pc \in {"options", "ftw", "start", "single", "join", "end", "crashed"}
  /\ device \in File \union {None} /\ {all, not, forever} \subseteq BOOLEAN
  /\ test \in Int /\ left \subseteq File
  /\ Range(testdevs) \subseteq File /\ Len(testdevs) + Cardinality(left) <= Cardinality(File)
  /\ entry \in 1 .. Len(testdevs) + 1
  /\ thread \in [File -> {"none", "open", "running", "not created", "not opened", "ended"}]
  /\ case \in [File -> 0 .. TestCases] /\ argv \in Argv

Chosen == IF test = -1 THEN [i \in 1 .. TestCases |-> i - 1]
          ELSE IF test < TestCases THEN <<test>> ELSE <<>>
\* The option that has the last word on the devices.
LastSelects(i) ==
  argv[i][1] \in {"a", "D"} /\ \A j \in DOMAIN argv : j > i => argv[j][1] \notin {"a", "D"}

\* What the command line asked for is what is run: each device that was tested to
\* its end ran the chosen cases once and in order (none for a number that is no
\* case), no device runs another one, none at all under -n, and when the last word
\* on the devices was -D no other device is touched, though all are listed.
CasesAsAsked ==
  \A f \in File :
    /\ thread[f] = "ended" => ran[f] = Chosen
    /\ ran[f] # <<>> => IsPrefix(ran[f], Chosen)
    /\ thread[f] # "none" => \A i \in DOMAIN argv : argv[i][1] # "n"
    /\ thread[f] # "none" =>
         \A i \in DOMAIN argv : (LastSelects(i) /\ argv[i][1] = "D") => f = argv[i][2]

\* main returns only when every device that it began is done with, since its return
\* ends the threads; it crashes only where a thread could not be created.
ThreadsAreJoined ==
  /\ pc = "end" => \A f \in File : thread[f] \notin {"open", "running"}
  /\ pc = "crashed" => \E f \in File : thread[f] = "not created"

\* The program ends, because no command line can make it loop: every test returns.
Ends == <>(pc \in {"end", "crashed"})
=============================================================================
