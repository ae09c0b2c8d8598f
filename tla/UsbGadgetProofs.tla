--------------------------- MODULE UsbGadgetProofs ---------------------------
(* Ownership of the endpoint files and of the descriptors, for any number of   *)
(* threads and any host; what a descriptor that ep0 has loaded still names; and *)
(* that a polite host leaves no thread behind.                                 *)
EXTENDS UsbGadget, TLAPS

\* Program counters at which a thread must have a file open, or a descriptor set.
HasOut == {"config_out", "open_in", "config_in", "push"} \union Serving \union Leaving
HasIn  == {"config_in", "push", "cleanup"} \union Serving
OutSet == {"open_in", "config_in", "push", "cleanup"} \union Serving
InSet  == {"push", "cleanup"} \union Serving

Opened(t) == /\ tpc[t] \in HasOut => opener["out"] = t
             /\ tpc[t] \in HasIn => opener["in"] = t

\* A descriptor is set exactly between configuration and close_fd.
Named(t) == /\ tpc[t] \in OutSet => sink_fd = "out"
            /\ tpc[t] \in InSet => source_fd = "in"
            /\ tpc[t] \in {"config_out", "close"} => sink_fd = None
            /\ tpc[t] = "config_in" => source_fd = None

\* What ep0 has loaded: an OUT file is closed under ep0 only by a thread that has
\* configured its IN file too.  From then on the IN file is open for good, so that no
\* thread can open it and be given the number of the OUT file.
LoadInv ==
  /\ loaded # None => epc \in {"halt_in", "halt_out"}
  /\ HaltsOwnEndpoint
  /\ loaded = "in" => source_fd = "in"
  /\ loaded = "out" => sink_fd = "out" \/ source_fd = "in"
  /\ loaded = "closed" => source_fd = "in"

IInv == /\ TypeOK
        /\ FdsAreOpen
        /\ LoadInv
        /\ epc = "create_sink" => source \in Thread
        /\ \A t \in Thread : Opened(t) /\ Named(t)

-----------------------------------------------------------------------------

LEMMA InitIInv == Init => IInv
<1> SUFFICES ASSUME Init PROVE IInv
    OBVIOUS
<1>1. TypeOK
    BY DEF Init, TypeOK, Event, Request
<1>2. FdsAreOpen /\ epc # "create_sink"
    BY DEF Init, FdsAreOpen
<1>3. \A t \in Thread : Opened(t) /\ Named(t)
    BY DEF Init, Opened, Named, HasOut, HasIn, OutSet, InSet, Serving, Leaving
<1>4. LoadInv
    BY GadgetAssumption DEF Init, LoadInv, HaltsOwnEndpoint, Endpoint
<1> QED BY <1>1, <1>2, <1>3, <1>4 DEF IInv

\* The control thread's steps and the host's leave files and descriptors alone and
\* move no thread into or out of a place where it holds something.
LEMMA QuietStep ==
  ASSUME IInv, TypeOK', LoadInv',
         UNCHANGED <<opener, source_fd, sink_fd>>,
         \A t \in Thread : tpc'[t] = tpc[t] \/ tpc'[t] \in {"free", "source", "open_out", "ended"},
         (epc = "create_sink" => source \in Thread)'
  PROVE  IInv'
<1>1. FdsAreOpen'
    BY DEF IInv, FdsAreOpen
<1>2. ASSUME NEW t \in Thread PROVE Opened(t)' /\ Named(t)'
    BY <1>2 DEF IInv, Opened, Named, HasOut, HasIn, OutSet, InSet, Serving, Leaving
<1> QED BY <1>1, <1>2 DEF IInv

\* The number ep0 has loaded does not change, or ep0 has none and loads none.
LEMMA SameLoad ==
  ASSUME LoadInv, UNCHANGED loaded,
         \/ UNCHANGED <<epc, source_fd, sink_fd>>
         \/ epc \notin {"halt_in", "halt_out"}
  PROVE  LoadInv'
BY GadgetAssumption DEF LoadInv, HaltsOwnEndpoint, Endpoint

LEMMA HostIInv ==
  ASSUME IInv, HostConnect \/ HostDisconnect \/ \E r \in Request : HostSetup(r)
  PROVE  IInv'
<1>0. LoadInv'
    BY SameLoad DEF IInv, HostConnect, HostDisconnect, HostSetup, fileVars, ep0Vars
<1> USE <1>0 DEF IInv, TypeOK, hostVars, fileVars, ep0Vars
<1>1. CASE HostConnect
    BY <1>1, QuietStep DEF HostConnect
<1>2. CASE HostDisconnect
  <2>1. TypeOK'
      BY <1>2 DEF HostDisconnect, Event
  <2> QED BY <1>2, <2>1, QuietStep DEF HostDisconnect
<1>3. CASE \E r \in Request : HostSetup(r)
  <2>1. TypeOK'
      BY <1>3 DEF HostSetup, Event
  <2> QED BY <1>3, <2>1, QuietStep DEF HostSetup
<1> QED BY <1>1, <1>2, <1>3

LEMMA Ep0IInv ==
  ASSUME IInv, Ep0Step \/ Interrupted
  PROVE  IInv'
<1>0. LoadInv' \/ LoadSource \/ HaltSource \/ HaltSink
    BY SameLoad DEF IInv, Ep0Step, Interrupted, ReadEvent, CreateSource, CreateSink, StopSource,
       StopSink, JoinSource, JoinSink, Answer, fileVars
<1> USE DEF IInv, hostVars, fileVars, ep0Vars
<1>1. CASE ReadEvent
  <2>1. TypeOK' /\ epc' # "create_sink"
      BY <1>1, GadgetAssumption DEF ReadEvent, TypeOK, Event, Handler, Request
  <2> QED BY <1>1, <2>1, <1>0, QuietStep DEF ReadEvent, LoadSource, HaltSource, HaltSink
<1>2. CASE CreateSource
  <2>1. TypeOK' /\ (epc' = "create_sink" => source' \in Thread)
      BY <1>2 DEF CreateSource, TypeOK, Free
  <2>2. \A t \in Thread : tpc'[t] = tpc[t] \/ tpc'[t] = "source"
      BY <1>2 DEF CreateSource, TypeOK
  <2> QED BY <1>2, <2>1, <2>2, <1>0, QuietStep DEF CreateSource, LoadSource, HaltSource, HaltSink
<1>3. CASE CreateSink
  <2>1. TypeOK'
      BY <1>3 DEF CreateSink, TypeOK, Free, SinkPC, Starting
  <2>2. \A t \in Thread : tpc'[t] = tpc[t] \/ tpc'[t] = "open_out"
      BY <1>3 DEF CreateSink, TypeOK
  <2> QED BY <1>3, <2>1, <2>2, <1>0, QuietStep DEF CreateSink, LoadSource, HaltSource, HaltSink
<1>4. CASE StopSource
  <2>1. TypeOK'
      BY <1>4 DEF StopSource, TypeOK
  <2> QED BY <1>4, <2>1, <1>0, QuietStep DEF StopSource, LoadSource, HaltSource, HaltSink
<1>5. CASE StopSink
  <2>1. TypeOK' /\ epc' # "create_sink"
      BY <1>5 DEF StopSink, TypeOK, AfterStop
  <2> QED BY <1>5, <2>1, <1>0, QuietStep DEF StopSink, LoadSource, HaltSource, HaltSink
<1>6. CASE JoinSource
  <2>1. TypeOK'
      BY <1>6 DEF JoinSource, TypeOK, Joined
  <2>2. \A t \in Thread : tpc'[t] = tpc[t] \/ tpc'[t] = "free"
      BY <1>6 DEF JoinSource, Joined
  <2> QED BY <1>6, <2>1, <2>2, <1>0, QuietStep DEF JoinSource, LoadSource, HaltSource, HaltSink
<1>7. CASE JoinSink
  <2>1. TypeOK' /\ epc' # "create_sink"
      BY <1>7 DEF JoinSink, TypeOK, Joined, AfterStop
  <2>2. \A t \in Thread : tpc'[t] = tpc[t] \/ tpc'[t] = "free"
      BY <1>7 DEF JoinSink, Joined
  <2> QED BY <1>7, <2>1, <2>2, <1>0, QuietStep DEF JoinSink, LoadSource, HaltSource, HaltSink
<1>8. CASE Answer
  <2>1. TypeOK'
      BY <1>8 DEF Answer, TypeOK
  <2> QED BY <1>8, <2>1, <1>0, QuietStep DEF Answer, LoadSource, HaltSource, HaltSink
<1>9. CASE Interrupted
  <2>1. TypeOK'
      BY <1>9 DEF Interrupted, TypeOK
  <2> QED BY <1>9, <2>1, <1>0, QuietStep DEF Interrupted, LoadSource, HaltSource, HaltSink
<1>10. CASE LoadSource \/ HaltSource \/ HaltSink
  <2>1. TypeOK'
      BY <1>10 DEF LoadSource, HaltSource, HaltSink, TypeOK, Endpoint
  <2>2. LoadInv'
      BY <1>10, GadgetAssumption DEF LoadSource, HaltSource, HaltSink, LoadInv, HaltsOwnEndpoint,
         TypeOK, Endpoint
  <2> QED BY <1>10, <2>1, <2>2, QuietStep DEF LoadSource, HaltSource, HaltSink
<1> QED BY <1>1, <1>2, <1>3, <1>4, <1>5, <1>6, <1>7, <1>8, <1>9, <1>10 DEF Ep0Step

-----------------------------------------------------------------------------
(* I/O threads.  A step of thread t concerns the others only through files and *)
(* descriptors, and those it changes are its own.                              *)

LEMMA OneThread ==
  ASSUME IInv, NEW t \in Thread,
         TypeOK', FdsAreOpen', LoadInv', Opened(t)', Named(t)', UNCHANGED <<epc, source>>,
         \A u \in Thread \ {t} : tpc'[u] = tpc[u],
         \A e \in Endpoint : opener[e] \in Thread \ {t} => opener'[e] = opener[e],
         sink_fd' # sink_fd => opener["out"] = t,
         source_fd' # source_fd => opener["in"] = t
  PROVE  IInv'
<1>1. ASSUME NEW u \in Thread, u # t PROVE Opened(u)' /\ Named(u)'
  <2>1. /\ tpc'[u] = tpc[u] /\ Opened(u) /\ Named(u)
        /\ opener["out"] = u => opener'["out"] = u /\ sink_fd' = sink_fd
        /\ opener["in"] = u => opener'["in"] = u /\ source_fd' = source_fd
      BY <1>1 DEF IInv, Endpoint
  <2> QED BY <2>1 DEF Opened, Named, HasOut, HasIn, OutSet, InSet, Serving, Leaving
<1> QED BY <1>1 DEF IInv

\* An ending thread keeps no claim; what it closes must not be named any more.
LEMMA EndsIInv ==
  ASSUME IInv, NEW t \in Thread, NEW closed \in SUBSET Endpoint, Ends(t, closed),
         cancel' \subseteq cancel,
         UNCHANGED <<hostVars, source_fd, sink_fd, ep0Vars>>,
         "out" \in closed /\ opener["out"] = t => sink_fd = None,
         "in" \in closed /\ opener["in"] = t => source_fd = None
  PROVE  IInv'
<1> USE DEF hostVars, ep0Vars
<1>1. TypeOK'
    BY GadgetAssumption DEF IInv, TypeOK, Ends, Goto
<1>2. FdsAreOpen'
    BY GadgetAssumption DEF IInv, TypeOK, FdsAreOpen, Ends, Endpoint
<1>3. tpc'[t] = "ended" /\ \A u \in Thread \ {t} : tpc'[u] = tpc[u]
    BY DEF IInv, TypeOK, Ends, Goto
<1>4. Opened(t)' /\ Named(t)'
    BY <1>3 DEF Opened, Named, HasOut, HasIn, OutSet, InSet, Serving, Leaving
<1>5. \A e \in Endpoint : opener[e] # t => opener'[e] = opener[e]
    BY DEF Ends
<1>6. LoadInv'
  <2>1. (loaded' = loaded \/ (loaded = "out" /\ loaded' = "closed" /\ sink_fd = None))
      BY GadgetAssumption DEF IInv, LoadInv, TypeOK, Ends, Endpoint
  <2> QED BY <2>1, GadgetAssumption DEF IInv, LoadInv, HaltsOwnEndpoint, TypeOK, Endpoint
<1> QED BY <1>1, <1>2, <1>3, <1>4, <1>5, <1>6, OneThread

\* A step that only moves t to a place with the same or fewer claims.
LEMMA StepIInv ==
  ASSUME IInv, NEW t \in Thread, NEW from, NEW to \in SinkPC, Step(t, from, to),
         \/ from = "push" /\ to = "loop"
         \/ from \in Serving /\ to \in Serving \union {"cleanup"}
  PROVE  IInv'
<1> USE DEF hostVars, ep0Vars, fileVars
<1>1. TypeOK' /\ tpc[t] = from /\ tpc'[t] = to /\ \A u \in Thread \ {t} : tpc'[u] = tpc[u]
    BY DEF IInv, TypeOK, Step, Goto
<1>2. FdsAreOpen' /\ LoadInv'
    BY SameLoad DEF IInv, FdsAreOpen, Step
<1>3. Opened(t)' /\ Named(t)'
  <2>1. Opened(t) /\ Named(t)
      BY DEF IInv
  <2> QED BY <1>1, <2>1 DEF Step, Opened, Named, HasOut, HasIn, OutSet, InSet, Serving, Leaving
<1> QED BY <1>1, <1>2, <1>3, OneThread DEF Step

LEMMA OpenIInv ==
  ASSUME IInv, NEW t \in Thread, OpenOut(t) \/ OpenIn(t)
  PROVE  IInv'
<1> USE DEF hostVars, ep0Vars, Endpoint
<1>1. CASE \E e \in Endpoint : opener[e] # None /\ Ends(t, {})
    BY <1>1, EndsIInv DEF OpenOut, OpenIn, Opens
<1>2. CASE OpenOut(t) /\ opener["out"] = None
  <2>1. /\ opener' = [opener EXCEPT !["out"] = t] /\ tpc' = [tpc EXCEPT ![t] = "config_out"]
        /\ sink_fd = None
      BY <1>2 DEF IInv, TypeOK, FdsAreOpen, OpenOut, Opens, Goto
  <2>0. loaded' \in {loaded, "out"} /\ (loaded' # loaded => loaded = "closed")
      BY <1>2, <2>1, GadgetAssumption DEF IInv, TypeOK, FdsAreOpen, OpenOut, Opens
  <2>2. TypeOK' /\ tpc'[t] = "config_out" /\ \A u \in Thread \ {t} : tpc'[u] = tpc[u]
    <3>1. tpc' \in [Thread -> SinkPC \union {"free", "source", "ended"}]
        BY <2>1 DEF IInv, TypeOK, SinkPC, Starting
    <3>2. opener' \in [Endpoint -> Thread \union {None, Lost}] /\ loaded' \in Endpoint \union {None, "closed"}
        BY <2>0, <2>1 DEF IInv, TypeOK
    <3> QED BY <1>2, <2>1, <3>1, <3>2 DEF IInv, TypeOK, OpenOut, Opens
  <2>3. FdsAreOpen' /\ Opened(t)' /\ Named(t)'
      BY <1>2, <2>1, <2>2, GadgetAssumption DEF IInv, TypeOK, FdsAreOpen, OpenOut, Opens,
         Opened, Named, HasOut, HasIn, OutSet, InSet, Serving, Leaving
  <2>4. \A e \in Endpoint : opener[e] \in Thread \ {t} => opener'[e] = opener[e]
      BY <1>2, <2>1, GadgetAssumption DEF IInv, TypeOK
  <2>5. LoadInv'
      BY <1>2, <2>0, GadgetAssumption DEF IInv, LoadInv, HaltsOwnEndpoint, OpenOut, Opens
  <2> QED BY <1>2, <2>2, <2>3, <2>4, <2>5, OneThread DEF OpenOut, Opens
<1>3. CASE OpenIn(t) /\ opener["in"] = None
  <2>1. /\ opener' = [opener EXCEPT !["in"] = t] /\ tpc' = [tpc EXCEPT ![t] = "config_in"]
        /\ source_fd = None
      BY <1>3 DEF IInv, TypeOK, FdsAreOpen, OpenIn, Opens, Goto
  <2>0. loaded' = loaded
      BY <1>3, <2>1, GadgetAssumption DEF IInv, LoadInv, OpenIn, Opens
  <2>2. TypeOK' /\ tpc'[t] = "config_in" /\ \A u \in Thread \ {t} : tpc'[u] = tpc[u]
    <3>1. tpc' \in [Thread -> SinkPC \union {"free", "source", "ended"}]
        BY <2>1 DEF IInv, TypeOK, SinkPC, Starting
    <3>2. opener' \in [Endpoint -> Thread \union {None, Lost}] /\ loaded' \in Endpoint \union {None, "closed"}
        BY <2>0, <2>1 DEF IInv, TypeOK
    <3> QED BY <1>3, <2>1, <3>1, <3>2 DEF IInv, TypeOK, OpenIn, Opens
  <2>3. FdsAreOpen' /\ Opened(t)' /\ Named(t)'
      BY <1>3, <2>1, <2>2, GadgetAssumption DEF IInv, TypeOK, FdsAreOpen, OpenIn, Opens,
         Opened, Named, HasOut, HasIn, OutSet, InSet, Serving, Leaving
  <2>4. \A e \in Endpoint : opener[e] \in Thread \ {t} => opener'[e] = opener[e]
      BY <1>3, <2>1, GadgetAssumption DEF IInv, TypeOK
  <2>6. LoadInv'
      BY <1>3, <2>0, SameLoad DEF IInv, OpenIn, Opens
  <2> QED BY <1>3, <2>2, <2>3, <2>4, <2>6, OneThread DEF OpenIn, Opens
<1> QED BY <1>1, <1>2, <1>3 DEF OpenOut, OpenIn, Opens

\* A descriptor is set by the thread that has the file open; a file whose
\* configuration fails is closed before any descriptor names it.
LEMMA ConfigIInv ==
  ASSUME IInv, NEW t \in Thread, ConfigOut(t) \/ ConfigIn(t)
  PROVE  IInv'
<1> USE DEF hostVars, ep0Vars, Endpoint
<1>1. CASE ConfigOut(t) /\ connected
  <2>1. TypeOK' /\ tpc'[t] = "open_in" /\ \A u \in Thread \ {t} : tpc'[u] = tpc[u]
      BY <1>1 DEF IInv, TypeOK, ConfigOut, Ends, Goto, SinkPC, Starting
  <2>2. opener["out"] = t /\ sink_fd' = "out" /\ opener' = opener /\ source_fd' = source_fd
      BY <1>1 DEF IInv, Opened, HasOut, ConfigOut
  <2>3. FdsAreOpen' /\ Opened(t)' /\ Named(t)'
      BY <2>1, <2>2, GadgetAssumption DEF IInv, TypeOK, FdsAreOpen,
         Opened, Named, HasOut, HasIn, OutSet, InSet, Serving, Leaving
  <2>4. LoadInv'
      BY <1>1, <2>2, GadgetAssumption DEF IInv, LoadInv, HaltsOwnEndpoint, ConfigOut
  <2> QED BY <1>1, <2>1, <2>2, <2>3, <2>4, OneThread DEF ConfigOut
<1>2. CASE ConfigIn(t) /\ connected
  <2>1. TypeOK' /\ tpc'[t] = "push" /\ \A u \in Thread \ {t} : tpc'[u] = tpc[u]
      BY <1>2 DEF IInv, TypeOK, ConfigIn, Ends, Goto, SinkPC, Starting
  <2>2. /\ opener["in"] = t /\ source_fd' = "in" /\ opener' = opener
        /\ sink_fd' = sink_fd /\ opener["out"] = t /\ sink_fd = "out"
      BY <1>2 DEF IInv, Opened, Named, HasIn, HasOut, OutSet, ConfigIn
  <2>3. FdsAreOpen' /\ Opened(t)' /\ Named(t)'
      BY <2>1, <2>2, GadgetAssumption DEF IInv, TypeOK, FdsAreOpen,
         Opened, Named, HasOut, HasIn, OutSet, InSet, Serving, Leaving
  <2>4. LoadInv'
      BY <1>2, <2>2, GadgetAssumption DEF IInv, LoadInv, HaltsOwnEndpoint, ConfigIn
  <2> QED BY <1>2, <2>1, <2>2, <2>3, <2>4, OneThread DEF ConfigIn
<1>3. CASE ConfigOut(t) /\ ~connected
  <2>1. sink_fd = None
      BY <1>3 DEF IInv, Named, ConfigOut
  <2> QED BY <1>3, <2>1, EndsIInv DEF ConfigOut
<1>4. CASE ConfigIn(t) /\ ~connected
  <2>1. source_fd = None
      BY <1>4 DEF IInv, Named, ConfigIn
  <2> QED BY <1>4, <2>1, EndsIInv DEF ConfigIn
<1> QED BY <1>1, <1>2, <1>3, <1>4

\* close_fd takes the name away before it closes; the IN file is open by then.
LEMMA CloseIInv ==
  ASSUME IInv, NEW t \in Thread, ClearFd(t) \/ CloseFd(t)
  PROVE  IInv'
<1> USE DEF hostVars, ep0Vars, Endpoint
<1>1. CASE ClearFd(t)
  <2>1. TypeOK' /\ tpc'[t] = "close" /\ \A u \in Thread \ {t} : tpc'[u] = tpc[u]
      BY <1>1 DEF IInv, TypeOK, ClearFd, Goto, SinkPC, Leaving
  <2>2. opener["out"] = t /\ sink_fd' = None
      BY <1>1 DEF IInv, Opened, HasOut, Leaving, ClearFd
  <2>3. FdsAreOpen' /\ Opened(t)' /\ Named(t)'
      BY <1>1, <2>1, <2>2 DEF IInv, FdsAreOpen, ClearFd,
         Opened, Named, HasOut, HasIn, OutSet, InSet, Serving, Leaving
  <2>4. source_fd = "in" /\ source_fd' = "in" /\ loaded' = loaded /\ epc' = epc
      BY <1>1 DEF IInv, Named, InSet, ClearFd
  <2>5. LoadInv'
      BY <2>4, GadgetAssumption DEF IInv, LoadInv, HaltsOwnEndpoint
  <2> QED BY <1>1, <2>1, <2>2, <2>3, <2>5, OneThread DEF ClearFd
<1>2. CASE CloseFd(t)
  <2>1. sink_fd = None
      BY <1>2 DEF IInv, Named, CloseFd
  <2> QED BY <1>2, <2>1, EndsIInv DEF CloseFd
<1> QED BY <1>1, <1>2

LEMMA CancelledIInv ==
  ASSUME IInv, NEW t \in Thread, Cancelled(t)
  PROVE  IInv'
<1> USE DEF hostVars, ep0Vars
<1>1. CASE Ends(t, {})
    BY <1>1, EndsIInv DEF Cancelled
<1>2. CASE /\ tpc[t] \in Serving \union {"cleanup"} /\ Goto(t, "cleanup")
           /\ UNCHANGED <<live, opener, loaded>>
  <2>1. TypeOK' /\ tpc'[t] = "cleanup" /\ \A u \in Thread \ {t} : tpc'[u] = tpc[u]
      BY <1>2 DEF IInv, TypeOK, Cancelled, Goto, SinkPC, Leaving
  <2>2. FdsAreOpen' /\ LoadInv'
      BY <1>2, SameLoad DEF IInv, FdsAreOpen, Cancelled
  <2>3. Opened(t)' /\ Named(t)'
    <3>1. Opened(t) /\ Named(t)
        BY DEF IInv
    <3> QED BY <1>2, <2>1, <3>1 DEF Cancelled, Opened, Named, HasOut, HasIn, OutSet, InSet,
               Serving, Leaving
  <2> QED BY <1>2, <2>1, <2>2, <2>3, OneThread DEF Cancelled
<1> QED BY <1>1, <1>2 DEF Cancelled

LEMMA SourceIInv ==
  ASSUME IInv, NEW t \in Thread, SourceReturns(t)
  PROVE  IInv'
<1> USE DEF hostVars, ep0Vars, fileVars
<1>1. TypeOK'
    BY DEF IInv, TypeOK, SourceReturns, Goto
<1>2. \A u \in Thread : tpc'[u] = tpc[u] \/ tpc'[u] = "ended"
    BY DEF IInv, TypeOK, SourceReturns, Goto
<1>3. LoadInv'
    BY SameLoad DEF IInv, SourceReturns
<1> QED BY <1>1, <1>2, <1>3, QuietStep DEF SourceReturns, IInv

LEMMA MovesIInv ==
  ASSUME IInv, NEW t \in Thread,
         Push(t) \/ TestCancel(t) \/ ReadError(t) \/ WriteError(t) \/ Traffic(t)
  PROVE  IInv'
<1> USE DEF Serving, Leaving, SinkPC
<1>1. CASE Push(t)
    BY <1>1, StepIInv DEF Push
<1>2. CASE TestCancel(t)
    BY <1>2, StepIInv DEF TestCancel
<1>3. CASE ReadError(t) \/ ReadEmpty(t)
    BY <1>3, StepIInv DEF ReadError, ReadEmpty
<1>4. CASE WriteError(t) \/ HostTakes(t)
    BY <1>4, StepIInv DEF WriteError, HostTakes
<1>5. CASE ReadData(t)
    BY <1>5, StepIInv DEF ReadData
<1> QED BY <1>1, <1>2, <1>3, <1>4, <1>5 DEF Traffic

LEMMA NextIInv == IInv /\ [Next]_vars => IInv'
<1> SUFFICES ASSUME IInv, [Next]_vars PROVE IInv'
    OBVIOUS
<1>1. CASE HostConnect \/ HostDisconnect \/ \E r \in Request : HostSetup(r)
    BY <1>1, HostIInv
<1>2. CASE Ep0Step \/ Interrupted
    BY <1>2, Ep0IInv
<1>3. CASE \E t \in Thread : ThreadStep(t) \/ Traffic(t)
    BY <1>3, OpenIInv, ConfigIInv, CloseIInv, CancelledIInv, SourceIInv, MovesIInv DEF ThreadStep
<1>4. CASE UNCHANGED vars
  <2>1. TypeOK'
      BY <1>4 DEF IInv, TypeOK, vars, hostVars, fileVars, ep0Vars
  <2>2. LoadInv'
      BY <1>4, SameLoad DEF IInv, vars, fileVars, ep0Vars
  <2> QED BY <1>4, <2>1, <2>2, QuietStep DEF IInv, vars, hostVars, fileVars, ep0Vars
<1> QED BY <1>1, <1>2, <1>3, <1>4 DEF Next

\* The inductive invariant, for any threads and any host: what each thread has opened.
THEOREM Invariance == Spec => []IInv
BY InitIInv, NextIInv, PTL DEF Spec

\* For any number of threads and any host the variables keep their types: ep0 never
\* cancels or joins itself.
THEOREM TypeCorrect == Spec => []TypeOK
<1>1. IInv => TypeOK
    BY DEF IInv
<1> QED BY <1>1, Invariance, PTL

\* For any number of threads and any host, a serving thread has both endpoint files
\* to itself and is the one the global descriptors belong to.
THEOREM Ownership == Spec => []SinkOwnsFiles
<1>1. IInv => SinkOwnsFiles
    BY DEF IInv, SinkOwnsFiles, Opened, Named, HasOut, HasIn, OutSet, InSet, Endpoint
<1> QED BY <1>1, Invariance, PTL

\* For any number of threads and any host, source_fd and sink_fd name open files.
THEOREM DescriptorsOpen == Spec => []FdsAreOpen
<1>1. IInv => FdsAreOpen
    BY DEF IInv
<1> QED BY <1>1, Invariance, PTL

\* For any number of threads and any host, SET_INTERFACE's ioctls act on their own
\* endpoint or fail, whatever the sink threads do after ep0 has loaded a descriptor.
THEOREM HaltsStayHome == Spec => []HaltsOwnEndpoint
<1>1. IInv => HaltsOwnEndpoint
    BY DEF IInv, LoadInv
<1> QED BY <1>1, Invariance, PTL

-----------------------------------------------------------------------------
(* A polite host configures once, waits for its answers and does not come back *)
(* before its disconnect was noticed; two threads can be created.              *)

Polite == /\ ~Reconfigures /\ ~FastReset /\ ~Timeouts /\ ~Interrupts
          /\ \E t, u \in Thread : t # u

NoThreads == source = Ep0 /\ sink = Ep0

\* What ep0_thread's place says of the handles.
PlaceInv ==
  /\ epc # "dead"
  /\ epc = "create_source" => NoThreads
  /\ epc = "create_sink" => sink = Ep0
  /\ epc \in {"create_source", "create_sink"} => cur = "setconf1"
  /\ epc \in {"stop_source", "join_source", "stop_sink", "join_sink"}
       => cur \in {"disconnect", "setconf0"}
  /\ epc \in {"stop_sink", "join_sink"} => source = Ep0
  /\ epc = "answer" => cur \in Request
  /\ epc \in {"load_in", "halt_in", "halt_out"} => cur = "other"
  /\ epc = "answer" /\ cur = "setconf0" => NoThreads
  /\ epc # "poll" /\ cur # "disconnect" => setup \in {"open", "aborted"}

Unused == /\ event # "disconnect" /\ ~configured
          /\ epc = "poll" \/ cur = "other"

\* An unconfigured device without a disconnect ahead has no I/O threads.
IdleInv ==
  /\ Unused => NoThreads
  /\ event = "setconf1" => epc = "poll" /\ ~configured
  /\ setup = "aborted" => event = "disconnect"

PInv == NoOrphan /\ PlaceInv /\ IdleInv

LEMMA InitPInv == Init => PInv
BY GadgetAssumption DEF Init, PInv, NoOrphan, PlaceInv, IdleInv, Unused, NoThreads, Request

LEMMA ThreadPInv ==
  ASSUME IInv, PInv, NEW t \in Thread, ThreadStep(t) \/ Traffic(t)
  PROVE  PInv'
<1>1. UNCHANGED <<epc, cur, source, sink, setup, event, configured>>
    BY DEF ThreadStep, Traffic, SourceReturns, Cancelled, OpenOut, OpenIn, Opens, ConfigOut,
       ConfigIn, Push, TestCancel, ReadError, WriteError, ClearFd, CloseFd, ReadData, ReadEmpty,
       HostTakes, Step, hostVars, ep0Vars
<1>2. tpc[t] # "free"
    BY DEF ThreadStep, Traffic, SourceReturns, Cancelled, OpenOut, OpenIn, Opens, ConfigOut,
       ConfigIn, Push, TestCancel, ReadError, WriteError, ClearFd, CloseFd, ReadData, ReadEmpty,
       HostTakes, Step, Starting, Serving
<1>3. \E pc : Goto(t, pc)
    BY DEF ThreadStep, Traffic, SourceReturns, Cancelled, OpenOut, OpenIn, Opens, ConfigOut,
       ConfigIn, Push, TestCancel, ReadError, WriteError, ClearFd, CloseFd, ReadData, ReadEmpty,
       HostTakes, Step, Ends
<1>4. \A u \in Thread \ {t} : tpc'[u] = tpc[u]
    BY <1>3 DEF Goto, IInv, TypeOK
<1> QED BY <1>1, <1>2, <1>4 DEF PInv, NoOrphan, PlaceInv, IdleInv, Unused, NoThreads

LEMMA HostPInv ==
  ASSUME Polite, PInv, HostConnect \/ HostDisconnect \/ \E r \in Request : HostSetup(r)
  PROVE  PInv'
<1> USE GadgetAssumption DEF PInv, NoOrphan, PlaceInv, IdleInv, Unused, NoThreads, hostVars, fileVars, ep0Vars
<1>1. CASE HostConnect
    BY <1>1 DEF HostConnect, Polite, Quiet
<1>2. CASE HostDisconnect
    BY <1>2 DEF HostDisconnect
<1>3. CASE \E r \in Request : HostSetup(r)
  <2>1. PICK r \in Request : HostSetup(r)
      BY <1>3
  <2>2. event = None /\ epc = "poll" /\ setup = "none" /\ (r = "setconf1" => ~configured)
      BY <2>1 DEF HostSetup, Polite, Quiet
  <2>3. /\ UNCHANGED <<configured, epc, cur, source, sink, tpc>>
        /\ event' = r /\ setup' = "none"
      BY <2>1, <2>2 DEF HostSetup
  <2>4. NoOrphan' /\ PlaceInv'
      BY <2>2, <2>3
  <2>5. None # "disconnect"
      BY DEF Event
  <2>6. Unused' => NoThreads'
      BY <2>2, <2>3, <2>5
  <2>7. IdleInv'
      BY <2>2, <2>3, <2>6
  <2> QED BY <2>4, <2>7
<1> QED BY <1>1, <1>2, <1>3

LEMMA Ep0PInv ==
  ASSUME Polite, IInv, PInv, Ep0Step \/ Interrupted
  PROVE  PInv'
<1> USE DEF PInv, hostVars, fileVars, ep0Vars
<1>1. CASE ReadEvent
    BY <1>1, GadgetAssumption DEF ReadEvent, NoOrphan, PlaceInv, IdleInv, Unused, NoThreads, Handler, Request, Event,
       IInv, TypeOK, SinkPC
<1>2. CASE CreateSource
  <2>1. PICK t \in Thread : source' = t /\ epc' = "create_sink" /\ tpc' = [tpc EXCEPT ![t] = "source"]
      BY <1>2, GadgetAssumption DEF CreateSource, Free, Polite, NoOrphan, PlaceInv, NoThreads
  <2>2. NoOrphan'
      BY <1>2, <2>1, GadgetAssumption DEF CreateSource, NoOrphan, PlaceInv, NoThreads, IInv, TypeOK
  <2> QED BY <1>2, <2>1, <2>2, GadgetAssumption DEF CreateSource, PlaceInv, IdleInv, Unused, NoThreads
<1>3. CASE CreateSink
  <2>1. Free # {}
      BY <1>3, GadgetAssumption DEF CreateSink, Free, Polite, NoOrphan, PlaceInv
  <2>2. PICK t \in Thread : sink' = t /\ source' = source /\ tpc' = [tpc EXCEPT ![t] = "open_out"]
      BY <1>3, <2>1 DEF CreateSink, Free
  <2>3. NoOrphan'
      BY <1>3, <2>2, GadgetAssumption DEF CreateSink, NoOrphan, PlaceInv, IInv, TypeOK
  <2> QED BY <1>3, <2>2, <2>3 DEF CreateSink, PlaceInv, IdleInv, Unused, NoThreads, Request
<1>4. CASE StopSource
    BY <1>4 DEF StopSource, NoOrphan, PlaceInv, IdleInv, Unused, NoThreads
<1>5. CASE StopSink
    BY <1>5 DEF StopSink, AfterStop, NoOrphan, PlaceInv, IdleInv, Unused, NoThreads, Request
<1>6. CASE JoinSource
    BY <1>6 DEF JoinSource, Joined, NoOrphan, PlaceInv, IdleInv, Unused, NoThreads
<1>7. CASE JoinSink
    BY <1>7 DEF JoinSink, Joined, AfterStop, NoOrphan, PlaceInv, IdleInv, Unused, NoThreads, Request
<1>8. CASE Answer
    BY <1>8 DEF Answer, NoOrphan, PlaceInv, IdleInv, Unused, NoThreads, Request
<1>9. CASE Interrupted
    BY <1>9 DEF Interrupted, Polite
<1>10. CASE LoadSource \/ HaltSource \/ HaltSink
    BY <1>10 DEF LoadSource, HaltSource, HaltSink, NoOrphan, PlaceInv, IdleInv, Unused, NoThreads, Request
<1> QED BY <1>1, <1>2, <1>3, <1>4, <1>5, <1>6, <1>7, <1>8, <1>9, <1>10 DEF Ep0Step

\* A polite host leaves no thread behind, whatever the bus, the cancellations and the
\* endpoints do: at every moment stop_io can reach each I/O thread.
THEOREM NoThreadLost == Polite /\ Spec => []NoOrphan
<1> SUFFICES ASSUME Polite PROVE Spec => []NoOrphan
    OBVIOUS
<1>1. IInv /\ PInv /\ [Next]_vars => PInv'
  <2> SUFFICES ASSUME IInv, PInv, [Next]_vars PROVE PInv'
      OBVIOUS
  <2>1. CASE UNCHANGED vars
      BY <2>1 DEF vars, hostVars, ep0Vars, PInv, NoOrphan, PlaceInv, IdleInv, Unused, NoThreads
  <2> QED BY <2>1, ThreadPInv, HostPInv, Ep0PInv DEF Next
<1>2. PInv => NoOrphan
    BY DEF PInv
<1> QED BY <1>1, <1>2, InitPInv, Invariance, PTL DEF Spec
=============================================================================
