------------------------------ MODULE UsbGadget ------------------------------
(* The gadget's life cycle (usb.c): the ep0 thread takes events from gadgetfs,   *)
(* creates the I/O threads at SET_CONFIGURATION(1), cancels and joins them at    *)
(* SET_CONFIGURATION(0) and at a disconnect; a sink thread opens the endpoint    *)
(* files and serves until its read fails or it is cancelled.  One action per     *)
(* system call that another thread, the kernel or the host can come before.      *)
(* External: gadgetfs opens an endpoint file once at a time, configures it only  *)
(* while the host is connected, disables it at a disconnect, drops queued events *)
(* at CONNECT and DISCONNECT and an unread SETUP at the next SETUP.  CONNECT     *)
(* and SUSPEND themselves are not kept: ep0_thread does nothing with them.       *)
EXTENDS Naturals, FiniteSets

CONSTANTS Thread,       \* the threads the process may have besides ep0
          None,         \* no event, no descriptor (-1), no opener
          Lost,         \* opener of a file whose thread is gone
          Ep0,          \* the handle value for "no thread"
          Stale,        \* a handle that names no thread
          Reconfigures, \* the host sends SET_CONFIGURATION(1) when configured
          FastReset,    \* the host reconnects before DISCONNECT was handled
          Timeouts,     \* the host sends a SETUP before the last was answered
          Interrupts    \* SIGINT or SIGQUIT may interrupt poll, or ep0's read fail

Endpoint == {"in", "out"}
Request  == {"setconf1", "setconf0", "other"}
Event    == Request \union {"disconnect"}

ASSUME GadgetAssumption ==
  /\ None \notin Event \union Endpoint \union {"closed"}
  /\ None \notin Thread /\ Lost \notin Thread /\ None # Lost
  /\ Ep0 \notin Thread /\ Stale \notin Thread /\ Ep0 # Stale
  /\ {Reconfigures, FastReset, Timeouts, Interrupts} \subseteq BOOLEAN

\* Where a sink thread is: before its cleanup handler is pushed, in its loop,
\* leaving it.
Starting == {"open_out", "config_out", "open_in", "config_in", "push"}
Serving  == {"loop", "read", "respond"}
Leaving  == {"cleanup", "close"}
SinkPC   == Starting \union Serving \union Leaving

VARIABLES connected,   \* the host is on the bus
          configured,  \* the host's view: SET_CONFIGURATION(1) was acknowledged
          event,       \* the event gadgetfs has queued, or None
          setup,       \* the SETUP ep0_thread has read: "none", "open", "aborted"
          live,        \* the endpoints that are enabled
          opener,      \* the thread that has an endpoint's file open
          epc, cur,    \* ep0_thread: next step, and the event it handles
          source, sink,          \* handles
          source_fd, sink_fd,    \* the endpoint whose file they name, or None
          loaded,      \* what the number ep0 has loaded for an ioctl names: None for
                       \* -1, an endpoint, "closed" when it names no endpoint's file
          tpc,         \* I/O threads: "free" (no thread), "source", a SinkPC, "ended"
          cancel       \* threads with a cancellation pending

hostVars == <<connected, configured, event, setup>>
fileVars == <<live, opener, source_fd, sink_fd, loaded>>
ep0Vars  == <<epc, cur, source, sink>>
vars == <<hostVars, fileVars, ep0Vars, tpc, cancel>>

Init ==
  /\ connected = FALSE /\ configured = FALSE /\ event = None /\ setup = "none"
  /\ live = {} /\ opener = [e \in Endpoint |-> None]
  /\ source_fd = None /\ sink_fd = None /\ loaded = None
  /\ epc = "poll" /\ cur = None /\ source = Ep0 /\ sink = Ep0
  /\ tpc = [t \in Thread |-> "free"] /\ cancel = {}

-----------------------------------------------------------------------------
(* The host and gadgetfs.                                                      *)

Quiet == event = None /\ epc = "poll"

HostConnect ==
  /\ ~connected /\ epc # "dead"
  /\ FastReset \/ Quiet
  /\ connected' = TRUE /\ event' = None
  /\ UNCHANGED <<configured, setup, fileVars, ep0Vars, tpc, cancel>>

HostDisconnect ==
  /\ connected
  /\ connected' = FALSE /\ configured' = FALSE /\ event' = "disconnect"
  /\ setup' = IF setup = "open" THEN "aborted" ELSE setup
  /\ live' = {}
  /\ UNCHANGED <<opener, source_fd, sink_fd, loaded, ep0Vars, tpc, cancel>>

HostSetup(r) ==
  /\ connected
  /\ Timeouts \/ (Quiet /\ setup = "none")
  /\ r = "setconf1" => Reconfigures \/ ~configured
  /\ event' = r
  /\ setup' = IF setup = "open" THEN "aborted" ELSE setup
  /\ UNCHANGED <<connected, configured, fileVars, ep0Vars, tpc, cancel>>

-----------------------------------------------------------------------------
(* ep0_thread and handle_control.                                              *)

\* The first step of an event's handler.  Of the other requests SET_INTERFACE uses
\* the endpoints' descriptors; the rest read static data.
Handler(e) == CASE e \in {"disconnect", "setconf0"} -> {"stop_source"}
                [] e = "setconf1" -> {"create_source"}
                [] e = "other"    -> {"load_in", "answer"}

ReadEvent ==
  /\ epc = "poll" /\ event # None
  /\ cur' = event /\ event' = None
  /\ setup' = IF event \in Request THEN "open" ELSE "none"
  /\ epc' \in Handler(event)
  /\ UNCHANGED <<connected, configured, fileVars, source, sink, tpc, cancel>>

\* poll returns EINTR or the read of events fails: the loop ends without stop_io,
\* because connected is 0 in each new round, and closing the device's file takes it
\* off the bus.
Interrupted ==
  /\ Interrupts /\ epc = "poll"
  /\ epc' = "dead" /\ connected' = FALSE /\ configured' = FALSE
  /\ event' = None /\ live' = {}
  /\ UNCHANGED <<setup, opener, source_fd, sink_fd, loaded, cur, source, sink, tpc, cancel>>

Free == {t \in Thread : tpc[t] = "free"}

\* A pthread_create that fails leaves its handle as it was or naming no thread.
CreateSource ==
  /\ epc = "create_source"
  /\ \/ \E t \in Free : /\ source' = t /\ epc' = "create_sink"
                        /\ tpc' = [tpc EXCEPT ![t] = "source"]
     \/ /\ Free = {}
        /\ source' \in {source, Stale} /\ epc' = "answer"
        /\ UNCHANGED tpc
  /\ UNCHANGED <<hostVars, fileVars, cur, sink, cancel>>

\* A slip: start_io returns before it creates the sink thread.
CreateSinkNot ==
  /\ epc = "create_sink" /\ epc' = "answer"
  /\ UNCHANGED <<hostVars, fileVars, cur, source, sink, tpc, cancel>>

CreateSink ==
  /\ epc = "create_sink" /\ epc' = "answer"
  /\ \/ \E t \in Free : /\ sink' = t
                        /\ tpc' = [tpc EXCEPT ![t] = "open_out"]
                        /\ UNCHANGED <<source, cancel>>
     \/ /\ Free = {}
        /\ sink' \in {sink, Stale} /\ source' = Ep0
        /\ cancel' = cancel \union {source}
        /\ UNCHANGED tpc
  /\ UNCHANGED <<hostVars, fileVars, cur>>

AfterStop == IF cur = "disconnect" THEN "poll" ELSE "answer"

\* A slip: the handle is not compared with ep0.
StopSourceAlways ==
  /\ epc = "stop_source" /\ epc' = "join_source"
  /\ cancel' = cancel \union {source}
  /\ UNCHANGED <<hostVars, fileVars, cur, source, sink, tpc>>

\* pthread_cancel has no effect on a handle that names no thread.
StopSource ==
  /\ epc = "stop_source"
  /\ epc' = IF source = Ep0 THEN "stop_sink" ELSE "join_source"
  /\ cancel' = cancel \union ({source} \intersect Thread)
  /\ UNCHANGED <<hostVars, fileVars, cur, source, sink, tpc>>

\* A slip: the sink thread is joined but not cancelled.
StopSinkNoCancel ==
  /\ epc = "stop_sink"
  /\ epc' = IF sink = Ep0 THEN AfterStop ELSE "join_sink"
  /\ UNCHANGED <<hostVars, fileVars, cur, source, sink, tpc, cancel>>

\* A slip: the sink thread is left alone.
StopSinkNot ==
  /\ epc = "stop_sink" /\ epc' = AfterStop /\ sink' = Ep0
  /\ UNCHANGED <<hostVars, fileVars, cur, source, tpc, cancel>>

StopSink ==
  /\ epc = "stop_sink"
  /\ epc' = IF sink = Ep0 THEN AfterStop ELSE "join_sink"
  /\ cancel' = cancel \union ({sink} \intersect Thread)
  /\ UNCHANGED <<hostVars, fileVars, cur, source, sink, tpc>>

\* pthread_join returns at once for a handle that names no thread.
Joinable(h) == h \in Thread => tpc[h] = "ended"
Joined(h) == /\ tpc' = [t \in Thread |-> IF t = h THEN "free" ELSE tpc[t]]
             /\ cancel' = cancel \ {h}

JoinSource ==
  /\ epc = "join_source" /\ Joinable(source)
  /\ Joined(source)
  /\ source' = Ep0 /\ epc' = "stop_sink"
  /\ UNCHANGED <<hostVars, fileVars, cur, sink>>

JoinSink ==
  /\ epc = "join_sink" /\ Joinable(sink)
  /\ Joined(sink)
  /\ sink' = Ep0 /\ epc' = AfterStop
  /\ UNCHANGED <<hostVars, fileVars, cur, source>>

\* SET_INTERFACE: ep0 loads a descriptor's number and calls ioctl with it later;
\* that call changes nothing but the endpoint's toggle, and a failure is a stall.
LoadSource ==
  /\ epc = "load_in" /\ epc' = "halt_in" /\ loaded' = source_fd
  /\ UNCHANGED <<hostVars, live, opener, source_fd, sink_fd, cur, source, sink, tpc, cancel>>

\* ioctl (source_fd, GADGETFS_CLEAR_HALT), then the load of sink_fd
HaltSource ==
  /\ epc = "halt_in" /\ epc' = "halt_out" /\ loaded' = sink_fd
  /\ UNCHANGED <<hostVars, live, opener, source_fd, sink_fd, cur, source, sink, tpc, cancel>>

\* ioctl (sink_fd, GADGETFS_CLEAR_HALT)
HaltSink ==
  /\ epc = "halt_out" /\ epc' = "answer" /\ loaded' = None
  /\ UNCHANGED <<hostVars, live, opener, source_fd, sink_fd, cur, source, sink, tpc, cancel>>

\* The data, the acknowledgement or the stall; EIDRM if the request was aborted.
Answer ==
  /\ epc = "answer" /\ epc' = "poll" /\ cur' = None /\ setup' = "none"
  /\ configured' = IF setup = "open" /\ cur \in {"setconf0", "setconf1"}
                   THEN cur = "setconf1" ELSE configured
  /\ UNCHANGED <<connected, event, fileVars, source, sink, tpc, cancel>>

Ep0Step == \/ ReadEvent \/ CreateSource \/ CreateSink
           \/ StopSource \/ JoinSource \/ StopSink \/ JoinSink
           \/ LoadSource \/ HaltSource \/ HaltSink \/ Answer

-----------------------------------------------------------------------------
(* The I/O threads.                                                            *)

Goto(t, pc) == tpc' = [tpc EXCEPT ![t] = pc]

\* simple_source_thread returns before it opens anything.
SourceReturns(t) ==
  /\ tpc[t] = "source" /\ Goto(t, "ended")
  /\ UNCHANGED <<hostVars, fileVars, ep0Vars, cancel>>

\* What the ending thread t leaves open stays open; the files in closed are closed.
Ends(t, closed) ==
  /\ Goto(t, "ended")
  /\ opener' = [e \in Endpoint |-> IF opener[e] # t THEN opener[e]
                                   ELSE IF e \in closed THEN None ELSE Lost]
  /\ live' = {e \in live : ~(e \in closed /\ opener[e] = t)}
  /\ loaded' = IF loaded \in closed /\ opener[loaded] = t THEN "closed" ELSE loaded

\* open in ep_config; it may return the number of a file that was closed before.
Opens(t, e, at, next) ==
  /\ tpc[t] = at
  /\ \/ /\ opener[e] = None
        /\ opener' = [opener EXCEPT ![e] = t] /\ Goto(t, next)
        /\ loaded' \in IF loaded = "closed" THEN {"closed", e} ELSE {loaded}
        /\ UNCHANGED live
     \/ opener[e] # None /\ Ends(t, {})
  /\ UNCHANGED <<hostVars, source_fd, sink_fd, ep0Vars, cancel>>

OpenOut(t) == Opens(t, "out", "open_out", "config_out")

\* A slip: the result of source_open is not tested.
OpenInUnchecked(t) ==
  /\ tpc[t] = "open_in"
  /\ \/ /\ opener["in"] = None /\ Goto(t, "config_in")
        /\ opener' = [opener EXCEPT !["in"] = t] /\ UNCHANGED source_fd
     \/ /\ opener["in"] # None /\ Goto(t, "push")
        /\ source_fd' = None /\ UNCHANGED opener
  /\ UNCHANGED <<hostVars, live, sink_fd, loaded, ep0Vars, cancel>>

OpenIn(t)  == Opens(t, "in", "open_in", "config_in")

\* write of the descriptors in ep_config, and what follows up to the next call
ConfigOut(t) ==
  /\ tpc[t] = "config_out"
  /\ \/ /\ connected /\ live' = live \union {"out"} /\ sink_fd' = "out"
        /\ Goto(t, "open_in") /\ UNCHANGED <<opener, loaded>>
     \/ /\ ~connected /\ Ends(t, {"out"}) /\ UNCHANGED sink_fd
  /\ UNCHANGED <<hostVars, source_fd, ep0Vars, cancel>>

ConfigIn(t) ==
  /\ tpc[t] = "config_in"
  /\ \/ /\ connected /\ live' = live \union {"in"} /\ source_fd' = "in"
        /\ Goto(t, "push") /\ UNCHANGED <<opener, loaded>>
     \/ /\ ~connected /\ Ends(t, {"in"}) /\ UNCHANGED source_fd
  /\ UNCHANGED <<hostVars, sink_fd, ep0Vars, cancel>>

Step(t, from, to) ==
  /\ tpc[t] = from /\ Goto(t, to)
  /\ UNCHANGED <<hostVars, fileVars, ep0Vars, cancel>>

Push(t)       == Step(t, "push", "loop")
TestCancel(t) == t \notin cancel /\ Step(t, "loop", "read")

\* The host sends a command or a request for a response, or an empty packet.
ReadData(t)  == "out" \in live /\ \E pc \in {"loop", "respond"} : Step(t, "read", pc)
ReadEmpty(t) == "out" \in live /\ Step(t, "read", "cleanup")
\* A slip: the loop goes on after an error.
ReadErrorRetried(t) == "out" \notin live /\ Step(t, "read", "loop")
ReadError(t) == "out" \notin live /\ Step(t, "read", "cleanup")
\* write(source_fd, ...): the host takes the response, or there is no host.
HostTakes(t)  == "in" \in live /\ Step(t, "respond", "loop")
WriteError(t) == "in" \notin live /\ Step(t, "respond", "loop")

\* close_fd
\* A slip: close comes before the descriptor is set to -1.
CloseFdFirst(t) ==
  /\ tpc[t] = "cleanup" /\ Goto(t, "close")
  /\ opener' = [opener EXCEPT !["out"] = None]
  /\ UNCHANGED <<hostVars, live, sink_fd, source_fd, loaded, ep0Vars, cancel>>

ClearFd(t) ==
  /\ tpc[t] = "cleanup" /\ Goto(t, "close")
  /\ sink_fd' = None
  /\ UNCHANGED <<hostVars, live, opener, source_fd, loaded, ep0Vars, cancel>>

\* A slip: the cleanup sets source_fd to -1 and closes the IN file too.
CloseFdBoth(t) ==
  /\ tpc[t] = "close" /\ Ends(t, Endpoint)
  /\ source_fd' = None
  /\ UNCHANGED <<hostVars, sink_fd, ep0Vars, cancel>>

CloseFd(t) ==
  /\ tpc[t] = "close" /\ Ends(t, {"out"})
  /\ UNCHANGED <<hostVars, source_fd, sink_fd, ep0Vars, cancel>>

\* The pending cancellation acts in a call that is a cancellation point.  In the
\* loop it runs the cleanup handler; before the push, and in a close_fd that
\* pthread_cleanup_pop runs, there is no handler and the files stay open.
Cancelled(t) ==
  /\ t \in cancel /\ cancel' = cancel \ {t}
  /\ \/ /\ tpc[t] \in Starting \union {"close"} /\ Ends(t, {})
     \/ /\ tpc[t] \in Serving \union {"cleanup"} /\ Goto(t, "cleanup")
        /\ UNCHANGED <<live, opener, loaded>>
  /\ UNCHANGED <<hostVars, source_fd, sink_fd, ep0Vars>>

\* The steps a thread takes without the host.
ThreadStep(t) ==
  \/ SourceReturns(t) \/ Cancelled(t)
  \/ OpenOut(t) \/ ConfigOut(t) \/ OpenIn(t) \/ ConfigIn(t) \/ Push(t)
  \/ TestCancel(t) \/ ReadError(t) \/ WriteError(t) \/ ClearFd(t) \/ CloseFd(t)

Traffic(t) == ReadData(t) \/ ReadEmpty(t) \/ HostTakes(t)

Next == \/ HostConnect \/ HostDisconnect \/ \E r \in Request : HostSetup(r)
        \/ Ep0Step \/ Interrupted
        \/ \E t \in Thread : ThreadStep(t) \/ Traffic(t)

Spec == Init /\ [][Next]_vars

\* The kernel runs every thread that can run; the host owes nothing.
FairSpec == Spec /\ WF_vars(Ep0Step) /\ \A t \in Thread : WF_vars(ThreadStep(t))
-----------------------------------------------------------------------------
(* Properties.                                                                 *)

\* The variables have their types; ep0 itself is never cancelled or joined.
TypeOK ==
  /\ connected \in BOOLEAN /\ configured \in BOOLEAN
  /\ event \in Event \union {None} /\ setup \in {"none", "open", "aborted"}
  /\ live \subseteq Endpoint
  /\ opener \in [Endpoint -> Thread \union {None, Lost}]
  /\ source_fd \in {None, "in"} /\ sink_fd \in {None, "out"}
  /\ loaded \in Endpoint \union {None, "closed"}
  /\ epc \in {"poll", "create_source", "create_sink", "stop_source",
              "join_source", "stop_sink", "join_sink", "load_in", "halt_in", "halt_out",
              "answer", "dead"}
  /\ cur \in Event \union {None}
  /\ {source, sink} \subseteq Thread \union {Ep0, Stale}
  /\ tpc \in [Thread -> SinkPC \union {"free", "source", "ended"}]
  /\ cancel \subseteq Thread

\* A thread in simple_sink_thread's loop has both endpoint files to itself and the
\* global descriptors name them, whatever threads started, ended or were cancelled
\* before: it never reads or answers through another thread's descriptor.
SinkOwnsFiles ==
  \A t \in Thread : tpc[t] \in Serving =>
    /\ \A e \in Endpoint : opener[e] = t
    /\ sink_fd = "out" /\ source_fd = "in"

\* The global descriptors name open files: whoever loads one of them gets -1 or the
\* number of a file that is open at that moment.
FdsAreOpen ==
  /\ sink_fd # None => opener[sink_fd] # None
  /\ source_fd # None => opener[source_fd] # None

\* SET_INTERFACE's ioctls act on the endpoint they are meant for, or fail, although
\* a sink thread may end between the load of a descriptor and its use: the IN file is
\* not closed under ep0, and the number of an OUT file that is closed under it names
\* no endpoint's file, or again the OUT file that a later session opened.
HaltsOwnEndpoint ==
  /\ epc = "halt_in" => loaded \in {None, "in"}
  /\ epc = "halt_out" => loaded \in {None, "out", "closed"}

\* With a host that waits for its answers, every I/O thread is known to stop_io:
\* none runs on or stays unjoined after a stop.
NoOrphan == \A t \in Thread : tpc[t] = "free" \/ t \in {source, sink}

\* Every request handle_control takes up is answered (or fails with its host),
\* although it may have to join an I/O thread that waits for the host.
RequestAnswered == setup = "open" ~> setup # "open"

\* When the host goes for good every I/O thread ends, even one stop_io has lost
\* the handle of, even if SIGINT ended the ep0 thread first.
Quiesces == <>[](~connected) =>
              <>[](\A t \in Thread : tpc[t] \in {"free", "ended"})

\* A configuration that is acknowledged is served: the acknowledgement does not wait
\* for the endpoints (the FIXME in start_io), but they follow, unless an earlier
\* session left a file open or an empty packet has already ended this one.
ConfiguredServes ==
  configured ~> \/ ~configured
                \/ \E t \in Thread : tpc[t] \in Serving
                \/ \E e \in Endpoint : opener[e] = Lost

\* ep_config's comment: "you should be able to open and configure endpoints whether
\* or not the host is connected".  A sink thread finds its IN endpoint not yet open.
SourceOpens == \A t \in Thread : tpc[t] = "open_in" => opener["in"] = None
=============================================================================
