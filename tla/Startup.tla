-------------------------------- MODULE Startup --------------------------------
(* How the three programs start: scpi_vxi_tmc (main.c, scpi_adpt_init), the USB   *)
(* program of src/usb and the VXI-11 program of src/vxi11_server.  One action per *)
(* call that may fail; what the code does about it is the point.                  *)
(* External: the directory, the mount and the portmapper, which outlive a process.*)
EXTENDS Naturals, Sequences

Program == {"scpi", "usb", "vxi11_server"}

\* What vxi11_init does, in this order; after a failure it does no more.
VxiStep == <<<<"udp", "create">>, <<"udp", "async">>, <<"udp", "core">>, <<"udp", "intr">>,
             <<"tcp", "create">>, <<"tcp", "async">>, <<"tcp", "core">>, <<"tcp", "intr">>>>

VARIABLES program,
          pc,      \* the next call of the main thread
          dir, mounted,  \* /dev/gadget exists; gadgetfs is mounted on it
          queue,   \* scpi_msgid is a queue
          device,  \* the descriptors are written: the device is on the bus
          ep0,     \* ep0_thread runs
          vxi,     \* the steps of vxi11_init that are done
          scpi,    \* the SCPI thread runs
          failed   \* history: the parts of which a call failed

startVars == <<program, pc, dir, mounted, queue, device, ep0, vxi, scpi, failed>>

First == [scpi |-> "queue", usb |-> "mount", vxi11_server |-> "vxi"]

StartInit ==
  /\ program \in Program /\ pc = First[program]
  /\ dir \in BOOLEAN /\ mounted \in {FALSE, dir}
  /\ queue = FALSE /\ device = FALSE /\ ep0 = FALSE /\ vxi = 0 /\ scpi = FALSE
  /\ failed = {}

Fails(part) == failed' = failed \union {part}

\* The process is gone, and with it its device, its threads and its sockets.
Exit ==
  /\ pc' = "ended" /\ device' = FALSE /\ ep0' = FALSE /\ vxi' = 0 /\ scpi' = FALSE

\* scpi_adpt_init; on failure it returns before the buses, and main goes on.
MakeQueue ==
  /\ pc = "queue"
  /\ \/ queue' = TRUE /\ pc' = "mount" /\ UNCHANGED failed
     \/ queue' = FALSE /\ pc' = "thread" /\ Fails("queue")
  /\ UNCHANGED <<program, dir, mounted, device, ep0, vxi, scpi>>

\* A slip: scpi_adpt_init gives up with the first bus.
UsbEndsInit ==
  IF program = "scpi" THEN pc' = "thread" /\ UNCHANGED <<device, ep0, vxi, scpi>> ELSE Exit

\* usb_tmc_init returns -1, scpi_adpt_init turns to VXI-11; src/usb's main returns.
UsbGivenUp ==
  IF program = "scpi" THEN pc' = "vxi" /\ UNCHANGED <<device, ep0, vxi, scpi>> ELSE Exit

\* mountGadgetfs.  A failed mount is overlooked, by src/usb's main a failed mkdir too.
Mount ==
  /\ pc = "mount"
  /\ \/ /\ ~dir /\ Fails("usb") /\ UNCHANGED <<dir, mounted>>
        /\ IF program = "scpi" THEN UsbGivenUp
           ELSE pc' = "chdir" /\ UNCHANGED <<device, ep0, vxi, scpi>>
     \/ /\ dir' = TRUE
        /\ \/ mounted' = TRUE /\ UNCHANGED failed
           \/ UNCHANGED mounted /\ Fails("usb")
        /\ pc' = IF program = "scpi" THEN "init_device" ELSE "chdir"
        /\ UNCHANGED <<device, ep0, vxi, scpi>>
  /\ UNCHANGED <<program, queue>>

Chdir ==
  /\ pc = "chdir"
  /\ IF dir THEN pc' = "init_device" /\ UNCHANGED <<device, ep0, vxi, scpi, failed>>
     ELSE Exit /\ Fails("usb")
  /\ UNCHANGED <<program, dir, mounted, queue>>

\* A slip: without a device it mounts again.
InitDeviceAgain ==
  /\ pc = "init_device"
  /\ \/ mounted /\ device' = TRUE /\ pc' = "ep0" /\ UNCHANGED <<ep0, vxi, scpi, failed>>
     \/ pc' = "mount" /\ Fails("usb") /\ UNCHANGED <<device, ep0, vxi, scpi>>
  /\ UNCHANGED <<program, dir, mounted, queue>>

\* autoconfig's stat, the open, the write of the descriptors, short ones included.
InitDevice ==
  /\ pc = "init_device"
  /\ \/ mounted /\ device' = TRUE /\ pc' = "ep0" /\ UNCHANGED <<ep0, vxi, scpi, failed>>
     \/ UsbGivenUp /\ Fails("usb")
  /\ UNCHANGED <<program, dir, mounted, queue>>

\* pthread_create; in src/usb ep0_thread is called.
StartEp0 ==
  /\ pc = "ep0"
  /\ \/ /\ ep0' = TRUE /\ pc' = IF program = "scpi" THEN "vxi" ELSE "serving"
        /\ UNCHANGED failed
     \/ /\ program = "scpi" /\ pc' = "vxi" /\ Fails("usb") /\ UNCHANGED ep0
  /\ UNCHANGED <<program, dir, mounted, queue, device, vxi, scpi>>

\* A slip: one registration more.
RegisterVxiTooOften ==
  /\ pc = "vxi"
  /\ vxi' = vxi + 1 /\ pc' = IF vxi' > Len(VxiStep) THEN "thread" ELSE "vxi"
  /\ UNCHANGED <<program, dir, mounted, queue, device, ep0, scpi, failed>>

\* vxi11_init returns -1, which scpi_adpt_init overlooks; the server's main exits.
RegisterVxi ==
  /\ pc = "vxi"
  /\ \/ /\ vxi' = vxi + 1 /\ pc' = IF vxi' = Len(VxiStep) THEN "thread" ELSE "vxi"
        /\ UNCHANGED <<device, ep0, scpi, failed>>
     \/ /\ Fails("vxi")
        /\ IF program = "scpi" THEN pc' = "thread" /\ UNCHANGED <<device, ep0, vxi, scpi>>
           ELSE Exit
  /\ UNCHANGED <<program, dir, mounted, queue>>

\* main's thread: scpi_test_thread; the server's does nothing but sleep.
CreateThread ==
  /\ pc = "thread"
  /\ \/ /\ scpi' = (program = "scpi") /\ pc' = "svc_run"
        /\ UNCHANGED <<device, ep0, vxi, failed>>
     \/ Exit /\ Fails("thread")
  /\ UNCHANGED <<program, dir, mounted, queue>>

\* svc_run returns when there is no transport to wait on; then exit(1).
SvcRun ==
  /\ pc = "svc_run"
  /\ IF vxi > 0 THEN pc' = "serving" /\ UNCHANGED <<device, ep0, vxi, scpi>> ELSE Exit
  /\ UNCHANGED <<program, dir, mounted, queue, failed>>

\* poll fails: close_fd takes the device off the bus; src/usb's main returns.
Ep0Ends ==
  /\ ep0 /\ Fails("usb")
  /\ IF program = "usb" THEN Exit
     ELSE ep0' = FALSE /\ device' = FALSE /\ UNCHANGED <<pc, vxi, scpi>>
  /\ UNCHANGED <<program, dir, mounted, queue>>

Starts == \/ MakeQueue \/ Mount \/ Chdir \/ InitDevice \/ StartEp0
          \/ RegisterVxi \/ CreateThread \/ SvcRun

=============================================================================
