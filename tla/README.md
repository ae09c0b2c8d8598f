# TLA+ verification of linux-arm-testcase

The repository holds a small instrument front end for embedded Linux: a program that takes SCPI
commands over USB (USBTMC class, through gadgetfs) and over the network (VXI-11, ONC RPC) and hands
them to one SCPI thread. The main program is `src/scpi_vxi_tmc/`; `src/usb/` and
`src/vxi11_server/` are the two buses as programs of their own, `src/usbtest/` is a host-side test
driver, `src/test/` and `src/coredump/` are one-page experiments.

Line numbers below are those of `src/scpi_vxi_tmc/` unless another directory is named.

## Inventory

| Part | State | Operations | Talks to | Correct when |
|---|---|---|---|---|
| SCPI command path, `scpi_msg_adpt.c` | ring `rxBuf`/`rxHead`/`rxTail`, semaphore `scpi_sem`, System V queue `scpi_msgid` | `scpi_msg_cmd_write` (`scpi_msg_rx_write`, `scpi_postmsg`), `scpi_msg_cmd_read` (`scpi_msg_rx_read`) | written by the USBTMC sink thread and the VXI-11 thread, read by the SCPI thread (`main.c`), no lock | bytes are read once and in order until an overrun; no wake-up is lost; the semaphore never runs ahead of the queue |
| SCPI response path, `scpi_msg_adpt.c` | ring `txBuf`/`txHead`/`txTail`, stream fields, `msgsrc` | `scpi_msg_reponse_write`, `_read`, `_avail_len` | written and read by the sink thread, polled by the VXI-11 thread | the host gets what was echoed, in order and once |
| USBTMC messages, `usb.c` 497-702 | the sink thread's packet buffer and `cmd_buf` | `usbtmc_msg_cmd_read`, `usbtmc_msg_cmd_response`, the loop of `simple_sink_thread` | bulk endpoints; both SCPI paths | the loop keeps in step with the host; a command is passed on without what the buffer held before |
| Gadget life cycle, `usb.c` 326-401, 708-1230 | `sink_fd`, `source_fd`, thread handles `source`, `sink`, `ep0`, the ep0 state | `ep0_thread`, `start_io`, `stop_io`, `ep_config`, `close_fd` | gadgetfs (events, endpoint files), creates, cancels and joins the I/O threads | endpoint files have one owner; no thread is lost; requests are answered; all ends when the host is gone |
| Control requests, `usb.c` 842-1079 | the request, the ioctls' status | `handle_control` | ep0; `source_fd`, `sink_fd` of the I/O threads | answers fit what was asked; an acknowledgement means done |
| USB strings and descriptors, `usbstring.c`, `usb.c` 105-300, 775-838 | none | `utf8_to_utf16le`, `usb_gadget_get_string`, `build_config`, `init_device`, `autoconfig` | ep0 | gadgetfs accepts the descriptors; strings are their texts |
| VXI-11 server, `vxi11_srv_func.c`, `vxi11_svc.c` | static results of the handlers | `create_link`, `device_write`, `device_read`, the others answer a zero result; UDP and TCP registration | ONC RPC; SCPI paths | answers are true; TCP writes happen once, in order |
| Start-up, `scpi_msg_adpt.c` 224-262, `main.c`, `src/usb/usb.c` and `src/vxi11_server/vxi11_svc.c` (their `main`) | what is set up so far | `scpi_adpt_init`, `usb_tmc_init`, `vxi11_init`, `main` | all | a failed part does not take the others with it |
| Stand-alone VXI-11 server, `src/vxi11_server/` | static results; decoded arguments | dispatchers, `vxi11_xdr.c`, handlers | ONC RPC | both sides read the same values; nothing is leaked |
| `src/usbtest/usbtest.c` | list of test devices, one thread each | `find_testdev`, `handle_testdev`, `main` | usbfs | what was asked for is run; no running test is cut off |

What is hard here: two writers and one reader share a ring without a lock; three ways of signalling
(ring, queue, semaphore) are updated in separate steps, one of which can fail; the sink thread is
cancelled at arbitrary cancellation points; endpoints are opened by threads the control thread does
not wait for; the kernel's queue outlives the process; RPC over UDP retransmits; initialisations
overlook one another's failures; lengths are counted by hand in descriptors, strings and XDR.

## Modules and plan

In the order of importance:

1. `ScpiRing`, `ScpiMsg`, `CommandStream`: the command path; proofs in `ScpiRingProofs` and
   `ScpiMsgProofs`.
2. `UsbGadget`: ep0, sink and source threads, endpoint files, cancellation and joining;
   `UsbGadgetProofs`.
3. `UsbTmc`: bulk messages and the response ring, also an implementation of `CommandStream`;
   `UsbTmcProofs`.
4. `Vxi11`: links and writes over TCP and UDP; `Vxi11Proofs`.
5. `UsbDevice`, which composes `Startup` with `UsbControl` (on `UsbDescriptors`, on `UsbString`):
   the programs start while the host already asks; `UsbDeviceProofs`.
6. `UsbTest`: the host driver; `UsbTestProofs`.
7. `Vxi11Server` on `Xdr`: the stand-alone server, with the data; `Vxi11ServerProofs`.

`MC...` modules give the instances. Each slip in a module (a definition whose comment begins with
"A slip") is a plausible mistake in the definition that follows it; it is used by no specification
and shows that a property notices the mistake.

`ScpiMsg` and `UsbGadget` are checked apart and meet in two places. `ScpiMsg` has one USB writer,
which may be cancelled wherever it can act on a cancellation, and then begins anew as the next sink
thread: that two sink threads never write at once, even when `start_io` has lost one, is
`SinkOwnsFiles` of `UsbGadget`, proved for any host. And `UsbGadget` takes a sink thread in
`scpi_msg_cmd_write` to come back, which it does, since nothing in that call blocks.

## The command path

`ScpiRing` has the index arithmetic. `ScpiMsg` models `scpi_msg_cmd_write` and
`scpi_msg_cmd_read` at the grain of C statements: one action for each shared access, `rxTail++`
being its load and its store. `wpc` and `rpc` name the statement a thread is about to execute.

| Action | Code |
|---|---|
| `BeginWrite` | call of `scpi_msg_cmd_write`, 132-135 |
| `StoreByte`, `TestTail`, `WrapTail`, `LoadTail`, `IncTail` | the loop of `scpi_msg_rx_write`, 115-127 |
| `PostMsg`, `SemPost` | `scpi_postmsg`, 200-217 |
| `Cancel` | `pthread_cancel` from `stop_io`, acting in `printf` or `msgsnd` |
| `SemWait`, `MsgReceive` | 145-146 |
| `ReadLoop`, `MoveByte` | the loop of `scpi_msg_rx_read`, 99-107 |
| `Restart` | the process dies and runs `scpi_adpt_init` again, 224-238 |

Abstractions. Messages in the queue are alike (the reader ignores their contents), so the queue is
a number. Memory is sequentially consistent: the target is a single-core ARM and the compiler is
assumed not to move the plain stores to `rxBuf` past the accesses to `rxTail`, which is volatile.
`MoveByte` is one action because the SCPI thread alone uses `rxHead`. `overrun` is a history
variable: a write moved the tail onto the head. The racing writers' tail is followed to the first
place past the ring (`TailMax`); two writers cannot carry it further.

`CommandStream` is what the path promises to the SCPI thread: a bounded FIFO stream read in chunks,
until it is overrun. `ScpiMsg!ImplementsStream` states the refinement.

### Runs

| Run | Instance | Shows |
|---|---|---|
| `command_path` | one writer, ring of 4, commands of 0-2 bytes, reads of 2, queue of 2, weak fairness | `TypeOK`; `SemaphoreMatchesQueue`; `NoSleepOnUnread`; `ImplementsStream`; `UnreadIsRead` |
| `restarts` | sink thread (cancellable) and VXI-11 thread, restarts at any point, ring of 3, queue of 2 | `SemaphoreNeverAhead` and `BacklogOnlyFromRestart`, although the ring is corrupted |

The bounds are small but every case occurs: the ring wraps and overruns, commands are shorter than,
equal to and (two of them) longer than what is free, the queue fills and sends fail, a read ends on
an empty ring and on a full buffer. `NoSleepOnUnread` needs `WakeupsCoverRing`, which the code's
sizes satisfy (1024 slots, 2048 messages of 100 bytes); the instance is the tight case below it.

Fairness: the kernel runs every thread that is inside a call (`WF` on each writer's call and on
the SCPI thread's steps); no bus is obliged to send.

### Proofs

`ScpiRingProofs` shows what moving the tail and the head does to the contents of a ring (append,
take the oldest), `ScpiMsgProofs` type correctness, the semaphore's account, the refinement and the
absence of lost wake-ups. All hold for every finite set of writers and all
sizes that satisfy `BufMaxAssumption` and `ScpiMsgAssumption`.

* `IInv` strengthens `TypeOK` with what the program counters know: a writer in its loop has a byte
  left, the reader that moves a byte has room for it, a sole writer past its test is below the last
  slot. Without it `rxTail` and `wcnt` have no bound.
* The account of wake-ups rests on one lemma, `TogetherStep`: every step but a restart changes
  announced and queued messages by the same number. It gives `BacklogFromRestart` and
  `SemaphoreCountsQueue`; `NeverAhead` adds that a restart resets the semaphore to 1.
* `ImplementsCommandStream` needs two facts of a sole writer: its byte lies at the tail until it
  moves the tail, and a head seen short of the tail stays so until an overrun.
* `NoLostWakeup` adds `Covered`: what is unread is covered by queued messages, by the rest of the
  current read and by the message about to be sent. A failed send keeps it because a full queue
  covers a full ring.

Model-checked only: `UnreadIsRead` (liveness).

## The gadget's life cycle

`UsbGadget` models the threads of `usb.c` at the grain of system calls: an action ends where
another thread, the kernel or the host can come in between.

| Action | Code |
|---|---|
| `ReadEvent`, `Interrupted` | the loop of `ep0_thread`, 1135-1217; poll's `EINTR` and a failed read, 1158-1172 |
| `CreateSource`, `CreateSink` | `start_io`, 708-750, failures included |
| `StopSource`, `JoinSource`, `StopSink`, `JoinSink` | `stop_io`, 752-770 |
| `LoadSource`, `HaltSource`, `HaltSink` | SET_INTERFACE, 1037-1046: a descriptor is loaded, the ioctl comes later |
| `Answer` | the end of `handle_control`, 1005-1079 |
| `OpenOut`, `ConfigOut`, `OpenIn`, `ConfigIn`, `Push` | `sink_open`, `source_open` (`ep_config`, 360-401), `pthread_cleanup_push`, 621-630 |
| `TestCancel`, `ReadData`, `ReadEmpty`, `ReadError` | the loop of `simple_sink_thread`, 631-689 |
| `HostTakes`, `WriteError` | writes of a response, 587-604 |
| `ClearFd`, `CloseFd` | `close_fd`, 326-356 |
| `Cancelled` | a pending `pthread_cancel` acting at a cancellation point |
| `SourceReturns` | `simple_source_thread`, 452 |

`HostConnect`, `HostDisconnect` and `HostSetup` are gadgetfs and the host, which are external:
gadgetfs opens an endpoint file once at a time, configures it only while connected, disables it at
a disconnect, and drops queued events as the module's head says. Four constants choose how the host
behaves. `opener[e] = Lost` says that a file is open and its thread is gone. `loaded` is what the
number that ep0 has loaded for an ioctl names by now: closing the file turns it into "closed", and a
later `open` may give the number to another endpoint's file, or to the same one again.

| Run | Instance | Shows |
|---|---|---|
| `gadget_polite` | 3 threads; the host waits for answers | `NoOrphan`; `ConfiguredServes` |
| `gadget_rough` | 3 threads; repeated configurations, fast resets, timeouts, SIGINT | `TypeOK`, `SinkOwnsFiles`, `FdsAreOpen` although handles are overwritten; `HaltsOwnEndpoint`: an ioctl of SET_INTERFACE meets the endpoint it is meant for or none; `RequestAnswered`, `Quiesces`; 1.06 million states |
| `gadget_reopen` | 2 threads; violation | `SourceOpens`: see Findings |

Three threads are one more than a configuration has, so a second one meets threads of the first and
`pthread_create` fails in a third. Only `gadget_reopen`, which has no liveness, permutes the threads.
`gadget_rough` may end in a state without steps (no host, ep0 gone), hence `CHECK_DEADLOCK FALSE`.

Fairness: the kernel runs every thread that can run (`WF` on `Ep0Step` and on each `ThreadStep`).
The host owes nothing: no fairness on the host's actions, on traffic or on SIGINT.

`UsbGadgetProofs` shows, for any set of threads and any host, `TypeCorrect`, `Ownership`,
`DescriptorsOpen` and `HaltsStayHome` (`HaltsOwnEndpoint`). The inductive invariant `IInv` adds to `TypeOK` and `FdsAreOpen`, for each
thread, which files it has opened at its program counter (`Opened`) and which descriptors name them
(`Named`): a descriptor is overwritten only by the thread that has just opened that endpoint file,
and gadgetfs lets one thread at a time do so. `OneThread` reduces a step of one thread to these two
facts about it, `QuietStep` handles the steps that touch no file. `FdsAreOpen` speaks only of the
moment a descriptor is loaded; for the ioctl that follows `IInv` has `LoadInv`: an OUT file is closed
under ep0 only by a thread that has configured its IN file too, and from then on the IN file is open
for good (which is finding `gadget_reopen`), so that no thread opens it and is given the number that
was closed. `NoThreadLost` (`NoOrphan`, polite
host) has its own invariant `PInv`: while a request is open or being handled no other
can arrive, so `start_io` finds both handles free. Model-checked only: the liveness properties.

## USBTMC messages

`UsbTmc` models one pass of `simple_sink_thread`'s loop, `usbtmc_msg_cmd_read`,
`usbtmc_msg_cmd_response` and the response ring. A transfer is a sequence of cells; the header is a
record in its first cell. What is local to a pass is reset at its end (`EndPass`); the packet buffer
is not, since `strlen` may read what an earlier packet left in it.

| Action | Code |
|---|---|
| `ReadPacket`, `Ends`, `OtherPacket` | 638-689 |
| `CommandPacket`, `GiveUp`, `ContinueRead`, `Finish` | `usbtmc_msg_cmd_read`, 497-551 |
| `Echo` | `scpi_msg_reponse_write`, `scpi_msg_tx_write` (`scpi_msg_adpt.c` 76-94, 176-198) |
| `Refuse`, `Respond`, `Send`, `NextPart` | `usbtmc_msg_cmd_response`, 554-607: before the first read, a `write`, the `while` loop |
| `Take`, `Taken` | `scpi_msg_reponse_read`, `scpi_msg_tx_read` (`scpi_msg_adpt.c` 60-74, 159-174) |
| `InitiateClear` | 870-874 |

`wire` is what a `write` was given. Both lengths are rounded up to a multiple of 4 (587, 600): a
response of one part goes out with up to 3 bytes of what the packet buffer held before, later parts
with the zeros of `tmp_buf`'s `memset` (`Written`). `Ends` is a failed read or a cancellation wherever
the thread reads, prints, queues or writes.

External: the host announces what it sends, pads with zeros, may end packets of the rest of a long
message early, leaves and returns. It does not end the first packet early: the first read fills
the buffer or has the whole message. (A host that sends a message as one transfer ends only its last
packet early; one that splits it after a short first packet is not modelled.) Messages of more than two buffers, whose continuation read would
pass the end of the packet buffer, are excluded by `MessagesFit`; a length that runs past the buffer
is cut at `DataMax`. The VXI-11 thread reads zero bytes of the response ring and is left out.

| Run | Instance | Shows |
|---|---|---|
| `usbtmc` | header 2, buffer 4, padding to 2, ring of 5, 2 tries, messages of 0, 1, 2 and 5 bytes; 3.1 million states | `TypeOK`; `CommandAsSent`: a padded one-packet command is unharmed by older bytes; `InStep`; `PartsMakeTheResponse`: the parts are the bytes taken from the ring, the last one with less than `Align` bytes of padding; `ImplementsStream`: the ring is the stream of `CommandStream` |
| `tmc_clear` | ring of 8; violation | see Findings |

The instance has commands with and without padding, of one packet and of two, given-up messages,
responses of one part and of two, a ring that wraps and overruns.

`UsbTmcProofs` shows all five properties for all sizes with `TmcAssumption`, all byte values and
all messages that fit.

* `IInv` is `Types` and `Calls` (what each variable can be at each place of a pass), `Parts` (what of a
  response is announced, sent and still in the ring), `Whole` (a transfer that begins with a header is
  one a host sends), `Step` (how much of the message is in the buffer and how much on its way, with
  `InStep`), `Received` (a padded command of one packet lies in the buffer as it was sent) and
  `CommandAsSent`, which is not inductive alone: that `strlen` stops in the command's own padding
  needs `Received`. `Sending` has `PartsMakeTheResponse` with what it needs: the first part lies in
  the packet buffer (`Copied`) and a write stays within the buffer it is made from (`Sized`).
* The number of parts and the padded size are quotients by a parameter. `QuotientBounds` and
  `QuotientUnique` describe them by the two bounds that fix them, `TotalSizeIs` and `PaddedIs` apply
  this to the two sizes. `AlignedBounds` and `FullParts` say what the rounding of a write adds: less
  than `Align` bytes, and none to a part that fills its buffer.
* `ReceivesKeeps`, `RespondingKeeps` and `EndPassKeeps` are the facts shared by several actions.
* `ResponsesAreAStream` follows from the lemmas of `ScpiRingProofs`: an echo appends to the
  contents of the ring, a read takes from it, a message given up changes neither.

## VXI-11

`Vxi11` has clients that make numbered calls, the calls and answers under way, and the one thread of
`svc_run` that takes a call, runs its handler and answers. `CreateLink`, `DeviceWrite` and
`DeviceRead` are the handlers of `vxi11_srv_func.c` 25-118; `Other` stands for those that only
answer zero and for refusals by the dispatchers of `vxi11_svc.c`. ONC RPC is external: TCP delivers
once and in order, UDP loses (an undelivered call stays in `calls`), reorders and, by `Repeat`,
duplicates. The data and the reason of `device_read`, always an empty string or the last reply, are
left out.

Run `vxi11`: one client on each transport, three calls over TCP, one call in two transmissions over
UDP; clients may give up at any time. It checks `TypeOK`, `AnswersTellTruth` (a refused write was
never passed on, an accepted one was, over TCP once), `TcpInOrder` and, with weak fairness of the
server and of TCP's answers, `TcpAnswered`. Three TCP calls make a link and two writes; two
transmissions are the least that duplicate. Over UDP a write can happen twice, and late: no property
claims otherwise. The run ends when the calls are used up (`CHECK_DEADLOCK FALSE`); it has
950,082 states.

Fairness: the server's thread runs, and each client on TCP takes the answer that has arrived
(`WF` on `ServesFor` and `ReceivesFrom` for each of them); nothing is promised to UDP.

`Vxi11Proofs` shows `TypeOK`, `AnswersTellTruth` and `TcpInOrder` for any clients and any number of
calls and transmissions. `IInv` adds that what is in the log or accepted has a number its client has
given (`Numbered`), that all transmissions of a number are alike (`Alike`) and that what is known of a
call agrees with what its later transmissions will do (`Agree`), that an answer to a write says what
the log has (`Truthful`, `AcceptedWrites`), and that the calls under way over TCP are numbered apart
and newer than those in the log (`TcpCalls`). `TcpInOrder` is
inductive only with `TcpCalls`: the next write is newer than all in the log because no older call is
left. Model-checked only: `TcpAnswered` (liveness).

## Start-up, descriptors, strings and control requests

`Startup` has the calls of the three `main`s, each of which may fail, and what the code does about
it; `UsbControl` has `handle_control`, from the request to its answer, `SET_INTERFACE` with its two
ioctls one by one. `UsbDevice` composes them: as soon as `ep0` is polled the host can ask, in
`scpi_vxi_tmc` while the main thread is still registering VXI-11. `UsbDescriptors` is what
`build_config` and `init_device` put together, with gadgetfs's checks of it; `UsbString` is the
conversion, with UTF-8 itself as the reference.

| Action | Code |
|---|---|
| `MakeQueue`, `RegisterVxi` | `scpi_adpt_init`, `scpi_msg_adpt.c` 224-262; `vxi11_init`, `vxi11_svc.c` 302-355 |
| `Mount`, `Chdir`, `InitDevice`, `StartEp0` | `usb_tmc_init`; `main` of `src/usb/usb.c` |
| `CreateThread`, `SvcRun` | `main.c`; `main` of `src/vxi11_server/vxi11_svc.c` |
| `Ep0Ends` | the end of `ep0_thread` when poll fails |
| `TmcInterfaceRequest`, `TmcEndpointRequest` | the class requests of `handle_control` |
| `GetString`, `SetConfig`, `GetIntf`, `Unknown` | the standard requests |
| `RefuseIntf`, `SetIntf`, `ClearSource`, `ClearSink`, `EndIntf` | `SET_INTERFACE`, 1030-1057 |
| `EndpointsChange` | the I/O threads, as far as `source_fd` and `sink_fd` show them |

External: gadgetfs's checks and endpoint names, the host, the mount and the directory. `Garbage` is
the text found when an id is looked for past the end of `stringtab`, which has no end mark.

Run `device` (93,253 states): all three programs, every call failing or not, a host with well-formed
and malformed requests of every kind. A descriptor holds `MaxUnits` characters, 126 in the code; the
run has 6 and a text of 9, which reaches every cut. It checks `TypeOK`, `DescriptorsAccepted`,
`StringsAreText`, `AnswersFit`, `AckMeansDone`, `FaultIsContained` and `StartEnds`. Fairness: only the
main thread's steps (`WF`), which nothing blocks. Run `string_utf8` has texts with characters of two
and three bytes: see Findings.

### Proofs

`UsbDeviceProofs` shows every invariant of the run, for every set of requests.

* `TypeCorrect`, `FaultContained`, `AckHonest`. For the start, `IInv` adds which program can be at
  which call (`Places`) and what must be there, or be on record as failed, behind the main thread
  (`Behind`); `FaultIsContained` speaks of the last places only. For `SET_INTERFACE` it adds
  `Ioctls`: an endpoint whose turn is over was reset, or the status remembers that it was not.
* `AnswersFitAlways`, for any table of strings (`TextAssumption`: ids are bytes, texts are made of
  16-bit units). `AInv` adds that between the ioctls the request is still `SET_INTERFACE`. The
  length of a descriptor must be a number, whatever the text: `StringLength`, by way of the lengths
  of the two conversions (`Utf8Length`, `ReadLength`).
* `AsciiStringsAreText`: with ASCII texts, which is what both programs have, `StringsAreText` holds.
  It rests on `AsciiString`: UTF-8 of an ASCII text is the text (`AsciiUtf8`), and reading it gives
  back the units one by one (`AsciiReading`). The hypothesis is needed: `string_utf8` is the
  counterexample without it.
* `DescriptorsGood`, for any table with texts 1 to 5: `BufferIs` has the ten parts of the buffer,
  `PlacesAre` their offsets, `Complete` a configuration. No state enters into it.

The conversions and the offsets are recursive functions over a sequence. The library's induction
theorems cannot be instantiated here, so an induction is over a set of numbers, `SetInduction`
(from the well-foundedness of the naturals, `WFMin`); `ReadingUnrolled`, `WritingUnrolled` and
`OffsetsUnrolled` first show that the function exists. Model-checked only: `StartEnds` (liveness).

## usbtest

`UsbTest` has `main` (`Option`, `OptionsEnd`, `find_testdev`, `ListEnds`, `StartOne`, `CreateThread`,
`SingleEnds`, `Join`) and `handle_testdev` of each device (`OpenDevice`, `RunCase`, `CasesEnd`).
It keeps three facts of the code that are easy to overlook: 'l' (for ever) is handled but is not among
getopt's letters, so it ends in usage; the parameters are unsigned and their tests for a negative
value never hold; `-t` with a number that is no case runs nothing. To join a thread that was not
created is to use a handle never set: an error or the end of the process.

Run `usbtest` (2,098 states): two devices the driver knows, the device of `usb.c`, which it does not,
a file without descriptor, twelve command lines, three cases (the code has 30; only the first, the
last and one between differ). It checks `TypeOK`, `CasesAsAsked`, `ThreadsAreJoined`, `Ends`. Fairness:
the kernel runs `main` and each test (`WF`), and a test's ioctl returns, as the kernel's own timeouts
make it do.

`UsbTestProofs` shows `TypeCorrect`, `TestsAreJoined` and `AskedIsRun` for any files, descriptors and command
lines. `IInv` adds `Begun` (a test exists only for the device named, or for the part of the list that
`main` has been through) and `Joined` (what lies before `main`'s place in the list when it joins is
over). `AskedIsRun` (`CasesAsAsked`) has a second invariant, `Asking`: the options left are the end
of the command line (`ArgsLeft`), what `main` keeps of those it has read is what they ask for
(`Heeded`, and once it acts on them `Asked`), no file is listed twice (`VisitedOnce`), and a test has
run the chosen ones of the cases below its place (`CasesSoFar`). Model-checked only: `Ends`
(liveness).

## The stand-alone VXI-11 server

`Xdr` has the routines of `vxi11_xdr.c` as tables, one list of fields for each of encoding, decoding
and freeing where rpcgen wrote them three times, with the number of units of each inline block as
written by hand there. `Vxi11Server` has the dispatch tables and one thread that takes a call
(`Dispatch`), decodes (`GetArgs`), calls the handler (`Handle`), answers (`SendReply`) and frees
(`FreeArgs`). A client has one call open and may code in place or field by field, as may the server.

Run `rpc_server` (38,670 states): one call of every procedure, all its arguments different so that
none can stand for another, the calls the handlers tell apart, a handle one byte too long, whole or
short of its last one or two units. It checks `HandlerGetsWhatWasSent`, `ClientGetsResult`,
`ArgumentsAreFreed` and `CallsAreAnswered`.

`Vxi11ServerProofs` shows all four for any calls the client may make, cut anywhere.
`Vxi11ServerAssumption` says that the arguments of a call have the fields its routine names, with
strings the server's memory can hold (`Values`), and that `None` is no message.

* `RoundTrip` is about any routine whose lists of steps agree (`IsRoutine`), coded either way on
  either side: what decodes is the value that was encoded and nothing was missing, and what is
  complete decodes if its strings fit (`Fits`). It is an induction over the steps, in the form of a
  set of numbers: after each step decoding stands where encoding stood, or has failed because the
  message is too short or a string too long (`Reached`).
* `Rows` shows, routine by routine, that the hand-written lists of `vxi11_xdr.c` are such routines,
  inline blocks included; `ResultIsValue`, that what a handler answers can be coded by its routine.
* `IInv` says of the open call what is on the wire and what an answer to it may be (`CallInv`), of
  the static results that they can be coded (`ResultInv`), and of each stage of the dispatcher what
  it holds in memory and whether the call is still to be answered (`StageInv`).

## Findings

* `gadget_reopen`: `usb.c:359` says endpoints can be opened and configured "whether or not the host
  is connected". The sink thread has a cleanup handler for `sink_fd` only, so `source_fd` is never
  closed: after SET_CONFIGURATION 1, 0, 1 the second sink thread cannot open the IN endpoint.
* `tmc_clear`: `tmc.h:50` says INITIATE_CLEAR clears all pending messages and transfers;
  `handle_control` answers success and clears nothing.
* `string_utf8`: `usbstring.c:32` insists on correct encodings and 39 and 50 give continuation bytes
  as 10xxxxxx; the code (44, 55, 61) takes 11xxxxxx and refuses 10xxxxxx, so every text with a character of
  two or three bytes makes the string request stall. The repository's own strings are ASCII.

## Not modelled

* `scpi_msg_adpt.c`, the stream of a buffer (`msgsrc` 1), which has no caller.
* A response longer than `host_rcv_cap`: the code never compares the two, so a bound by it fails at
  once. Commands longer than `cmd_buf` or, in `device_write`, than `w_cmd` (100 bytes; `create_link`
  advertises 1024), headers whose size field lies and messages of more than two
  buffers write past the buffers; what happens then is not the program's to define.
* Signals in the SCPI thread: nothing is sent to it, and the kernel gives the process's signals to the
  main thread, which does not block them. (`UsbGadget` has poll's `EINTR`, since in `src/usb` the main
  thread is the one that runs `ep0_thread`.)
* VXI-11's locks: the code answers success and keeps none, and says nothing of what it promises. In
  `Vxi11` the data of `device_read`; `Vxi11Server` has them.
* `src/usb` but for its `main`: an earlier copy of the files of `scpi_vxi_tmc`, equal but for a few
  lines. `ch9.h`, `gadgetfs.h`, `tmc.h` and `vxi11.h` are declarations, used through the numbers and
  fields that the models have. `src/test` and `src/coredump` have no state.
* Formatting, logging, and values that only the host looks at.

Proofs cover every invariant and action property of the passing runs and both refinements. Out of the
prover's reach, and only model-checked: liveness (`UnreadIsRead`, `ConfiguredServes`,
`RequestAnswered`, `Quiesces`, `TcpAnswered`, `StartEnds`, `Ends`) and `ENABLED`. What a recursive
function computes is proved by induction over a set of numbers where a property needs it. Hazards
without a property are listed with the reason in `PROJECT.json`.
