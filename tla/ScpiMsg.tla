------------------------------- MODULE ScpiMsg -------------------------------
(***************************************************************************)
(* The command path of scpi_vxi_tmc/scpi_msg_adpt.c.  Threads that take    *)
(* commands off a bus (the USBTMC sink thread, the VXI-11 RPC thread) call *)
(* scpi_msg_cmd_write: the bytes go into the ring rxBuf, a message into a  *)
(* System V queue, and the semaphore scpi_sem is posted.  The SCPI thread  *)
(* loops on scpi_msg_cmd_read: it waits for the semaphore, takes a message *)
(* and reads at most ReadLen bytes of the ring.  No lock protects the ring.*)
(*                                                                         *)
(* A step is one C statement; rxTail++ is the load and the store it        *)
(* compiles to, as two threads may execute it at once.                     *)
(***************************************************************************)
EXTENDS ScpiRing, FiniteSets

CONSTANTS
  Writers,      \* the threads that call scpi_msg_cmd_write
  Cancellable,  \* those of them that stop_io cancels: the USBTMC sink thread
  Byte,         \* the bytes of commands
  Nul,          \* the byte static storage starts with
  CmdLen,       \* longest command, 100: cmd_buf (usb.c) and w_cmd (vxi11)
  ReadLen,      \* the len scpi_test_thread asks for, 100
  QueueMax,     \* messages the queue holds before msgsnd fails with EAGAIN
  Restarts      \* whether the process may die and start again

ASSUME ScpiMsgAssumption ==
  /\ IsFiniteSet(Writers) /\ Cancellable \subseteq Writers
  /\ Nul \notin Byte
  /\ CmdLen \in Nat /\ ReadLen \in Nat \ {0}
  /\ QueueMax \in Nat \ {0}
  /\ Restarts \in BOOLEAN

Command == UNION {[1 .. n -> Byte] : n \in 0 .. CmdLen}

VARIABLES
  rxBuf, rxHead, rxTail,  \* the ring of g_scpi_msg
  scpi_sem,               \* value of the semaphore
  msgq,                   \* messages in the queue scpi_msgid; all are alike
  wpc,                    \* writer -> the statement it is about to execute
  wcmd,                   \* writer -> the command it is writing
  wcnt,                   \* writer -> cnt, the bytes of wcmd in the ring
  wreg,                   \* writer -> the rxTail it loaded for rxTail++
  rpc,                    \* the statement the SCPI thread is about to execute
  rbuf,                   \* what scpi_msg_cmd_read has copied out so far
  overrun                 \* history: a write made the full ring look empty

ring   == <<rxBuf, rxHead, rxTail, overrun>>
notify == <<scpi_sem, msgq>>
writer == <<wpc, wcmd, wcnt, wreg>>
reader == <<rpc, rbuf>>
vars   == <<ring, notify, writer, reader>>

WriterPC == {"idle", "store", "test", "wrap", "load", "inc", "send", "post"}
ReaderPC == {"wait", "receive", "loop", "move"}

-----------------------------------------------------------------------------
(***************************************************************************)
(* scpi_adpt_init in the first process: static storage is zero, the queue  *)
(* is new, and sem_init(&scpi_sem, 0, 1) lets one sem_wait pass unposted.  *)
(***************************************************************************)
Init ==
  /\ rxBuf = [i \in Idx |-> Nul] /\ rxHead = 0 /\ rxTail = 0
  /\ scpi_sem = 1 /\ msgq = 0
  /\ wpc = [w \in Writers |-> "idle"] /\ wcmd = [w \in Writers |-> <<>>]
  /\ wcnt = [w \in Writers |-> 0] /\ wreg = [w \in Writers |-> 0]
  /\ rpc = "wait" /\ rbuf = <<>>
  /\ overrun = FALSE

-----------------------------------------------------------------------------
(* scpi_msg_cmd_write and scpi_msg_rx_write, in the thread w.              *)

\* Where the for loop of scpi_msg_rx_write goes with cnt bytes written.
LoopPC(cnt, len) == IF cnt < len THEN "store" ELSE "send"

BeginWrite(w) ==
  /\ wpc[w] = "idle"
  /\ \E cmd \in Command :
       /\ wcmd' = [wcmd EXCEPT ![w] = cmd]
       /\ wpc' = [wpc EXCEPT ![w] = LoopPC(0, Len(cmd))]
  /\ wcnt' = [wcnt EXCEPT ![w] = 0]
  /\ UNCHANGED <<ring, notify, wreg, reader>>

(***************************************************************************)
(* rxBuf[rxTail] = *buf++.  Two writers racing in the tail update can      *)
(* leave rxTail one past the last slot: the byte then lands on the low     *)
(* byte of rxHead, the next field of the struct, and leaves it anywhere in *)
(* the ring.                                                               *)
(***************************************************************************)
StoreByte(w) ==
  /\ wpc[w] = "store"
  /\ \/ /\ rxTail \in Idx
        /\ rxBuf' = [rxBuf EXCEPT ![rxTail] = wcmd[w][wcnt[w] + 1]]
        /\ UNCHANGED rxHead
     \/ /\ rxTail \notin Idx
        /\ rxHead' \in Idx
        /\ UNCHANGED rxBuf
  /\ wpc' = [wpc EXCEPT ![w] = "test"]
  /\ UNCHANGED <<rxTail, overrun, notify, wcmd, wcnt, wreg, reader>>

TestTail(w) ==
  /\ wpc[w] = "test"
  /\ wpc' = [wpc EXCEPT ![w] = IF rxTail >= BufMax - 1 THEN "wrap" ELSE "load"]
  /\ UNCHANGED <<ring, notify, wcmd, wcnt, wreg, reader>>

\* The tail becomes t and the loop goes on; a tail that reaches the head
\* makes a full ring look empty.
SetTail(w, t) ==
  /\ rxTail' = t
  /\ overrun' = (overrun \/ t = rxHead)
  /\ wcnt' = [wcnt EXCEPT ![w] = @ + 1]
  /\ wpc' = [wpc EXCEPT ![w] = LoopPC(wcnt[w] + 1, Len(wcmd[w]))]
  /\ UNCHANGED <<rxBuf, rxHead, notify, wcmd, wreg, reader>>

\* rxTail = 0
WrapTail(w) == wpc[w] = "wrap" /\ SetTail(w, 0)

\* rxTail++, its load ...
LoadTail(w) ==
  /\ wpc[w] = "load"
  /\ wreg' = [wreg EXCEPT ![w] = rxTail]
  /\ wpc' = [wpc EXCEPT ![w] = "inc"]
  /\ UNCHANGED <<ring, notify, wcmd, wcnt, reader>>

\* ... and its store.  A race of two writers can carry the tail further and
\* further past the ring; the model follows it to the first place past it.
TailMax == BufMax

IncTail(w) ==
  /\ wpc[w] = "inc"
  /\ wreg[w] < TailMax
  /\ SetTail(w, wreg[w] + 1)

\* The call is over: its locals are gone.
EndWrite(w, pc) ==
  /\ wpc' = [wpc EXCEPT ![w] = pc]
  /\ wcmd' = [wcmd EXCEPT ![w] = <<>>]
  /\ wcnt' = [wcnt EXCEPT ![w] = 0]
  /\ wreg' = [wreg EXCEPT ![w] = 0]
  /\ UNCHANGED <<ring, reader>>

(***************************************************************************)
(* scpi_postmsg.  msgsnd with IPC_NOWAIT: on a full queue it fails, the    *)
(* semaphore is not posted, and scpi_msg_cmd_write ignores the failure.    *)
(***************************************************************************)
PostMsgUnchecked(w) ==  \* a slip: posts the semaphore for a failed send
  /\ wpc[w] = "send"
  /\ msgq' = IF msgq < QueueMax THEN msgq + 1 ELSE msgq
  /\ EndWrite(w, "post")
  /\ UNCHANGED scpi_sem

PostMsg(w) ==
  /\ wpc[w] = "send"
  /\ \/ msgq < QueueMax /\ msgq' = msgq + 1 /\ EndWrite(w, "post")
     \/ msgq = QueueMax /\ UNCHANGED msgq /\ EndWrite(w, "idle")
  /\ UNCHANGED scpi_sem

\* sem_post(&scpi_sem)
SemPost(w) ==
  /\ wpc[w] = "post"
  /\ scpi_sem' = scpi_sem + 1
  /\ EndWrite(w, "idle")
  /\ UNCHANGED msgq

(***************************************************************************)
(* stop_io cancels the sink thread.  Cancellation is deferred; in this     *)
(* path it acts in the printf of scpi_postmsg or in msgsnd, when the bytes *)
(* are in the ring and no message is in the queue.  A later sink thread    *)
(* takes the place of this one.                                            *)
(***************************************************************************)
Cancel(w) ==
  /\ w \in Cancellable
  /\ wpc[w] = "send"
  /\ EndWrite(w, "idle")
  /\ UNCHANGED notify

-----------------------------------------------------------------------------
(* scpi_msg_cmd_read and scpi_msg_rx_read, in the SCPI thread.             *)

\* sem_wait(&scpi_sem)
SemWait ==
  /\ rpc = "wait"
  /\ scpi_sem > 0
  /\ scpi_sem' = scpi_sem - 1
  /\ rpc' = "receive"
  /\ UNCHANGED <<ring, msgq, writer, rbuf>>

\* msgrcv(scpi_msgid, ..., 0, 0) blocks on an empty queue.
MsgReceive ==
  /\ rpc = "receive"
  /\ msgq > 0
  /\ msgq' = msgq - 1
  /\ rpc' = "loop"
  /\ rbuf' = <<>>
  /\ UNCHANGED <<ring, scpi_sem, writer>>

\* while ((rxHead != rxTail) && (cnt < len)); past it the call returns and
\* the SCPI thread calls again.
ReadLoopShort ==      \* a slip: stops one byte early
  /\ rpc = "loop"
  /\ rpc' = IF rxHead # rxTail /\ Len(rbuf) + 1 < ReadLen THEN "move" ELSE "wait"
  /\ UNCHANGED <<ring, notify, writer, rbuf>>

ReadLoopUnwrapped ==  \* a slip: compares the indices as if they never wrapped
  /\ rpc = "loop"
  /\ rpc' = IF rxHead < rxTail /\ Len(rbuf) < ReadLen THEN "move" ELSE "wait"
  /\ UNCHANGED <<ring, notify, writer, rbuf>>

ReadLoop ==
  /\ rpc = "loop"
  /\ rpc' = IF rxHead # rxTail /\ Len(rbuf) < ReadLen THEN "move" ELSE "wait"
  /\ UNCHANGED <<ring, notify, writer, rbuf>>

\* *buf++ = rxBuf[rxHead++]; if (rxHead >= SCPI_BUF_MAX) rxHead = 0; cnt++
MoveByteAfter ==      \* a slip: reads rxBuf[++rxHead]
  /\ rpc = "move"
  /\ rbuf' = Append(rbuf, rxBuf[HeadNext(rxHead)])
  /\ rxHead' = HeadNext(rxHead)
  /\ rpc' = "loop"
  /\ UNCHANGED <<rxBuf, rxTail, overrun, notify, writer>>

MoveByte ==
  /\ rpc = "move"
  /\ rbuf' = Append(rbuf, rxBuf[rxHead])
  /\ rxHead' = HeadNext(rxHead)
  /\ rpc' = "loop"
  /\ UNCHANGED <<rxBuf, rxTail, overrun, notify, writer>>

-----------------------------------------------------------------------------
(***************************************************************************)
(* The process dies anywhere and scpi_adpt_init runs again.  msgget        *)
(* without IPC_CREAT finds the queue the dead process left in the kernel,  *)
(* with its messages in it.                                                *)
(***************************************************************************)
Restart ==
  /\ Restarts
  /\ rxBuf' = [i \in Idx |-> Nul] /\ rxHead' = 0 /\ rxTail' = 0
  /\ scpi_sem' = 1 /\ UNCHANGED msgq
  /\ wpc' = [w \in Writers |-> "idle"] /\ wcmd' = [w \in Writers |-> <<>>]
  /\ wcnt' = [w \in Writers |-> 0] /\ wreg' = [w \in Writers |-> 0]
  /\ rpc' = "wait" /\ rbuf' = <<>>
  /\ overrun' = FALSE

CallWrite(w) ==
  \/ StoreByte(w)
  \/ TestTail(w)
  \/ WrapTail(w)
  \/ LoadTail(w)
  \/ IncTail(w)
  \/ PostMsg(w)
  \/ SemPost(w)

ReaderStep ==
  \/ SemWait
  \/ MsgReceive
  \/ ReadLoop
  \/ MoveByte

Next ==
  \/ \E w \in Writers : BeginWrite(w) \/ CallWrite(w) \/ Cancel(w)
  \/ ReaderStep
  \/ Restart

Spec == Init /\ [][Next]_vars

(***************************************************************************)
(* Threads the kernel schedules: a writer inside scpi_msg_cmd_write and    *)
(* the SCPI thread keep running.  No bus has to send anything.             *)
(***************************************************************************)
Fairness == WF_vars(ReaderStep) /\ \A w \in Writers : WF_vars(CallWrite(w))

FairSpec == Spec /\ Fairness

-----------------------------------------------------------------------------
(* Properties                                                              *)

\* At most one thread writes commands.
Sole == \A u, v \in Writers : u = v

(***************************************************************************)
(* The bounds of the ring, the queue and the semaphore.  The tail stays    *)
(* in the ring with one writer; racing writers may carry it past.          *)
(***************************************************************************)
TypeOK ==
  /\ rxBuf \in [Idx -> Byte \cup {Nul}]
  /\ rxHead \in Idx
  /\ rxTail \in IF Sole THEN Idx ELSE 0 .. TailMax
  /\ scpi_sem \in 0 .. QueueMax + 1
  /\ msgq \in 0 .. QueueMax
  /\ wpc \in [Writers -> WriterPC]
  /\ wcmd \in [Writers -> Command]
  /\ wcnt \in [Writers -> 0 .. CmdLen]
  /\ wreg \in [Writers -> 0 .. TailMax]
  /\ rpc \in ReaderPC
  /\ rbuf \in Seq(Byte \cup {Nul}) /\ Len(rbuf) <= ReadLen
  /\ overrun \in BOOLEAN

\* The writers that have sent their message and not yet posted the semaphore.
Posting == {w \in Writers : wpc[w] = "post"}

\* Messages a wake-up of the SCPI thread has been or will be posted for.
Announced ==
  scpi_sem + Cardinality(Posting) + (IF rpc = "receive" THEN 1 ELSE 0)

(***************************************************************************)
(* The semaphore and the queue count the same messages: it announces every *)
(* message in the queue and, because sem_init starts it at 1 and not 0,    *)
(* exactly one that is not there.  So the SCPI thread never sleeps in      *)
(* sem_wait on a queue that has messages, however its calls and those of   *)
(* any number of writers interleave, and whether sends fail or not.        *)
(***************************************************************************)
SemaphoreMatchesQueue == Announced = msgq + 1

(***************************************************************************)
(* Over restarts the queue keeps messages the new semaphore knows nothing  *)
(* of: the semaphore can only fall behind the queue, never run ahead of it *)
(* so a wake-up always finds a message or is the one sem_init gave.        *)
(***************************************************************************)
SemaphoreNeverAhead == Announced <= msgq + 1

(***************************************************************************)
(* A message that outlived its process is never caught up with: the        *)
(* distance between queue and semaphore changes in a restart only.         *)
(***************************************************************************)
BacklogOnlyFromRestart ==
  [][Announced - msgq # Announced' - msgq' => Restart]_vars

ReaderBlocked ==
  \/ rpc = "wait" /\ scpi_sem = 0
  \/ rpc = "receive" /\ msgq = 0

(***************************************************************************)
(* No lost wake-up: with one writer that is not cancelled, in a ring not   *)
(* overrun, the SCPI thread does not sleep on an unread command once its   *)
(* writer is done.  It holds although msgsnd may have failed and dropped   *)
(* the wake-up: a full queue holds enough wake-ups for a full ring, as     *)
(* ReadLen bytes are read on each (WakeupsCoverRing).                      *)
(***************************************************************************)
NoSleepOnUnread ==
  ReaderBlocked /\ (\A w \in Writers : wpc[w] = "idle") /\ ~overrun
    => rxHead = rxTail

\* 2048 messages of 8 bytes in 16384 (msgmnb), 100 bytes for each; 1024 slots.
\* A command is never longer than a read.
WakeupsCoverRing == BufMax <= ReadLen * QueueMax + 1 /\ CmdLen <= ReadLen

(***************************************************************************)
(* With one writer, until an overrun, the ring is a first-in first-out     *)
(* stream of BufMax-1 bytes: every byte is read once, in order, unaltered, *)
(* although writer and reader share the indices without a lock.            *)
(***************************************************************************)
Stream == INSTANCE CommandStream WITH
            Capacity <- BufMax - 1,
            pending  <- Contents(rxBuf, rxHead, rxTail),
            chunk    <- rbuf

ImplementsStream == Stream!Spec

(***************************************************************************)
(* Every byte that lies in the ring is eventually read, or the ring is     *)
(* overrun: the SCPI thread gets past every slot it has reached.           *)
(***************************************************************************)
UnreadIsRead ==
  \A i \in Idx : rxHead = i /\ rxTail # i ~> rxHead # i \/ overrun
=============================================================================
