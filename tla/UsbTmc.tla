-------------------------------- MODULE UsbTmc --------------------------------
(* USBTMC messages (usb.c): the loop of simple_sink_thread reads bulk-OUT        *)
(* transfers into one packet buffer, takes commands out of it and echoes them    *)
(* into the response ring (scpi_msg_adpt.c), and answers requests from that ring.*)
(* One action per read, per write and per byte moved in the ring; the command's  *)
(* way to the SCPI thread is ScpiMsg.  A transfer is a sequence of cells: its    *)
(* header (a record in the first of Header cells), its data, its padding.  The   *)
(* host (external) pads with zeros and has one transfer on its way, whose first  *)
(* read fills the buffer or takes all of it; later reads may come out shorter.   *)
EXTENDS ScpiRing, FiniteSets

CONSTANTS Header,    \* USB_TMC_HEADER_LEN, 12
          Align,     \* transfers are padded to a multiple, 4
          BufSize,   \* USB_BUFSIZE, 512
          Tries,     \* REPEAT_READ_CNT, 10
          Byte, Nul, \* the bytes of commands, and the byte 0
          Message,   \* the data the host sends
          Clears     \* the host may send INITIATE_CLEAR

ASSUME TmcAssumption ==
  /\ Header \in Nat \ {0} /\ Align \in Nat \ {0} /\ Header % Align = 0
  /\ BufSize \in Nat /\ BufSize > Header /\ BufSize % Align = 0 /\ Tries \in Nat
  /\ Nul \notin Byte /\ Message \subseteq Seq(Byte)
  /\ Clears \in BOOLEAN

DataMax == BufSize - Header

Aligned(n) == ((n + Align - 1) \div Align) * Align

\* transferSize and the header, rounded up
TotalSizeNoHeader(n) == Aligned(n)   \* a slip
TotalSize(n) == Aligned(n + Header)

\* A continuation read of more than the buffer is outside this model.
ASSUME MessagesFit == \A d \in Message : TotalSize(Len(d)) <= 2 * BufSize

VARIABLES on,       \* the host is there
          xfer,     \* the cells of the host's transfer that are not yet read
          unclear,  \* history: the last INITIATE_CLEAR left a response waiting
          pc,       \* the sink thread's next step
          buf,      \* the packet buffer
          rcved,    \* bytes received of the message (status, then rcved_len)
          told,     \* history: the data of the message in buf
          call,     \* transfersize, loop, cmd_buf up to cmd_len, bytes echoed
          txBuf, txHead, txTail,  \* the response ring
          overrun,  \* history: a full ring was written to
          chunk,    \* what is read of the ring for the part being sent
          resp,     \* response_len, response_sended, response_total_len
          wire      \* what write was just given, without the header

hostVars == <<on, xfer, unclear>>
pass == <<rcved, told, call, chunk, resp, wire>>
ring == <<txBuf, txHead, txTail, overrun>>
vars == <<hostVars, pc, buf, pass, ring>>

Slots == 0 .. BufSize - 1
\* A new thread's buffer is uninitialised stack.
Garbage == {[i \in Slots |-> b] : b \in Byte \union {Nul}}

NoCall == [size |-> 0, loop |-> 0, cmd |-> <<>>, cnt |-> 0]
NoResp == [len |-> 0, sent |-> 0, total |-> 0]

Init ==
  /\ on = TRUE /\ xfer = <<>> /\ unclear = FALSE
  /\ pc = "read" /\ buf \in Garbage
  /\ rcved = 0 /\ told = <<>> /\ call = NoCall /\ chunk = <<>> /\ resp = NoResp
  /\ wire = <<>>
  /\ txBuf = [i \in Idx |-> Nul] /\ txHead = 0 /\ txTail = 0 /\ overrun = FALSE

-----------------------------------------------------------------------------
(* The host.                                                                   *)

Zeros(n) == [i \in 1 .. n |-> Nul]
Padded(h, d) == <<h>> \o Zeros(Header - 1) \o d \o Zeros(Aligned(Len(d)) - Len(d))
IsHeader(c) == c \notin Byte \union {Nul}

Headers == [id : {"out"}, data : Message]
           \union [id : {"in"}, data : {<<>>}, term : BOOLEAN]
           \union [id : {"vendor"}, data : {<<>>}]

ASSUME HeadersAssumption == \A h \in Headers : IsHeader(h)

Sends(id) ==
  /\ on /\ xfer = <<>>
  /\ \E h \in Headers : h.id = id /\ xfer' = Padded(h, h.data)
  /\ UNCHANGED <<on, unclear, pc, buf, pass, ring>>

HostMessage == Sends("out")
HostRequest == Sends("in")
HostVendor  == Sends("vendor")

HostLeaves ==
  /\ on /\ on' = FALSE /\ xfer' = <<>>
  /\ UNCHANGED <<unclear, pc, buf, pass, ring>>

\* The host returns and a new sink thread runs; the ring is static.
HostReturns ==
  /\ ~on /\ pc = "done" /\ on' = TRUE
  /\ pc' = "read" /\ buf' \in Garbage
  /\ UNCHANGED <<xfer, unclear, pass, ring>>

\* INITIATE_CLEAR is answered by ep0_thread, with success and nothing else.
InitiateClear ==
  /\ Clears /\ on /\ unclear' = (txHead # txTail)
  /\ UNCHANGED <<on, xfer, pc, buf, pass, ring>>

-----------------------------------------------------------------------------
(* Packets.                                                                    *)

Least(a, b) == IF a < b THEN a ELSE b

\* A pass of the loop is over: what is local to it and to its calls is dead.
EndPass(next) ==
  /\ pc' = next
  /\ rcved' = 0 /\ told' = <<>> /\ call' = NoCall /\ chunk' = <<>> /\ resp' = NoResp
  /\ wire' = <<>>

\* read(sink_fd, buf, n)
Receives(n) ==
  /\ buf' = [i \in Slots |-> IF i < n THEN xfer[i + 1] ELSE buf[i]]
  /\ xfer' = SubSeq(xfer, n + 1, Len(xfer))

ReadPacket ==
  /\ pc = "read" /\ on /\ xfer # <<>>
  /\ LET n == Least(BufSize, Len(xfer)) IN Receives(n) /\ rcved' = n
  /\ told' = IF IsHeader(xfer[1]) THEN xfer[1].data ELSE <<>>
  /\ pc' = "packet"
  /\ UNCHANGED <<on, unclear, call, chunk, resp, wire, ring>>

\* read fails, or the thread is cancelled where it reads, prints, queues or writes:
\* the last such place before the echo is in scpi_msg_cmd_write.
Ends ==
  /\ ~on
  /\ \/ pc \in {"read", "packet", "more", "finish", "send", "sent"}
     \/ pc = "echo" /\ call.cnt = 0
  /\ EndPass("done")
  /\ UNCHANGED <<hostVars, buf, ring>>

Holds(id) == pc = "packet" /\ IsHeader(buf[0]) /\ buf[0].id = id

\* usbtmc_msg_cmd_read up to its first read
CommandPacket ==
  /\ Holds("out")
  /\ LET size == TotalSize(Len(buf[0].data)) IN
       \/ size < rcved /\ EndPass("read")
       \/ /\ size >= rcved /\ call' = [call EXCEPT !.size = size]
          /\ pc' = IF size = rcved THEN "finish" ELSE "more"
          /\ UNCHANGED <<rcved, told, chunk, resp, wire>>
  /\ UNCHANGED <<hostVars, buf, ring>>

GiveUp ==
  /\ pc = "more" /\ call.loop >= Tries
  /\ EndPass("read")
  /\ UNCHANGED <<hostVars, buf, ring>>

\* The rest of the transfer goes to the start of the buffer, in as many reads as the
\* host made short packets of it; a failed read falls through to rcv_finish.
ContinueRead ==
  /\ pc = "more" /\ call.loop < Tries
  /\ call' = [call EXCEPT !.loop = @ + 1]
  /\ \/ \E n \in 1 .. Least(call.size - rcved, Len(xfer)) :
          /\ on /\ Receives(n) /\ rcved' = rcved + n
          /\ pc' = IF call.size > rcved' THEN "more" ELSE "finish"
     \/ ~on /\ pc' = "finish" /\ UNCHANGED <<xfer, buf, rcved>>
  /\ UNCHANGED <<on, unclear, told, chunk, resp, wire, ring>>

\* strlen finds its end n bytes after the header; past the buffer it would go on.
TextEnds(n) ==
  /\ \A i \in 0 .. n - 1 : buf[Header + i] # Nul
  /\ n = DataMax \/ buf[Header + n] = Nul

\* A slip: the length includes the padding.
FinishPadded ==
  /\ pc = "finish" /\ pc' = "echo"
  /\ call' = [call EXCEPT !.cmd =
                [k \in 1 .. Least(rcved, BufSize) - Header |-> buf[Header + k - 1]]]
  /\ UNCHANGED <<hostVars, buf, rcved, told, chunk, resp, wire, ring>>

Finish ==
  /\ pc = "finish" /\ pc' = "echo"
  /\ \E n \in {m \in 0 .. DataMax : TextEnds(m)} :
       call' = [call EXCEPT !.cmd = [k \in 1 .. n |-> buf[Header + k - 1]]]
  /\ UNCHANGED <<hostVars, buf, rcved, told, chunk, resp, wire, ring>>

\* scpi_msg_reponse_write: the test under "clear txbuf" does nothing, then
\* scpi_msg_tx_write moves one byte at a time.
Echo ==
  /\ pc = "echo"
  /\ \/ /\ call.cnt < Len(call.cmd)
        /\ call' = [call EXCEPT !.cnt = @ + 1]
        /\ txBuf' = [txBuf EXCEPT ![txTail] = call.cmd[call.cnt + 1]]
        /\ txTail' = TailNext(txTail)
        /\ overrun' = (overrun \/ TailNext(txTail) = txHead)
        /\ UNCHANGED <<pc, rcved, told, chunk, resp, wire, txHead>>
     \/ call.cnt = Len(call.cmd) /\ EndPass("read") /\ UNCHANGED ring
  /\ UNCHANGED <<hostVars, buf>>

OtherPacket ==
  /\ pc = "packet" /\ ~Holds("out") /\ ~Holds("in")
  /\ EndPass("read")
  /\ UNCHANGED <<hostVars, buf, ring>>

-----------------------------------------------------------------------------
(* usbtmc_msg_cmd_response.                                                    *)

Refuse ==
  /\ Holds("in") /\ (buf[0].term \/ Avail(txHead, txTail) <= 0)
  /\ EndPass("read")
  /\ UNCHANGED <<hostVars, buf, ring>>

Respond ==
  /\ Holds("in") /\ ~buf[0].term /\ Avail(txHead, txTail) > 0
  /\ LET total == Avail(txHead, txTail) IN
       resp' = [len |-> Least(total, DataMax), sent |-> 0, total |-> total]
  /\ pc' = "take"
  /\ UNCHANGED <<hostVars, buf, rcved, told, call, chunk, wire, ring>>

Taking == pc = "take" /\ txHead # txTail /\ Len(chunk) < resp.len

\* A slip: reads txBuf[++txHead].
TakeAfter ==
  /\ Taking
  /\ chunk' = Append(chunk, txBuf[HeadNext(txHead)]) /\ txHead' = HeadNext(txHead)
  /\ UNCHANGED <<hostVars, pc, buf, rcved, told, call, resp, wire, txBuf, txTail, overrun>>

\* The loop of scpi_msg_tx_read; the first part of a response goes to buf.
Take ==
  /\ Taking
  /\ chunk' = Append(chunk, txBuf[txHead]) /\ txHead' = HeadNext(txHead)
  /\ buf' = IF resp.sent = 0 THEN [buf EXCEPT ![Header + Len(chunk)] = txBuf[txHead]] ELSE buf
  /\ UNCHANGED <<hostVars, pc, rcved, told, call, resp, wire, txBuf, txTail, overrun>>

Taken ==
  /\ pc = "take" /\ ~Taking /\ pc' = "send"
  /\ UNCHANGED <<hostVars, buf, pass, ring>>

\* The data that write is given: both lengths are rounded up to a multiple of Align.
\* The first part is padded with what the buffer holds, the later ones, which are
\* in tmp_buf, with the zeros of its memset.
Written ==
  IF resp.sent = 0
  THEN [k \in 1 .. Aligned(resp.len + Header) - Header |-> buf[Header + k - 1]]
  ELSE [k \in 1 .. Aligned(resp.len) |-> IF k <= Len(chunk) THEN chunk[k] ELSE Nul]

\* write(source_fd, ...), which may fail unnoticed
Send ==
  /\ pc = "send" /\ pc' = "sent" /\ wire' = Written
  /\ UNCHANGED <<hostVars, buf, rcved, told, call, chunk, resp, ring>>

\* A slip: the next part's length is computed before the sent part is counted.
NextPartEarly ==
  /\ pc = "sent"
  /\ LET sent == resp.sent + resp.len IN
       \/ /\ sent < resp.total
          /\ resp' = [resp EXCEPT !.sent = sent, !.len = Least(resp.total - resp.sent, BufSize)]
          /\ chunk' = <<>> /\ wire' = <<>> /\ pc' = "take" /\ UNCHANGED <<rcved, told, call>>
       \/ sent >= resp.total /\ EndPass("read")
  /\ UNCHANGED <<hostVars, buf, ring>>

\* The while loop.
NextPart ==
  /\ pc = "sent"
  /\ LET sent == resp.sent + resp.len IN
       \/ /\ sent < resp.total
          /\ resp' = [resp EXCEPT !.sent = sent, !.len = Least(resp.total - sent, BufSize)]
          /\ chunk' = <<>> /\ wire' = <<>> /\ pc' = "take" /\ UNCHANGED <<rcved, told, call>>
       \/ sent >= resp.total /\ EndPass("read")
  /\ UNCHANGED <<hostVars, buf, ring>>

-----------------------------------------------------------------------------
Next == \/ HostMessage \/ HostRequest \/ HostVendor \/ HostLeaves \/ HostReturns
        \/ InitiateClear
        \/ ReadPacket \/ Ends \/ OtherPacket
        \/ CommandPacket \/ GiveUp \/ ContinueRead \/ Finish \/ Echo
        \/ Refuse \/ Respond \/ Take \/ Taken \/ Send \/ NextPart

Spec == Init /\ [][Next]_vars

-----------------------------------------------------------------------------
(* Properties.                                                                 *)

\* The variables have their types; the ring's indices stay in the ring, and the
\* lengths within the buffer they are used for.
TypeOK ==
  /\ on \in BOOLEAN /\ unclear \in BOOLEAN
  /\ pc \in {"read", "packet", "more", "finish", "echo", "take", "send", "sent", "done"}
  /\ DOMAIN buf = Slots /\ rcved \in 0 .. 2 * BufSize
  /\ call.size \in 0 .. 2 * BufSize /\ call.loop \in 0 .. Tries
  /\ Len(call.cmd) <= DataMax /\ call.cnt \in 0 .. Len(call.cmd)
  /\ txBuf \in [Idx -> Byte \union {Nul}] /\ txHead \in Idx /\ txTail \in Idx
  /\ overrun \in BOOLEAN
  /\ resp.len \in 0 .. BufSize /\ (resp.sent = 0 => resp.len <= DataMax)
  /\ resp.sent \in 0 .. BufMax - 1 /\ resp.total \in 0 .. BufMax - 1
  /\ Len(wire) <= BufSize /\ (resp.sent = 0 => Len(wire) <= DataMax)

\* A command is passed on as the host sent it, when it comes in one packet with at
\* least one byte of padding: strlen must not run into what an earlier packet or an
\* earlier response left in the buffer.
CommandAsSent ==
  /\ pc = "echo"
  /\ Aligned(Len(told)) \in Len(told) + 1 .. DataMax
  => call.cmd = told

\* Whatever the length of a command and of the packets it comes in, the reads of
\* usbtmc_msg_cmd_read keep in step with the host's transfers: after a command that
\* was not given up the next read finds a header.
InStep == pc \in {"finish", "echo"} /\ xfer # <<>> => IsHeader(xfer[1])

\* The parts the host is given make up the response: each starts with all the bytes
\* that were taken from the ring for it, nothing comes between two parts, and what a
\* part leaves in the ring is the rest.  The rounding of the lengths adds less than
\* Align bytes, to the last part only: zeros, or, when it is the only part, what
\* earlier packets left in the buffer.
PartsMakeTheResponse ==
  pc = "sent" =>
    /\ Len(chunk) = resp.len /\ \A k \in 1 .. resp.len : wire[k] = chunk[k]
    /\ Len(wire) \in resp.len .. resp.len + Align - 1
    /\ resp.sent + resp.len < resp.total => Len(wire) = resp.len
    /\ resp.sent > 0 => \A k \in resp.len + 1 .. Len(wire) : wire[k] = Nul
    /\ Avail(txHead, txTail) = resp.total - resp.sent - resp.len

\* Until it is overrun the response ring is a stream: what is sent is what was
\* echoed, in order and once.
Stream == INSTANCE CommandStream WITH
            Capacity <- BufMax - 1, ReadLen <- BufSize,
            pending <- Contents(txBuf, txHead, txTail)
ImplementsStream == Stream!Spec

\* tmc.h of INITIATE_CLEAR: "clears all pending Bulk-IN transfers".
ClearClears == ~unclear
=============================================================================
