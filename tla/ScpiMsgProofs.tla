---------------------------- MODULE ScpiMsgProofs ----------------------------
(***************************************************************************)
(* Theorems about ScpiMsg for every set of writers and every size of the   *)
(* ring, the commands and the queue.                                       *)
(***************************************************************************)
EXTENDS ScpiMsg, ScpiRingProofs, FiniteSetTheorems

(***************************************************************************)
(* The inductive invariant.  The bounds of the type invariant need what    *)
(* the program counters say of the indices: a writer inside the loop has a *)
(* byte left, the thread that has just read fewer than ReadLen bytes moves *)
(* another one, and a sole writer that took the else branch is still       *)
(* below the last slot.                                                    *)
(***************************************************************************)
Types ==
  /\ rxBuf \in [Idx -> Byte \cup {Nul}]
  /\ rxHead \in Idx
  /\ rxTail \in 0 .. TailMax
  /\ scpi_sem \in Nat
  /\ msgq \in 0 .. QueueMax
  /\ wpc \in [Writers -> WriterPC]
  /\ wcmd \in [Writers -> Command]
  /\ wcnt \in [Writers -> 0 .. CmdLen]
  /\ wreg \in [Writers -> 0 .. TailMax]
  /\ rpc \in ReaderPC
  /\ rbuf \in Seq(Byte \cup {Nul}) /\ Len(rbuf) <= ReadLen
  /\ overrun \in BOOLEAN

InWriteLoop(w) == wpc[w] \in {"store", "test", "wrap", "load", "inc"}

LoopBounds ==
  /\ \A w \in Writers : InWriteLoop(w) => wcnt[w] < Len(wcmd[w])
  /\ rpc = "move" => Len(rbuf) < ReadLen

SoleTail ==
  Sole =>
    /\ rxTail \in Idx
    /\ \A w \in Writers :
         /\ wpc[w] = "wrap" => rxTail = BufMax - 1
         /\ wpc[w] \in {"load", "inc"} => rxTail < BufMax - 1
         /\ wpc[w] = "inc" => wreg[w] = rxTail

IInv == Types /\ LoopBounds /\ SoleTail /\ SemaphoreNeverAhead

-----------------------------------------------------------------------------
\* A command is a sequence of at most CmdLen bytes.
LEMMA CommandIsSeq ==
  ASSUME NEW c \in Command
  PROVE  /\ c \in Seq(Byte) /\ Len(c) \in 0 .. CmdLen
         /\ \A i \in 1 .. Len(c) : c[i] \in Byte
<1>1. PICK n \in 0 .. CmdLen : c \in [1 .. n -> Byte]
  BY DEF Command
<1>2. n \in Nat /\ c \in Seq(Byte) /\ Len(c) = n
  BY <1>1, ScpiMsgAssumption DEF ScpiMsgAssumption
<1> QED
  BY <1>1, <1>2

LEMMA EmptyCommand == <<>> \in Command
<1>1. <<>> \in [1 .. 0 -> Byte]
  OBVIOUS
<1>2. 0 \in 0 .. CmdLen
  BY ScpiMsgAssumption DEF ScpiMsgAssumption
<1> QED
  BY <1>1, <1>2 DEF Command

-----------------------------------------------------------------------------
\* How the set of posting writers changes when one writer's statement does.
LEMMA PostingUnchanged ==
  ASSUME wpc' = wpc \/ \E w \in Writers : \E pc \in WriterPC \ {"post"} :
                         wpc[w] # "post" /\ wpc' = [wpc EXCEPT ![w] = pc],
         wpc \in [Writers -> WriterPC]
  PROVE  Posting' = Posting
BY DEF Posting

LEMMA PostingFinite ==
  /\ IsFiniteSet(Posting) /\ IsFiniteSet(Posting')
  /\ Cardinality(Posting) \in Nat /\ Cardinality(Posting') \in Nat
<1>1. Posting \subseteq Writers /\ Posting' \subseteq Writers
  BY DEF Posting
<1>2. IsFiniteSet(Posting) /\ IsFiniteSet(Posting')
  BY <1>1, FS_Subset, ScpiMsgAssumption DEF ScpiMsgAssumption
<1> QED
  BY <1>2, FS_CardinalityType

LEMMA AnnouncedIsInt ==
  /\ Types => Announced \in Int /\ msgq \in Int
  /\ Types' => Announced' \in Int /\ msgq' \in Int
<1>1. Types => Announced \in Int /\ msgq \in Int
  BY PostingFinite DEF Types, Announced
<1>2. Types' => Announced' \in Int /\ msgq' \in Int
  BY PostingFinite DEF Types, Announced
<1> QED
  BY <1>1, <1>2

LEMMA PostingCount ==
  ASSUME NEW w \in Writers, wpc \in [Writers -> WriterPC]
  PROVE  /\ wpc[w] # "post" /\ wpc' = [wpc EXCEPT ![w] = "post"]
              => Cardinality(Posting') = Cardinality(Posting) + 1
         /\ wpc[w] = "post" /\ wpc' = [wpc EXCEPT ![w] = "idle"]
              => Cardinality(Posting') = Cardinality(Posting) - 1
<1>1. IsFiniteSet(Posting)
  BY PostingFinite
<1>3. ASSUME wpc[w] # "post", wpc' = [wpc EXCEPT ![w] = "post"]
      PROVE  Cardinality(Posting') = Cardinality(Posting) + 1
  <2>1. Posting' = Posting \cup {w} /\ w \notin Posting
    BY <1>3 DEF Posting
  <2> QED
    BY <1>1, <2>1, FS_AddElement
<1>4. ASSUME wpc[w] = "post", wpc' = [wpc EXCEPT ![w] = "idle"]
      PROVE  Cardinality(Posting') = Cardinality(Posting) - 1
  <2>1. Posting' = Posting \ {w} /\ w \in Posting
    BY <1>4 DEF Posting
  <2> QED
    BY <1>1, <2>1, FS_RemoveElement
<1> QED
  BY <1>3, <1>4

LEMMA NonePosting ==
  ASSUME \A w \in Writers : wpc[w] # "post"
  PROVE  Cardinality(Posting) = 0
<1>1. Posting = {}
  BY DEF Posting
<1> QED
  BY <1>1, FS_EmptySet
-----------------------------------------------------------------------------
LEMMA InitIInv == Init => IInv
<1> SUFFICES ASSUME Init PROVE IInv
  OBVIOUS
<1> USE BufMaxAssumption, ScpiMsgAssumption DEF Init, ScpiMsgAssumption
<1>1. Types
  BY EmptyCommand DEF Types, Idx, TailMax, WriterPC, ReaderPC
<1>2. LoopBounds /\ SoleTail
  BY DEF LoopBounds, InWriteLoop, SoleTail, Idx
<1>3. SemaphoreNeverAhead
  BY NonePosting DEF SemaphoreNeverAhead, Announced
<1> QED
  BY <1>1, <1>2, <1>3 DEF IInv

\* Steps that leave the semaphore, the queue, the posting writers and the
\* SCPI thread's place before msgrcv alone announce as many messages.
LEMMA AnnouncedUnchanged ==
  ASSUME UNCHANGED notify, Posting' = Posting,
         (rpc' = "receive") = (rpc = "receive")
  PROVE  Announced' = Announced
BY DEF Announced, notify

-----------------------------------------------------------------------------
(* One lemma for each statement of scpi_msg_cmd_write.                     *)

LEMMA BeginWriteIInv ==
  ASSUME IInv, NEW w \in Writers, BeginWrite(w)
  PROVE  IInv'
<1> USE BufMaxAssumption, ScpiMsgAssumption
        DEF ScpiMsgAssumption, IInv, ring, notify, reader, WriterPC
<1>1. PICK cmd \in Command :
        /\ wcmd' = [wcmd EXCEPT ![w] = cmd]
        /\ wpc' = [wpc EXCEPT ![w] = LoopPC(0, Len(cmd))]
  BY DEF BeginWrite
<1>2. Len(cmd) \in Nat
  BY CommandIsSeq
<1>3. LoopPC(0, Len(cmd)) \in {"store", "send"}
  BY DEF LoopPC
<1>4. Types'
  BY <1>1, <1>3 DEF Types, BeginWrite
<1>5. LoopBounds'
  BY <1>1, <1>2 DEF Types, LoopBounds, InWriteLoop, BeginWrite, LoopPC
<1>6. SoleTail'
  BY <1>1, <1>3 DEF Types, SoleTail, Sole, BeginWrite
<1>7. SemaphoreNeverAhead'
  <2>1. Posting' = Posting
    BY <1>1, <1>3, PostingUnchanged DEF Types, BeginWrite
  <2> QED
    BY <2>1, AnnouncedUnchanged DEF SemaphoreNeverAhead, BeginWrite
<1> QED
  BY <1>4, <1>5, <1>6, <1>7

LEMMA StoreByteIInv ==
  ASSUME IInv, NEW w \in Writers, StoreByte(w)
  PROVE  IInv'
<1> USE BufMaxAssumption, ScpiMsgAssumption
        DEF ScpiMsgAssumption, IInv, StoreByte, ring, notify, reader, WriterPC
<1>1. wcmd[w][wcnt[w] + 1] \in Byte
  <2>1. wcmd[w] \in Command /\ wcnt[w] \in 0 .. CmdLen /\ wcnt[w] < Len(wcmd[w])
    BY DEF Types, LoopBounds, InWriteLoop
  <2>2. Len(wcmd[w]) \in Nat /\ \A i \in 1 .. Len(wcmd[w]) : wcmd[w][i] \in Byte
    BY <2>1, CommandIsSeq
  <2> QED
    BY <2>1, <2>2
<1>2. Types'
  BY <1>1 DEF Types, Idx
<1>3. LoopBounds'
  BY DEF Types, LoopBounds, InWriteLoop
<1>4. SoleTail'
  BY DEF Types, SoleTail, Sole, Idx
<1>5. SemaphoreNeverAhead'
  <2>1. Posting' = Posting
    BY PostingUnchanged DEF Types
  <2> QED
    BY <2>1, AnnouncedUnchanged DEF SemaphoreNeverAhead
<1> QED
  BY <1>2, <1>3, <1>4, <1>5

LEMMA TestTailIInv ==
  ASSUME IInv, NEW w \in Writers, TestTail(w)
  PROVE  IInv'
<1> USE BufMaxAssumption, ScpiMsgAssumption
        DEF ScpiMsgAssumption, IInv, TestTail, ring, notify, reader, WriterPC
<1>1. Types'
  BY DEF Types, Idx
<1>2. LoopBounds'
  BY DEF Types, LoopBounds, InWriteLoop
<1>3. SoleTail'
  BY DEF Types, SoleTail, Sole, Idx
<1>4. SemaphoreNeverAhead'
  <2>1. Posting' = Posting
    BY PostingUnchanged DEF Types
  <2> QED
    BY <2>1, AnnouncedUnchanged DEF SemaphoreNeverAhead
<1> QED
  BY <1>1, <1>2, <1>3, <1>4

LEMMA SetTailIInv ==
  ASSUME IInv, NEW w \in Writers, NEW t \in 0 .. TailMax,
         InWriteLoop(w), SetTail(w, t), Sole => t \in Idx
  PROVE  IInv'
<1> USE BufMaxAssumption, ScpiMsgAssumption
        DEF ScpiMsgAssumption, IInv, SetTail, notify, reader, WriterPC
<1>1. /\ wcnt[w] \in Nat /\ wcnt[w] < Len(wcmd[w])
      /\ wcnt[w] + 1 \in 0 .. CmdLen
  BY CommandIsSeq DEF Types, LoopBounds
<1>2. LoopPC(wcnt[w] + 1, Len(wcmd[w])) \in {"store", "send"}
  BY DEF LoopPC
<1>3. Types'
  BY <1>1, <1>2 DEF Types
<1>4. LoopBounds'
  BY <1>1 DEF Types, LoopBounds, InWriteLoop, LoopPC
<1>5. SoleTail'
  BY <1>2 DEF Types, SoleTail, Sole
<1>6. SemaphoreNeverAhead'
  <2>1. Posting' = Posting
    BY <1>2, PostingUnchanged DEF Types, InWriteLoop
  <2> QED
    BY <2>1, AnnouncedUnchanged DEF SemaphoreNeverAhead
<1> QED
  BY <1>3, <1>4, <1>5, <1>6

LEMMA WrapTailIInv ==
  ASSUME IInv, NEW w \in Writers, WrapTail(w)
  PROVE  IInv'
<1>1. 0 \in 0 .. TailMax /\ 0 \in Idx
  BY BufMaxAssumption DEF TailMax, Idx
<1> QED
  BY <1>1, SetTailIInv DEF WrapTail, InWriteLoop

LEMMA LoadTailIInv ==
  ASSUME IInv, NEW w \in Writers, LoadTail(w)
  PROVE  IInv'
<1> USE BufMaxAssumption, ScpiMsgAssumption
        DEF ScpiMsgAssumption, IInv, LoadTail, ring, notify, reader, WriterPC
<1>1. Types'
  BY DEF Types, Idx
<1>2. LoopBounds'
  BY DEF Types, LoopBounds, InWriteLoop
<1>3. SoleTail'
  BY DEF Types, SoleTail, Sole, Idx
<1>4. SemaphoreNeverAhead'
  <2>1. Posting' = Posting
    BY PostingUnchanged DEF Types
  <2> QED
    BY <2>1, AnnouncedUnchanged DEF SemaphoreNeverAhead
<1> QED
  BY <1>1, <1>2, <1>3, <1>4

LEMMA IncTailIInv ==
  ASSUME IInv, NEW w \in Writers, IncTail(w)
  PROVE  IInv'
<1>1. wreg[w] + 1 \in 0 .. TailMax
  BY BufMaxAssumption DEF IInv, Types, IncTail, TailMax
<1>2. Sole => wreg[w] + 1 \in Idx
  BY BufMaxAssumption DEF IInv, SoleTail, IncTail, Idx
<1> QED
  BY <1>1, <1>2, SetTailIInv DEF IncTail, InWriteLoop
LEMMA EndWriteIInv ==
  ASSUME IInv, NEW w \in Writers, NEW pc \in {"idle", "post"}, EndWrite(w, pc),
         scpi_sem' \in Nat, msgq' \in 0 .. QueueMax
  PROVE  Types' /\ LoopBounds' /\ SoleTail'
<1> USE BufMaxAssumption, ScpiMsgAssumption
        DEF ScpiMsgAssumption, IInv, EndWrite, ring, reader, WriterPC
<1>1. Types'
  BY EmptyCommand DEF Types, TailMax
<1>2. LoopBounds'
  BY DEF Types, LoopBounds, InWriteLoop
<1>3. SoleTail'
  BY DEF Types, SoleTail, Sole
<1> QED
  BY <1>1, <1>2, <1>3

\* The announced messages and the queue grow or shrink by the same number.
Together(d) == Announced' = Announced + d /\ msgq' = msgq + d

LEMMA PostMsgAnnounced ==
  ASSUME Types, NEW w \in Writers, PostMsg(w)
  PROVE  Together(1) \/ Together(0)
<1> USE ScpiMsgAssumption DEF ScpiMsgAssumption, Types, PostMsg, EndWrite, ring, reader,
        WriterPC, Together
<1>1. Cardinality(Posting) \in Nat
  BY PostingFinite
<1>2. CASE msgq < QueueMax /\ msgq' = msgq + 1 /\ EndWrite(w, "post")
  <2>1. Cardinality(Posting') = Cardinality(Posting) + 1
    BY <1>2, PostingCount
  <2> QED
    BY <1>1, <1>2, <2>1 DEF Announced
<1>3. CASE msgq = QueueMax /\ UNCHANGED msgq /\ EndWrite(w, "idle")
  <2>1. Posting' = Posting
    BY <1>3, PostingUnchanged
  <2> QED
    BY <1>1, <1>3, <2>1 DEF Announced
<1> QED
  BY <1>2, <1>3

LEMMA PostMsgIInv ==
  ASSUME IInv, NEW w \in Writers, PostMsg(w)
  PROVE  IInv'
<1> USE ScpiMsgAssumption DEF ScpiMsgAssumption, IInv
<1>1. /\ scpi_sem' \in Nat /\ msgq' \in 0 .. QueueMax
      /\ \E pc \in {"idle", "post"} : EndWrite(w, pc)
  BY DEF PostMsg, Types
<1>2. SemaphoreNeverAhead'
  <2>1. Announced \in Int /\ msgq \in Int
    BY AnnouncedIsInt
  <2> QED
    BY <2>1, PostMsgAnnounced DEF SemaphoreNeverAhead, Together
<1> QED
  BY <1>1, <1>2, EndWriteIInv

LEMMA SemPostAnnounced ==
  ASSUME Types, NEW w \in Writers, SemPost(w)
  PROVE  Announced' = Announced
<1>1. /\ Cardinality(Posting) \in Nat
      /\ Cardinality(Posting') = Cardinality(Posting) - 1
  BY PostingFinite, PostingCount DEF Types, SemPost, EndWrite
<1> QED
  BY <1>1 DEF Types, SemPost, EndWrite, Announced, reader

LEMMA SemPostIInv ==
  ASSUME IInv, NEW w \in Writers, SemPost(w)
  PROVE  IInv'
<1>1. scpi_sem' \in Nat /\ msgq' \in 0 .. QueueMax /\ EndWrite(w, "idle")
  BY DEF IInv, Types, SemPost
<1>2. SemaphoreNeverAhead'
  BY SemPostAnnounced DEF IInv, SemaphoreNeverAhead, SemPost
<1> QED
  BY <1>1, <1>2, EndWriteIInv DEF IInv

LEMMA CancelIInv ==
  ASSUME IInv, NEW w \in Writers, Cancel(w)
  PROVE  IInv'
<1>1. scpi_sem' \in Nat /\ msgq' \in 0 .. QueueMax /\ EndWrite(w, "idle")
  BY DEF IInv, Types, Cancel, notify
<1>2. Posting' = Posting
  BY PostingUnchanged DEF IInv, Types, Cancel, EndWrite, WriterPC
<1>3. SemaphoreNeverAhead'
  BY <1>2, AnnouncedUnchanged
     DEF IInv, SemaphoreNeverAhead, Cancel, EndWrite, notify, reader
<1> QED
  BY <1>1, <1>3, EndWriteIInv DEF IInv

-----------------------------------------------------------------------------
(* The statements of scpi_msg_cmd_read.                                    *)

LEMMA SemWaitAnnounced ==
  ASSUME Types, SemWait
  PROVE  Announced' = Announced /\ msgq' = msgq
<1>1. Posting' = Posting
  BY PostingUnchanged DEF Types, SemWait, writer
<1>2. Cardinality(Posting) \in Nat
  BY PostingFinite
<1> QED
  BY <1>1, <1>2 DEF Types, SemWait, Announced

LEMMA MsgReceiveAnnounced ==
  ASSUME Types, MsgReceive
  PROVE  Announced' = Announced - 1 /\ msgq' = msgq - 1
<1>1. Posting' = Posting
  BY PostingUnchanged DEF Types, MsgReceive, writer
<1>2. Cardinality(Posting) \in Nat
  BY PostingFinite
<1> QED
  BY <1>1, <1>2 DEF Types, MsgReceive, Announced

LEMMA ReadAnnounced ==
  ASSUME Types, ReadLoop \/ MoveByte
  PROVE  Announced' = Announced /\ msgq' = msgq
<1>1. Posting' = Posting
  BY PostingUnchanged DEF Types, ReadLoop, MoveByte, writer
<1> QED
  BY <1>1, AnnouncedUnchanged DEF ReadLoop, MoveByte, notify
LEMMA ReaderIInv ==
  ASSUME IInv, ReaderStep
  PROVE  IInv'
<1> USE BufMaxAssumption, ScpiMsgAssumption DEF ScpiMsgAssumption
<1>1. ASSUME SemWait PROVE IInv'
  <2>1. Types' /\ LoopBounds' /\ SoleTail'
    BY <1>1 DEF IInv, Types, LoopBounds, InWriteLoop, SoleTail, Sole, SemWait,
                ring, writer, ReaderPC
  <2>2. SemaphoreNeverAhead'
    BY <1>1, SemWaitAnnounced DEF IInv, SemaphoreNeverAhead
  <2> QED
    BY <2>1, <2>2 DEF IInv
<1>2. ASSUME MsgReceive PROVE IInv'
  <2>1. Types' /\ LoopBounds' /\ SoleTail'
    BY <1>2 DEF IInv, Types, LoopBounds, InWriteLoop, SoleTail, Sole, MsgReceive,
                ring, writer, ReaderPC
  <2>2. SemaphoreNeverAhead'
    <3>1. Announced \in Int /\ msgq \in Int
      BY AnnouncedIsInt DEF IInv
    <3> QED
      BY <1>2, <3>1, MsgReceiveAnnounced DEF IInv, SemaphoreNeverAhead
  <2> QED
    BY <2>1, <2>2 DEF IInv
<1>3. ASSUME ReadLoop PROVE IInv'
  <2>1. Types' /\ LoopBounds' /\ SoleTail'
    BY <1>3 DEF IInv, Types, LoopBounds, InWriteLoop, SoleTail, Sole, ReadLoop,
                ring, notify, writer, ReaderPC
  <2>2. SemaphoreNeverAhead'
    BY <1>3, ReadAnnounced DEF IInv, SemaphoreNeverAhead
  <2> QED
    BY <2>1, <2>2 DEF IInv
<1>4. ASSUME MoveByte PROVE IInv'
  <2>1. /\ rbuf' \in Seq(Byte \cup {Nul}) /\ Len(rbuf') = Len(rbuf) + 1
        /\ rxHead' \in Idx
    BY <1>4 DEF IInv, Types, MoveByte, HeadNext, Idx
  <2>2. Types' /\ LoopBounds' /\ SoleTail'
    BY <1>4, <2>1 DEF IInv, Types, LoopBounds, InWriteLoop, SoleTail, Sole, MoveByte,
                      notify, writer, ReaderPC
  <2>3. SemaphoreNeverAhead'
    BY <1>4, ReadAnnounced DEF IInv, SemaphoreNeverAhead
  <2> QED
    BY <2>2, <2>3 DEF IInv
<1> QED
  BY <1>1, <1>2, <1>3, <1>4 DEF ReaderStep

LEMMA RestartIInv ==
  ASSUME IInv, Restart
  PROVE  IInv'
<1> USE BufMaxAssumption, ScpiMsgAssumption
        DEF IInv, Restart, ScpiMsgAssumption
<1>1. Types'
  <2>1. /\ rxBuf' \in [Idx -> Byte \cup {Nul}]
        /\ rxHead' \in Idx /\ rxTail' \in 0 .. TailMax
        /\ scpi_sem' \in Nat /\ msgq' \in 0 .. QueueMax
    BY DEF Types, Idx, TailMax
  <2>2. /\ wpc' \in [Writers -> WriterPC] /\ wcmd' \in [Writers -> Command]
        /\ wcnt' \in [Writers -> 0 .. CmdLen] /\ wreg' \in [Writers -> 0 .. TailMax]
    BY EmptyCommand DEF TailMax, WriterPC
  <2>3. rbuf' \in Seq(Byte \cup {Nul}) /\ Len(rbuf') <= ReadLen
    OBVIOUS
  <2> QED
    BY <2>1, <2>2, <2>3 DEF Types, ReaderPC
<1>2. LoopBounds' /\ SoleTail'
  BY DEF LoopBounds, InWriteLoop, SoleTail, Idx
<1>3. SemaphoreNeverAhead'
  <2>1. Cardinality(Posting') = 0
    <3>1. Posting' = {}
      BY DEF Posting
    <3> QED
      BY <3>1, FS_EmptySet
  <2> QED
    BY <1>1, <2>1 DEF Types, SemaphoreNeverAhead, Announced
<1> QED
  BY <1>1, <1>2, <1>3

-----------------------------------------------------------------------------
LEMMA StepIInv == IInv /\ [Next]_vars => IInv'
<1> SUFFICES ASSUME IInv, [Next]_vars PROVE IInv'
  OBVIOUS
<1>1. ASSUME NEW w \in Writers, BeginWrite(w) \/ CallWrite(w) \/ Cancel(w)
      PROVE  IInv'
  BY <1>1, BeginWriteIInv, StoreByteIInv, TestTailIInv, WrapTailIInv, LoadTailIInv,
     IncTailIInv, PostMsgIInv, SemPostIInv, CancelIInv DEF CallWrite
<1>2. CASE UNCHANGED vars
  <2>1. Types' /\ LoopBounds' /\ SoleTail'
    BY <1>2 DEF IInv, Types, LoopBounds, InWriteLoop, SoleTail, Sole, vars, ring,
                notify, writer, reader
  <2>2. SemaphoreNeverAhead'
    <3>1. Posting' = Posting
      BY <1>2 DEF Posting, vars, writer
    <3> QED
      BY <1>2, <3>1, AnnouncedUnchanged
         DEF IInv, SemaphoreNeverAhead, vars, notify, reader
  <2> QED
    BY <2>1, <2>2 DEF IInv
<1> QED
  BY <1>1, <1>2, ReaderIInv, RestartIInv DEF Next

\* The inductive invariant, for any writers and sizes: what the program counters know.
THEOREM Invariance == Spec => []IInv
BY InitIInv, StepIInv, PTL DEF Spec

(***************************************************************************)
(* Type correctness: in particular a sole writer never leaves the ring,    *)
(* and no schedule posts the semaphore more often than the queue is deep.  *)
(***************************************************************************)
THEOREM TypeCorrect == Spec => []TypeOK
<1>1. IInv => TypeOK
  <2> SUFFICES ASSUME IInv PROVE TypeOK
    OBVIOUS
  <2>1. scpi_sem <= QueueMax + 1
    BY PostingFinite, ScpiMsgAssumption
       DEF IInv, Types, SemaphoreNeverAhead, Announced, ScpiMsgAssumption
  <2> QED
    BY <2>1, ScpiMsgAssumption DEF IInv, Types, SoleTail, TypeOK, ScpiMsgAssumption
<1> QED
  BY <1>1, Invariance, PTL

(***************************************************************************)
(* However often the process restarts, the semaphore never runs ahead of   *)
(* the queue by more than the one wake-up sem_init gives it.               *)
(***************************************************************************)
THEOREM NeverAhead == Spec => []SemaphoreNeverAhead
BY Invariance, PTL DEF IInv
(***************************************************************************)
(* The distance of queue and semaphore changes in a restart only, for any  *)
(* number of writers, cancelled or not, whether their sends fail or not.   *)
(***************************************************************************)
LEMMA TogetherStep ==
  IInv /\ [Next]_vars => Restart \/ \E d \in Int : Together(d)
<1> SUFFICES ASSUME IInv, [Next]_vars, ~Restart
             PROVE  \E d \in Int : Together(d)
  OBVIOUS
<1>1. Types /\ Types'
  BY StepIInv DEF IInv
<1>2. Announced \in Int /\ msgq \in Int /\ Announced' \in Int /\ msgq' \in Int
  BY <1>1, AnnouncedIsInt
<1>3. Announced' = Announced /\ msgq' = msgq => Together(0)
  BY <1>2 DEF Together
<1>4. ASSUME NEW w \in Writers, PostMsg(w)
      PROVE  \E d \in Int : Together(d)
  BY <1>1, <1>4, PostMsgAnnounced
<1>5. ASSUME NEW w \in Writers, SemPost(w)
      PROVE  \E d \in Int : Together(d)
  BY <1>1, <1>5, <1>3, SemPostAnnounced DEF SemPost
<1>6. CASE SemWait
  BY <1>1, <1>6, <1>3, SemWaitAnnounced
<1>7. CASE MsgReceive
  <2>1. Announced' = Announced - 1 /\ msgq' = msgq - 1
    BY <1>1, <1>7, MsgReceiveAnnounced
  <2>2. Together(-1)
    BY <1>2, <2>1 DEF Together
  <2> QED
    BY <2>2
<1>8. CASE ReadLoop \/ MoveByte
  BY <1>1, <1>8, <1>3, ReadAnnounced
<1>9. ASSUME NEW w \in Writers,
             \/ BeginWrite(w) \/ StoreByte(w) \/ TestTail(w) \/ WrapTail(w)
             \/ LoadTail(w) \/ IncTail(w) \/ Cancel(w)
      PROVE  \E d \in Int : Together(d)
  <2>1. UNCHANGED notify /\ rpc' = rpc
    BY <1>9 DEF BeginWrite, StoreByte, TestTail, WrapTail, LoadTail, IncTail, SetTail,
                Cancel, EndWrite, notify, reader
  <2>2. \E pc \in WriterPC \ {"post"} :
          wpc[w] # "post" /\ wpc' = [wpc EXCEPT ![w] = pc]
    BY <1>9 DEF BeginWrite, StoreByte, TestTail, WrapTail, LoadTail, IncTail, SetTail,
                Cancel, EndWrite, LoopPC, WriterPC
  <2>3. Posting' = Posting
    BY <1>1, <2>2, PostingUnchanged DEF Types
  <2> QED
    BY <1>3, <2>1, <2>3, AnnouncedUnchanged DEF notify
<1>10. CASE UNCHANGED vars
  <2>1. Posting' = Posting
    BY <1>10 DEF Posting, vars, writer
  <2> QED
    BY <1>10, <1>3, <2>1, AnnouncedUnchanged DEF vars, notify, reader
<1> QED
  BY <1>4, <1>5, <1>6, <1>7, <1>8, <1>9, <1>10 DEF Next, CallWrite, ReaderStep

\* Only a restart makes announced and queued messages part: a cancelled or a failed send
\* leaves both as they were.
THEOREM BacklogFromRestart == Spec => BacklogOnlyFromRestart
<1>1. IInv /\ [Next]_vars => [Announced - msgq # Announced' - msgq' => Restart]_vars
  <2> SUFFICES ASSUME IInv, NEW d \in Int, Together(d)
               PROVE  Announced - msgq = Announced' - msgq'
    BY TogetherStep
  <2> QED
    BY AnnouncedIsInt DEF IInv, Together
<1> QED
  BY <1>1, Invariance, PTL DEF Spec, BacklogOnlyFromRestart

(***************************************************************************)
(* In a process that is not restarted the semaphore announces exactly the  *)
(* messages in the queue and the one of sem_init: no writer, failed send   *)
(* or cancellation makes the SCPI thread sleep on a queue that has a       *)
(* message for it.                                                         *)
(***************************************************************************)
THEOREM SemaphoreCountsQueue ==
  ASSUME Restarts = FALSE
  PROVE  Spec => []SemaphoreMatchesQueue
<1>1. Init => SemaphoreMatchesQueue
  BY NonePosting DEF Init, SemaphoreMatchesQueue, Announced
<1>2. IInv /\ SemaphoreMatchesQueue /\ [Next]_vars => SemaphoreMatchesQueue'
  <2> SUFFICES ASSUME IInv, SemaphoreMatchesQueue, [Next]_vars
               PROVE  SemaphoreMatchesQueue'
    OBVIOUS
  <2>1. PICK d \in Int : Together(d)
    BY TogetherStep DEF Restart
  <2>2. Announced \in Int /\ msgq \in Int
    BY AnnouncedIsInt DEF IInv
  <2> QED
    BY <2>1, <2>2 DEF SemaphoreMatchesQueue, Together
<1> QED
  BY <1>1, <1>2, Invariance, PTL DEF Spec
-----------------------------------------------------------------------------
(***************************************************************************)
(* With one writer the command path of ScpiMsg implements CommandStream,   *)
(* and the SCPI thread does not sleep on an unread command.                *)
(***************************************************************************)

(***************************************************************************)
(* Between its store and its move of the tail the writer's byte lies at    *)
(* the tail; and a head that was seen short of the tail is still short of  *)
(* it when the SCPI thread moves the byte, as only an overrun catches up.  *)
(***************************************************************************)
ByteAtTail ==
  \A w \in Writers :
    wpc[w] \in {"test", "wrap", "load", "inc"} => rxBuf[rxTail] \in Byte

MoveHasByte == rpc = "move" /\ ~overrun => rxHead # rxTail

SInv == IInv /\ ByteAtTail /\ MoveHasByte

-----------------------------------------------------------------------------
\* A sole writer moves the tail to the next slot.
LEMMA SetTailIsNext ==
  ASSUME Sole, IInv, NEW w \in Writers, WrapTail(w) \/ IncTail(w)
  PROVE  /\ rxHead \in Idx /\ rxTail \in Idx
         /\ SetTail(w, TailNext(rxTail))
<1>1. rxHead \in Idx /\ rxTail \in Idx
  BY DEF IInv, Types, SoleTail
<1>2. CASE WrapTail(w)
  <2>1. TailNext(rxTail) = 0
    BY <1>2, BufMaxAssumption DEF IInv, SoleTail, WrapTail, TailNext
  <2> QED
    BY <1>1, <1>2, <2>1 DEF WrapTail
<1>3. CASE IncTail(w)
  <2>1. wreg[w] = rxTail /\ TailNext(rxTail) = wreg[w] + 1
    BY <1>1, <1>3, BufMaxAssumption DEF IInv, SoleTail, IncTail, TailNext, Idx
  <2> QED
    BY <1>1, <1>3, <2>1 DEF IncTail
<1> QED
  BY <1>2, <1>3

LEMMA StoredByte ==
  ASSUME Sole, IInv, NEW w \in Writers, StoreByte(w)
  PROVE  \E b \in Byte : /\ rxTail \in Idx
                         /\ rxBuf' = [rxBuf EXCEPT ![rxTail] = b]
                         /\ UNCHANGED <<rxHead, rxTail, rbuf, overrun>>
<1>1. wcmd[w] \in Command /\ wcnt[w] \in 0 .. CmdLen /\ wcnt[w] < Len(wcmd[w])
  BY DEF IInv, Types, LoopBounds, InWriteLoop, StoreByte
<1>2. wcmd[w][wcnt[w] + 1] \in Byte
  <2>1. Len(wcmd[w]) \in Nat /\ \A i \in 1 .. Len(wcmd[w]) : wcmd[w][i] \in Byte
    BY <1>1, CommandIsSeq
  <2> QED
    BY <1>1, <2>1, ScpiMsgAssumption DEF ScpiMsgAssumption
<1> QED
  BY <1>2 DEF IInv, SoleTail, StoreByte, reader

-----------------------------------------------------------------------------
LEMMA InitSInv == Init => SInv
<1>1. Init => ByteAtTail /\ MoveHasByte
  BY DEF Init, ByteAtTail, MoveHasByte
<1> QED
  BY <1>1, InitIInv DEF SInv

LEMMA StepSInv ==
  ASSUME Sole, SInv, [Next]_vars
  PROVE  SInv'
<1>1. IInv /\ IInv'
  BY StepIInv DEF SInv
<1> SUFFICES ByteAtTail' /\ MoveHasByte'
  BY <1>1 DEF SInv
<1>2. ASSUME NEW w \in Writers, StoreByte(w)
      PROVE  ByteAtTail' /\ MoveHasByte'
  <2>1. PICK b \in Byte : /\ rxTail \in Idx
                          /\ rxBuf' = [rxBuf EXCEPT ![rxTail] = b]
                          /\ UNCHANGED <<rxHead, rxTail, rbuf, overrun>>
    BY <1>1, <1>2, StoredByte
  <2>2. rxBuf'[rxTail'] \in Byte
    BY <1>1, <2>1 DEF IInv, Types
  <2> QED
    BY <1>2, <2>1, <2>2 DEF SInv, ByteAtTail, MoveHasByte, StoreByte, reader
<1>3. ASSUME NEW w \in Writers, WrapTail(w) \/ IncTail(w)
      PROVE  ByteAtTail' /\ MoveHasByte'
  <2>1. SetTail(w, TailNext(rxTail))
    BY <1>1, <1>3, SetTailIsNext
  <2>2. \A v \in Writers : wpc'[v] \in {"store", "send"}
    BY <1>1, <2>1 DEF Sole, IInv, Types, SetTail, LoopPC
  <2>3. ByteAtTail'
    BY <2>2 DEF ByteAtTail
  <2>4. MoveHasByte'
    BY <2>1 DEF SInv, MoveHasByte, SetTail, reader
  <2> QED
    BY <2>3, <2>4
<1>4. ASSUME NEW w \in Writers,
             \/ BeginWrite(w) \/ TestTail(w) \/ LoadTail(w)
             \/ PostMsg(w) \/ SemPost(w) \/ Cancel(w)
      PROVE  ByteAtTail' /\ MoveHasByte'
  <2>1. UNCHANGED <<ring, reader>>
    BY <1>4 DEF BeginWrite, TestTail, LoadTail, PostMsg, SemPost, Cancel, EndWrite,
                reader
  <2>2. \/ wpc'[w] \notin {"test", "wrap", "load", "inc"}
        \/ wpc[w] \in {"test", "wrap", "load", "inc"}
    BY <1>1, <1>4 DEF IInv, Types, BeginWrite, LoopPC, TestTail, LoadTail, PostMsg,
                      SemPost, Cancel, EndWrite
  <2>3. ByteAtTail'
    BY <2>1, <2>2 DEF SInv, ByteAtTail, Sole, ring
  <2> QED
    BY <2>1, <2>3 DEF SInv, MoveHasByte, ring, reader
<1>5. CASE SemWait \/ MsgReceive \/ ReadLoop
  BY <1>5 DEF SInv, ByteAtTail, MoveHasByte, SemWait, MsgReceive, ReadLoop, ring, writer
<1>6. CASE MoveByte
  BY <1>6 DEF SInv, ByteAtTail, MoveHasByte, MoveByte, writer
<1>7. CASE Restart
  BY <1>7 DEF ByteAtTail, MoveHasByte, Restart
<1>8. CASE UNCHANGED vars
  BY <1>8 DEF SInv, ByteAtTail, MoveHasByte, vars, ring, reader, writer
<1> QED
  BY <1>1, <1>2, <1>3, <1>4, <1>5, <1>6, <1>7, <1>8
     DEF SInv, Next, CallWrite, ReaderStep

-----------------------------------------------------------------------------
LEMMA StreamInit == Init => Stream!Init
<1> SUFFICES ASSUME Init PROVE Contents(rxBuf, rxHead, rxTail) = <<>>
  BY DEF Init, Stream!Init
<1>1. rxBuf \in [Idx -> {Nul}] /\ rxHead \in Idx /\ rxTail = rxHead
  BY BufMaxAssumption DEF Init, Idx
<1> QED
  BY <1>1, EmptyContents

LEMMA StreamStep ==
  ASSUME Sole, SInv, [Next]_vars
  PROVE  [Stream!Next]_(Stream!vars)
<1> DEFINE S == Byte \cup {Nul}
<1>1. /\ rxBuf \in [Idx -> S] /\ rxHead \in Idx /\ rxTail \in Idx
      /\ overrun \in BOOLEAN
  BY DEF SInv, IInv, Types, SoleTail
<1>2. ASSUME NEW w \in Writers, StoreByte(w)
      PROVE  UNCHANGED Stream!vars
  <2>1. PICK b \in Byte : /\ rxBuf' = [rxBuf EXCEPT ![rxTail] = b]
                          /\ UNCHANGED <<rxHead, rxTail, rbuf, overrun>>
    BY <1>2, StoredByte DEF SInv
  <2>2. Contents(rxBuf', rxHead, rxTail) = Contents(rxBuf, rxHead, rxTail)
    <3>1. \A i \in Idx : i # rxTail => rxBuf'[i] = rxBuf[i]
      BY <1>1, <2>1
    <3> HIDE DEF S
    <3> QED
      BY <1>1, <3>1, StoreKeepsContents
  <2>3. Contents(rxBuf, rxHead, rxTail)' = Contents(rxBuf, rxHead, rxTail)
    BY <2>1, <2>2
  <2> QED
    BY <2>1, <2>3 DEF Stream!vars
<1>3. ASSUME NEW w \in Writers, WrapTail(w) \/ IncTail(w)
      PROVE  Stream!Next
  <2>1. SetTail(w, TailNext(rxTail))
    BY <1>3, SetTailIsNext DEF SInv
  <2>2. CASE overrun'
    BY <1>1, <2>1, <2>2 DEF SetTail, Stream!Next, Stream!Overrun
  <2>3. CASE ~overrun'
    <3>1. ~overrun /\ TailNext(rxTail) # rxHead
      BY <2>1, <2>3 DEF SetTail
    <3>2. /\ Avail(rxHead, rxTail) < BufMax - 1
          /\ Contents(rxBuf, rxHead, TailNext(rxTail))
               = Append(Contents(rxBuf, rxHead, rxTail), rxBuf[rxTail])
      BY <1>1, <3>1, TailAppends
    <3>3. Len(Contents(rxBuf, rxHead, rxTail)) < BufMax - 1
      BY <1>1, <3>2, ContentsType
    <3>4. rxBuf[rxTail] \in Byte
      BY <1>3 DEF SInv, ByteAtTail, WrapTail, IncTail
    <3>5. Contents(rxBuf, rxHead, rxTail)'
            = Append(Contents(rxBuf, rxHead, rxTail), rxBuf[rxTail])
      BY <2>1, <3>2 DEF SetTail
    <3>6. UNCHANGED <<rbuf, overrun>>
      BY <1>1, <2>1, <2>3, <3>1 DEF SetTail, reader
    <3> QED
      BY <3>1, <3>3, <3>4, <3>5, <3>6 DEF Stream!Next, Stream!Put
  <2> QED
    BY <2>2, <2>3
<1>4. ASSUME UNCHANGED <<ring, rbuf>>
      PROVE  UNCHANGED Stream!vars
  BY <1>4 DEF ring, Stream!vars
<1>5. ASSUME NEW w \in Writers,
             \/ BeginWrite(w) \/ TestTail(w) \/ LoadTail(w)
             \/ PostMsg(w) \/ SemPost(w) \/ Cancel(w)
      PROVE  UNCHANGED <<ring, rbuf>>
  BY <1>5 DEF BeginWrite, TestTail, LoadTail, PostMsg, SemPost, Cancel, EndWrite, reader
<1>6. CASE SemWait \/ ReadLoop
  BY <1>4, <1>6 DEF SemWait, ReadLoop
<1>7. CASE MsgReceive
  <2>1. CASE overrun
    BY <1>7, <2>1 DEF MsgReceive, ring, Stream!Next, Stream!Overrun
  <2>2. CASE ~overrun
    BY <1>7, <2>2 DEF MsgReceive, ring, Stream!Next, Stream!NewRead
  <2> QED
    BY <2>1, <2>2
<1>8. CASE MoveByte
  <2>1. CASE overrun
    BY <1>8, <2>1 DEF MoveByte, Stream!Next, Stream!Overrun
  <2>2. CASE ~overrun
    <3>1. rxHead # rxTail
      BY <1>8, <2>2 DEF SInv, MoveHasByte, MoveByte
    <3>2. /\ Contents(rxBuf, rxHead, rxTail) # <<>>
          /\ Head(Contents(rxBuf, rxHead, rxTail)) = rxBuf[rxHead]
          /\ Tail(Contents(rxBuf, rxHead, rxTail))
               = Contents(rxBuf, HeadNext(rxHead), rxTail)
      BY <1>1, <3>1, HeadTakes
    <3>3. Contents(rxBuf, rxHead, rxTail)' = Tail(Contents(rxBuf, rxHead, rxTail))
      BY <1>8, <3>2 DEF MoveByte
    <3>4. Len(rbuf) < ReadLen
      BY <1>8 DEF SInv, IInv, LoopBounds, MoveByte
    <3> QED
      BY <1>8, <2>2, <3>2, <3>3, <3>4 DEF MoveByte, Stream!Next, Stream!Get
  <2> QED
    BY <2>1, <2>2
<1>9. CASE Restart
  <2>1. rxBuf' \in [Idx -> {Nul}] /\ rxHead' \in Idx /\ rxTail' = rxHead'
    BY <1>9, BufMaxAssumption DEF Restart, Idx
  <2>2. Contents(rxBuf, rxHead, rxTail)' = <<>>
    BY <2>1, EmptyContents
  <2> QED
    BY <1>9, <2>2 DEF Restart, Stream!Next, Stream!Restart
<1>10. CASE UNCHANGED vars
  BY <1>4, <1>10 DEF vars, reader
<1> QED
  BY <1>2, <1>3, <1>4, <1>5, <1>6, <1>7, <1>8, <1>9, <1>10
     DEF Next, CallWrite, ReaderStep

(***************************************************************************)
(* With one writer the ring, its two unlocked indices, its two wrap-around *)
(* rules and the SCPI thread's read loop implement the stream of           *)
(* CommandStream: no byte is lost, repeated, altered or out of order, as   *)
(* long as no write overruns a full ring, and again after each restart.    *)
(***************************************************************************)
THEOREM ImplementsCommandStream ==
  ASSUME Sole
  PROVE  Spec => ImplementsStream
<1>1. SInv /\ [Next]_vars => SInv'
  BY StepSInv
<1>2. SInv /\ [Next]_vars => [Stream!Next]_(Stream!vars)
  BY StreamStep
<1> QED
  BY InitSInv, StreamInit, <1>1, <1>2, PTL DEF Spec, ImplementsStream, Stream!Spec
-----------------------------------------------------------------------------
(***************************************************************************)
(* Why a dropped wake-up strands nothing: what is unread is covered by the *)
(* messages in the queue, at ReadLen bytes each, by what the read that is  *)
(* going on may still take, and by the message the writer is about to send *)
(* for the bytes it has stored.                                            *)
(***************************************************************************)
Wakeups(m) == ReadLen * m

Residue == IF rpc \in {"loop", "move"} THEN ReadLen - Len(rbuf) ELSE 0

Covered ==
  ~overrun =>
    \A w \in Writers :
      Avail(rxHead, rxTail) <= Wakeups(msgq) + Residue + wcnt[w]

DoneWriting ==
  \A w \in Writers : wpc[w] \in {"idle", "post"} => wcnt[w] = 0

CInv == SInv /\ Covered /\ DoneWriting
\* What the configuration of NoSleepOnUnread assumes: one writer that is not
\* cancelled, one run of the process, and the sizes the code has.
SteadyWriter ==
  /\ Sole /\ Writers # {} /\ Cancellable = {}
  /\ Restarts = FALSE
  /\ WakeupsCoverRing

LEMMA WakeupsGrow ==
  /\ Wakeups(0) = 0
  /\ \A m \in Nat : /\ Wakeups(m) \in Nat
                    /\ Wakeups(m + 1) = Wakeups(m) + ReadLen
BY ScpiMsgAssumption DEF ScpiMsgAssumption, Wakeups

LEMMA CoverTypes ==
  ASSUME Sole, SInv
  PROVE  /\ Avail(rxHead, rxTail) \in 0 .. BufMax - 1
         /\ Wakeups(msgq) \in Nat /\ Residue \in 0 .. ReadLen
         /\ \A w \in Writers : wcnt[w] \in 0 .. CmdLen
         /\ rxHead \in Idx /\ rxTail \in Idx
<1>1. rxHead \in Idx /\ rxTail \in Idx /\ msgq \in Nat
  BY ScpiMsgAssumption DEF ScpiMsgAssumption, SInv, IInv, Types, SoleTail
<1>2. Residue \in 0 .. ReadLen
  BY ScpiMsgAssumption DEF ScpiMsgAssumption, SInv, IInv, Types, Residue
<1>3. Wakeups(msgq) \in Nat
  BY <1>1, WakeupsGrow
<1> QED
  BY <1>1, <1>2, <1>3, AvailType DEF SInv, IInv, Types

LEMMA InitCInv == Init => CInv
<1> SUFFICES ASSUME Init PROVE Covered /\ DoneWriting
  BY InitSInv DEF CInv
<1>1. DoneWriting
  BY DEF Init, DoneWriting
<1>2. Avail(rxHead, rxTail) = 0 /\ Residue = 0 /\ Wakeups(msgq) = 0
  BY WakeupsGrow, BufMaxAssumption DEF Init, Avail, Residue
<1>3. \A w \in Writers : wcnt[w] = 0
  BY DEF Init
<1> QED
  BY <1>1, <1>2, <1>3 DEF Covered

LEMMA CoverSetTail ==
  ASSUME Sole, CInv, NEW w \in Writers, WrapTail(w) \/ IncTail(w)
  PROVE  Covered'
<1> SUFFICES ASSUME ~overrun', NEW v \in Writers
             PROVE  (Avail(rxHead, rxTail) <= Wakeups(msgq) + Residue + wcnt[v])'
  BY DEF Covered
<1>1. SInv
  BY DEF CInv
<1>2. rxHead \in Idx /\ rxTail \in Idx /\ SetTail(w, TailNext(rxTail))
  BY <1>1, SetTailIsNext DEF SInv
<1>3. ~overrun /\ TailNext(rxTail) # rxHead
  BY <1>2 DEF SetTail
<1>4. v = w
  BY DEF Sole
<1>5. Avail(rxHead, TailNext(rxTail)) = Avail(rxHead, rxTail) + 1
  BY <1>2, <1>3, BufMaxAssumption DEF Avail, TailNext, Idx
<1>6. wcnt'[w] = wcnt[w] + 1 /\ Residue' = Residue /\ Wakeups(msgq)' = Wakeups(msgq)
  BY <1>1, <1>2 DEF SInv, IInv, Types, SetTail, Residue, notify, reader
<1>7. Avail(rxHead, rxTail)' = Avail(rxHead, rxTail) + 1
  BY <1>2, <1>5 DEF SetTail
<1>8. Avail(rxHead, rxTail) <= Wakeups(msgq) + Residue + wcnt[w]
  BY <1>3 DEF CInv, Covered
<1> QED
  BY <1>1, <1>4, <1>6, <1>7, <1>8, CoverTypes, ScpiMsgAssumption, BufMaxAssumption
     DEF ScpiMsgAssumption

LEMMA CoverPostMsg ==
  ASSUME SteadyWriter, CInv, NEW w \in Writers, PostMsg(w)
  PROVE  Covered'
<1> SUFFICES ASSUME ~overrun', NEW v \in Writers
             PROVE  (Avail(rxHead, rxTail) <= Wakeups(msgq) + Residue + wcnt[v])'
  BY DEF Covered
<1>1. SInv /\ Sole /\ v = w /\ CmdLen <= ReadLen /\ msgq \in 0 .. QueueMax
  BY DEF CInv, SInv, IInv, Types, SteadyWriter, Sole, WakeupsCoverRing
<1>2. UNCHANGED <<rxHead, rxTail, rpc, rbuf, overrun>> /\ wcnt'[w] = 0
  BY <1>1 DEF SInv, IInv, Types, PostMsg, EndWrite, ring, reader
<1>3. /\ Avail(rxHead, rxTail)' = Avail(rxHead, rxTail) /\ Residue' = Residue
      /\ Avail(rxHead, rxTail) <= Wakeups(msgq) + Residue + wcnt[w]
  BY <1>2 DEF CInv, Covered, Residue
<1>4. CASE msgq' = msgq + 1
  <2>1. Wakeups(msgq)' = Wakeups(msgq) + ReadLen
    BY <1>1, <1>4, WakeupsGrow, ScpiMsgAssumption DEF ScpiMsgAssumption
  <2> QED
    BY <1>1, <1>2, <1>3, <2>1, CoverTypes, ScpiMsgAssumption, BufMaxAssumption
       DEF ScpiMsgAssumption
<1>5. CASE msgq = QueueMax /\ msgq' = msgq
  <2>1. BufMax - 1 <= Wakeups(msgq)
    BY <1>5, ScpiMsgAssumption, BufMaxAssumption
       DEF ScpiMsgAssumption, SteadyWriter, WakeupsCoverRing, Wakeups
  <2>2. Wakeups(msgq)' = Wakeups(msgq)
    BY <1>5
  <2> QED
    BY <1>1, <1>2, <1>3, <2>1, <2>2, CoverTypes, ScpiMsgAssumption, BufMaxAssumption
       DEF ScpiMsgAssumption
<1> QED
  BY <1>4, <1>5 DEF PostMsg

LEMMA CoverRead ==
  ASSUME Sole, CInv, ReaderStep
  PROVE  Covered'
<1> SUFFICES ASSUME ~overrun', NEW v \in Writers
             PROVE  (Avail(rxHead, rxTail) <= Wakeups(msgq) + Residue + wcnt[v])'
  BY DEF Covered
<1> DEFINE n == Avail(rxHead, rxTail)
<1>1. /\ SInv /\ IInv /\ Types /\ MoveHasByte /\ rxHead \in Idx /\ rxTail \in Idx
      /\ ReadLen \in Nat /\ BufMax \in Nat /\ CmdLen \in Nat
  BY CoverTypes, ScpiMsgAssumption, BufMaxAssumption
     DEF ScpiMsgAssumption, CInv, SInv, IInv
<1>2. ~overrun /\ wcnt' = wcnt /\ rxTail' = rxTail
  BY DEF ReaderStep, SemWait, MsgReceive, ReadLoop, MoveByte, ring, writer
<1>3. n <= Wakeups(msgq) + Residue + wcnt[v]
  BY <1>2 DEF CInv, Covered
<1>4. CASE SemWait
  <2>1. n' = n /\ Wakeups(msgq)' = Wakeups(msgq) /\ Residue' = Residue
    BY <1>4 DEF SemWait, ring, Residue
  <2> QED
    BY <1>2, <1>3, <2>1
<1>5. CASE MsgReceive
  <2>1. n' = n /\ Residue' = ReadLen /\ Residue = 0
    BY <1>1, <1>5 DEF MsgReceive, ring, Residue
  <2>2. msgq' \in Nat /\ msgq = msgq' + 1
    BY <1>1, <1>5, ScpiMsgAssumption DEF ScpiMsgAssumption, MsgReceive, Types
  <2>3. /\ Wakeups(msgq') \in Nat
        /\ Wakeups(msgq' + 1) = Wakeups(msgq') + ReadLen
    BY <2>2, WakeupsGrow
  <2>4. Wakeups(msgq) = Wakeups(msgq') + ReadLen
    BY <2>2, <2>3
  <2> QED
    BY <1>1, <1>2, <1>3, <2>1, <2>3, <2>4, CoverTypes
<1>6. CASE ReadLoop
  <2>1. n' = n /\ Wakeups(msgq)' = Wakeups(msgq)
    BY <1>6 DEF ReadLoop, ring, notify
  <2>2. CASE rpc' = "move"
    <3>1. Residue' = Residue
      BY <1>6, <2>2 DEF ReadLoop, Residue
    <3> QED
      BY <1>2, <1>3, <2>1, <3>1
  <2>3. CASE rxHead = rxTail
    <3>1. n = 0 /\ Residue' \in Nat /\ wcnt[v] \in Nat
      BY <1>1, <1>6, <2>3, CoverTypes, AvailType DEF ReadLoop, Residue
    <3> QED
      BY <1>1, <1>2, <2>1, <3>1, CoverTypes
  <2>4. CASE Len(rbuf) >= ReadLen
    <3>1. Residue = 0 /\ Residue' = 0
      BY <1>1, <1>6, <2>4 DEF ReadLoop, Residue, Types
    <3> QED
      BY <1>2, <1>3, <2>1, <3>1
  <2> QED
    BY <1>1, <1>6, <2>2, <2>3, <2>4 DEF ReadLoop, Types
<1>7. CASE MoveByte
  <2>1. rxHead # rxTail /\ rxHead' = HeadNext(rxHead)
    BY <1>1, <1>2, <1>7 DEF MoveHasByte, MoveByte
  <2>2. n' = n - 1
    BY <1>1, <1>2, <2>1, BufMaxAssumption DEF Avail, HeadNext, Idx
  <2>3. Len(rbuf') = Len(rbuf) + 1
    BY <1>1, <1>7 DEF MoveByte, Types
  <2>4. Residue' = Residue - 1 /\ Wakeups(msgq)' = Wakeups(msgq)
    BY <1>1, <1>7, <2>3 DEF MoveByte, Residue, notify, Types
  <2> QED
    BY <1>1, <1>2, <1>3, <2>2, <2>4, CoverTypes
<1> QED
  BY <1>4, <1>5, <1>6, <1>7 DEF ReaderStep
LEMMA StepCInv ==
  ASSUME SteadyWriter, CInv, [Next]_vars
  PROVE  CInv'
<1>1. SInv /\ SInv' /\ Sole
  BY StepSInv DEF SteadyWriter, CInv
<1> SUFFICES Covered' /\ DoneWriting'
  BY <1>1 DEF CInv
<1>2. ASSUME NEW w \in Writers, WrapTail(w) \/ IncTail(w)
      PROVE  Covered' /\ DoneWriting'
  <2>1. wpc'[w] \in {"store", "send"} /\ \A v \in Writers : v = w
    BY <1>1, <1>2 DEF SInv, IInv, Types, WrapTail, IncTail, SetTail, LoopPC, Sole
  <2> QED
    BY <1>1, <1>2, <2>1, CoverSetTail DEF DoneWriting
<1>3. ASSUME NEW w \in Writers, PostMsg(w)
      PROVE  Covered' /\ DoneWriting'
  <2>1. wcnt'[w] = 0 /\ \A v \in Writers : v = w
    BY <1>1, <1>3 DEF SInv, IInv, Types, PostMsg, EndWrite, Sole
  <2> QED
    BY <1>3, <2>1, CoverPostMsg DEF DoneWriting
<1>4. CASE ReaderStep
  <2>1. wpc' = wpc /\ wcnt' = wcnt
    BY <1>4 DEF ReaderStep, SemWait, MsgReceive, ReadLoop, MoveByte, writer
  <2> QED
    BY <1>1, <1>4, <2>1, CoverRead DEF CInv, DoneWriting
<1>5. ASSUME UNCHANGED <<rxHead, rxTail, overrun, msgq, wcnt, reader>>
      PROVE  Covered'
  BY <1>5 DEF CInv, Covered, Residue, reader
<1>6. ASSUME NEW w \in Writers, StoreByte(w) \/ TestTail(w) \/ LoadTail(w)
      PROVE  Covered' /\ DoneWriting'
  <2>1. /\ UNCHANGED <<rxHead, rxTail, overrun, msgq, wcnt, reader>>
        /\ wpc'[w] \in {"test", "wrap", "load", "inc"} /\ \A v \in Writers : v = w
    BY <1>1, <1>6 DEF SInv, IInv, Types, SoleTail, StoreByte, TestTail, LoadTail, ring,
                      notify, Sole
  <2> QED
    BY <1>5, <2>1 DEF DoneWriting
<1>7. ASSUME NEW w \in Writers, BeginWrite(w) \/ SemPost(w)
      PROVE  Covered' /\ DoneWriting'
  <2>1. wcnt[w] = 0 /\ wcnt'[w] = 0 /\ \A v \in Writers : v = w
    BY <1>1, <1>7 DEF CInv, SInv, IInv, Types, DoneWriting, BeginWrite, SemPost,
                      EndWrite, Sole
  <2>2. UNCHANGED <<rxHead, rxTail, overrun, msgq, reader>>
    BY <1>7 DEF BeginWrite, SemPost, EndWrite, ring, notify, reader
  <2>3. wcnt' = wcnt
    BY <1>1, <1>7, <2>1 DEF SInv, IInv, Types, BeginWrite, SemPost, EndWrite
  <2> QED
    BY <1>5, <2>1, <2>2, <2>3 DEF DoneWriting
<1>8. CASE UNCHANGED vars
  BY <1>5, <1>8 DEF CInv, DoneWriting, vars, ring, notify, writer, reader
<1>9. ~Restart /\ \A w \in Writers : ~Cancel(w)
  BY DEF SteadyWriter, Restart, Cancel
<1> QED
  BY <1>2, <1>3, <1>4, <1>6, <1>7, <1>8, <1>9 DEF Next, CallWrite

(***************************************************************************)
(* No lost wake-up, for every size of ring, read and queue that satisfies  *)
(* WakeupsCoverRing (the code's 1024, 100 and 2048 do): when its writer is *)
(* done the SCPI thread does not sleep on an unread command.               *)
(***************************************************************************)
THEOREM NoLostWakeup ==
  ASSUME SteadyWriter
  PROVE  Spec => []NoSleepOnUnread
<1>1. CInv /\ [Next]_vars => CInv'
  BY StepCInv
<1>2. Spec => []CInv
  BY InitCInv, <1>1, PTL DEF Spec
<1>3. CInv /\ SemaphoreMatchesQueue => NoSleepOnUnread
  <2> SUFFICES ASSUME CInv, SemaphoreMatchesQueue, ReaderBlocked, ~overrun,
                      \A w \in Writers : wpc[w] = "idle"
               PROVE  rxHead = rxTail
    BY DEF NoSleepOnUnread
  <2>1. Sole /\ SInv /\ msgq \in Nat
    BY ScpiMsgAssumption
       DEF ScpiMsgAssumption, SteadyWriter, CInv, SInv, IInv, Types
  <2>2. Cardinality(Posting) = 0
    BY NonePosting
  <2>3. rpc = "receive" /\ msgq = 0
    BY <2>1, <2>2 DEF SemaphoreMatchesQueue, Announced, ReaderBlocked
  <2>4. PICK w \in Writers : wcnt[w] = 0
    BY DEF SteadyWriter, CInv, DoneWriting
  <2>5. Residue = 0 /\ Wakeups(msgq) = 0
    BY <2>3, WakeupsGrow DEF Residue
  <2>6. Avail(rxHead, rxTail) <= 0
    BY <2>4, <2>5 DEF CInv, Covered
  <2> QED
    BY <2>1, <2>6, CoverTypes, AvailType, BufMaxAssumption
<1>4. Spec => []SemaphoreMatchesQueue
  BY SemaphoreCountsQueue DEF SteadyWriter
<1> QED
  BY <1>2, <1>3, <1>4, PTL
=============================================================================
