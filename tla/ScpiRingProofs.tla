--------------------------- MODULE ScpiRingProofs ---------------------------
(***************************************************************************)
(* What the index arithmetic of ScpiRing does to the contents of a ring.   *)
(***************************************************************************)
EXTENDS ScpiRing, SequenceTheorems, TLAPS

LEMMA AvailType ==
  ASSUME NEW head \in Idx, NEW tail \in Idx
  PROVE  /\ Avail(head, tail) \in 0 .. BufMax - 1
         /\ Avail(head, tail) = 0 <=> head = tail
BY BufMaxAssumption DEF Avail, Idx

\* The bytes between head and tail lie in the ring, none of them at the tail.
LEMMA SlotType ==
  ASSUME NEW head \in Idx, NEW tail \in Idx, NEW k \in 0 .. Avail(head, tail) - 1
  PROVE  Slot(head, k) \in Idx /\ Slot(head, k) # tail
BY BufMaxAssumption DEF Slot, Avail, Idx

LEMMA ContentsType ==
  ASSUME NEW S, NEW buf \in [Idx -> S], NEW head \in Idx, NEW tail \in Idx
  PROVE  /\ Contents(buf, head, tail) \in Seq(S)
         /\ Len(Contents(buf, head, tail)) = Avail(head, tail)
         /\ \A k \in 1 .. Avail(head, tail) :
              Contents(buf, head, tail)[k] = buf[Slot(head, k - 1)]
<1> DEFINE n == Avail(head, tail)
<1>1. n \in Nat
  BY AvailType, BufMaxAssumption
<1>2. \A k \in 1 .. n : Slot(head, k - 1) \in Idx
  <2> TAKE k \in 1 .. n
  <2>1. k - 1 \in 0 .. n - 1
    BY <1>1
  <2> QED
    BY <2>1, SlotType
<1>3. Contents(buf, head, tail) = [k \in 1 .. n |-> buf[Slot(head, k - 1)]]
  BY DEF Contents
<1> HIDE DEF n
<1>4. [k \in 1 .. n |-> buf[Slot(head, k - 1)]] \in [1 .. n -> S]
  BY <1>2
<1> QED
  BY <1>1, <1>3, <1>4 DEF n

LEMMA EmptyContents ==
  ASSUME NEW S, NEW buf \in [Idx -> S], NEW head \in Idx
  PROVE  Contents(buf, head, head) = <<>>
<1>1. Contents(buf, head, head) \in Seq(S) /\ Len(Contents(buf, head, head)) = 0
  BY ContentsType, AvailType
<1> QED
  BY <1>1, EmptySeq

\* What is stored at the tail is not among the contents yet.
LEMMA StoreKeepsContents ==
  ASSUME NEW S, NEW buf \in [Idx -> S], NEW head \in Idx, NEW tail \in Idx,
         NEW new, \A i \in Idx : i # tail => new[i] = buf[i]
  PROVE  Contents(new, head, tail) = Contents(buf, head, tail)
<1>1. \A k \in 1 .. Avail(head, tail) : new[Slot(head, k - 1)] = buf[Slot(head, k - 1)]
  <2> TAKE k \in 1 .. Avail(head, tail)
  <2>1. k - 1 \in 0 .. Avail(head, tail) - 1
    BY AvailType, BufMaxAssumption
  <2>2. Slot(head, k - 1) \in Idx /\ Slot(head, k - 1) # tail
    BY <2>1, SlotType
  <2> QED
    BY <2>2
<1> QED
  BY <1>1 DEF Contents

\* A tail that moves on, and not onto the head, takes in the byte it passes.
LEMMA TailAppends ==
  ASSUME NEW S, NEW buf \in [Idx -> S], NEW head \in Idx, NEW tail \in Idx,
         TailNext(tail) # head
  PROVE  /\ Avail(head, tail) < BufMax - 1
         /\ Contents(buf, head, TailNext(tail))
              = Append(Contents(buf, head, tail), buf[tail])
<1> DEFINE n == Avail(head, tail)
           old == Contents(buf, head, tail)
           new == Contents(buf, head, TailNext(tail))
<1>1. TailNext(tail) \in Idx
  BY BufMaxAssumption DEF TailNext, Idx
<1>2. n \in Nat /\ n < BufMax - 1 /\ Avail(head, TailNext(tail)) = n + 1
      /\ Slot(head, n) = tail
  BY BufMaxAssumption DEF Avail, TailNext, Slot, Idx
<1>3. /\ old \in Seq(S) /\ Len(old) = n
      /\ \A k \in 1 .. n : old[k] = buf[Slot(head, k - 1)]
  BY ContentsType
<1>4. /\ new \in Seq(S) /\ Len(new) = n + 1
      /\ \A k \in 1 .. n + 1 : new[k] = buf[Slot(head, k - 1)]
  <2> DEFINE m == Avail(head, TailNext(tail))
  <2>1. /\ new \in Seq(S) /\ Len(new) = m
        /\ \A k \in 1 .. m : new[k] = buf[Slot(head, k - 1)]
    BY <1>1, ContentsType
  <2>2. m = n + 1
    BY <1>2
  <2> HIDE DEF m, n, new
  <2> QED
    BY <2>1, <2>2
<1>5. buf[tail] \in S
  OBVIOUS
<1> HIDE DEF n, old, new
<1>6. new[n + 1] = buf[tail]
  BY <1>2, <1>4
<1>7. new = Append(old, buf[tail])
  <2>1. /\ Append(old, buf[tail]) \in Seq(S) /\ Len(Append(old, buf[tail])) = n + 1
        /\ \A k \in 1 .. n : Append(old, buf[tail])[k] = old[k]
        /\ Append(old, buf[tail])[n + 1] = buf[tail]
    BY <1>2, <1>3, <1>5, AppendProperties
  <2>2. \A k \in 1 .. n + 1 : new[k] = Append(old, buf[tail])[k]
    BY <1>2, <1>3, <1>4, <1>6, <2>1
  <2> QED
    BY <1>4, <2>1, <2>2, SeqEqual
<1> QED
  BY <1>2, <1>7 DEF n, old, new

\* A head that moves on gives up the oldest byte.
LEMMA HeadTakes ==
  ASSUME NEW S, NEW buf \in [Idx -> S], NEW head \in Idx, NEW tail \in Idx,
         head # tail
  PROVE  /\ HeadNext(head) \in Idx
         /\ Contents(buf, head, tail) # <<>>
         /\ Head(Contents(buf, head, tail)) = buf[head]
         /\ Tail(Contents(buf, head, tail)) = Contents(buf, HeadNext(head), tail)
<1> DEFINE n == Avail(head, tail)
           old == Contents(buf, head, tail)
           new == Contents(buf, HeadNext(head), tail)
<1>1. HeadNext(head) \in Idx
  BY BufMaxAssumption DEF HeadNext, Idx
<1>2. n \in Nat \ {0} /\ Avail(HeadNext(head), tail) = n - 1 /\ Slot(head, 0) = head
  BY BufMaxAssumption DEF Avail, HeadNext, Slot, Idx
<1>3. \A k \in 1 .. n - 1 : Slot(HeadNext(head), k - 1) = Slot(head, k)
  BY BufMaxAssumption DEF Avail, HeadNext, Slot, Idx
<1>4. /\ old \in Seq(S) /\ Len(old) = n
      /\ \A k \in 1 .. n : old[k] = buf[Slot(head, k - 1)]
  BY ContentsType
<1>5. /\ new \in Seq(S) /\ Len(new) = n - 1
      /\ \A k \in 1 .. n - 1 : new[k] = buf[Slot(HeadNext(head), k - 1)]
  <2> DEFINE m == Avail(HeadNext(head), tail)
  <2>1. /\ new \in Seq(S) /\ Len(new) = m
        /\ \A k \in 1 .. m : new[k] = buf[Slot(HeadNext(head), k - 1)]
    BY <1>1, ContentsType
  <2>2. m = n - 1
    BY <1>2
  <2> HIDE DEF m, n, new
  <2> QED
    BY <2>1, <2>2
<1> HIDE DEF n, old, new
<1>6. old # <<>> /\ Head(old) = buf[head]
  BY <1>2, <1>4
<1>7. Tail(old) = new
  <2>1. Tail(old) \in Seq(S) /\ Len(Tail(old)) = n - 1
        /\ \A k \in 1 .. n - 1 : Tail(old)[k] = old[k + 1]
    BY <1>2, <1>4, <1>6, HeadTailProperties
  <2>2. \A k \in 1 .. n - 1 : Tail(old)[k] = new[k]
    <3> TAKE k \in 1 .. n - 1
    <3>1. old[k + 1] = buf[Slot(head, k)]
      BY <1>2, <1>4
    <3> QED
      BY <1>3, <1>5, <2>1, <3>1
  <2> QED
    BY <1>5, <2>1, <2>2, SeqEqual
<1> QED
  BY <1>1, <1>6, <1>7 DEF old, new
=============================================================================
