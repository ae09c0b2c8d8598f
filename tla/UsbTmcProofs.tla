----------------------------- MODULE UsbTmcProofs -----------------------------
(***************************************************************************)
(* The loop of simple_sink_thread keeps in step with the host, passes on   *)
(* what it sent, and answers with what the response ring held.             *)
(***************************************************************************)
EXTENDS UsbTmc, ScpiRingProofs

Cell == Byte \union {Nul} \union Headers

\* A whole transfer, as the host sends it.
IsTransfer(c) ==
  /\ c[1] \in Headers
  /\ Len(c) = Header + Aligned(Len(c[1].data))
  /\ \A k \in 1 .. Len(c[1].data) : c[Header + k] = c[1].data[k]
  /\ Len(c[1].data) < Aligned(Len(c[1].data)) => c[Header + Len(c[1].data) + 1] = Nul

Whole == xfer # <<>> /\ IsHeader(xfer[1]) => IsTransfer(xfer)

Types ==
  /\ on \in BOOLEAN /\ unclear \in BOOLEAN /\ overrun \in BOOLEAN
  /\ pc \in {"read", "packet", "more", "finish", "echo", "take", "send", "sent", "done"}
  /\ DOMAIN buf = Slots
  /\ buf[0] \in Cell /\ \A i \in Slots \ {0} : buf[i] \in Byte \union {Nul}
  /\ xfer \in Seq(Cell)
  /\ \A k \in 2 .. Len(xfer) : xfer[k] \in Byte \union {Nul}
  /\ ~on => xfer = <<>>
  /\ rcved \in 0 .. 2 * BufSize
  /\ told \in Seq(Byte)
  /\ txBuf \in [Idx -> Byte \union {Nul}] /\ txHead \in Idx /\ txTail \in Idx

Calls ==
  /\ call \in [size : 0 .. 2 * BufSize, loop : 0 .. Tries, cmd : Seq(Byte), cnt : Nat]
  /\ pc \notin {"more", "finish", "echo"} => call = NoCall
  /\ pc # "echo" => call.cmd = <<>> /\ call.cnt = 0
  /\ Len(call.cmd) <= DataMax /\ call.cnt <= Len(call.cmd)

\* What is announced, what is sent, what is taken and what the ring still holds.  Only
\* the last part of a response is shorter than the packet or the buffer it is put in.
Parts ==
  /\ resp \in [len : Nat, sent : Nat, total : 0 .. BufMax - 1]
  /\ chunk \in Seq(Byte \union {Nul})
  /\ pc \notin {"take", "send", "sent"} => resp = NoResp /\ chunk = <<>>
  /\ pc # "sent" => wire = <<>>
  /\ pc \in {"take", "send", "sent"} =>
       /\ resp.len \in 1 .. BufSize /\ (resp.sent = 0 => resp.len <= DataMax)
       /\ resp.sent + resp.len <= resp.total
       /\ resp.sent + resp.len < resp.total =>
            resp.len = (IF resp.sent = 0 THEN DataMax ELSE BufSize)
       /\ Len(chunk) <= resp.len
       /\ Avail(txHead, txTail) = resp.total - resp.sent - Len(chunk)
  /\ pc \in {"send", "sent"} => Len(chunk) = resp.len

\* The first part is put together in the packet buffer.
Copied ==
  pc \in {"take", "send", "sent"} /\ resp.sent = 0 =>
    \A k \in 1 .. Len(chunk) : buf[Header + k - 1] = chunk[k]

\* What is written comes out of the buffer it is in.
Sized == Len(wire) <= BufSize /\ (resp.sent = 0 => Len(wire) <= DataMax)

Size == Header + Aligned(Len(told))

\* How much of the message is in the buffer and how much on its way.
Step ==
  /\ pc = "packet" /\ IsHeader(buf[0]) =>
       /\ buf[0] \in Headers /\ told = buf[0].data
       /\ rcved <= Size
       /\ rcved < Size /\ on => Len(xfer) = Size - rcved /\ ~IsHeader(xfer[1])
       /\ rcved < Size => BufSize < Size
       /\ rcved = Size /\ xfer # <<>> => IsHeader(xfer[1])
  /\ pc = "more" =>
       /\ call.size = Size /\ rcved < Size /\ BufSize < Size
       /\ on => Len(xfer) = Size - rcved /\ ~IsHeader(xfer[1])
  /\ InStep

\* A command of one packet, with its padding, is in the buffer.
Received ==
  /\ (pc = "packet" /\ IsHeader(buf[0])) \/ pc = "finish"
  /\ Aligned(Len(told)) \in Len(told) + 1 .. DataMax
  => /\ \A k \in 1 .. Len(told) : buf[Header + k - 1] = told[k]
     /\ buf[Header + Len(told)] = Nul

Sending == Copied /\ Sized /\ PartsMakeTheResponse

IInv == Types /\ Calls /\ Parts /\ Sending /\ Whole /\ Step /\ Received /\ CommandAsSent

-----------------------------------------------------------------------------
(***************************************************************************)
(* Sizes.  The provers have no theory of \div by a constant that is not a *)
(* number: a quotient is described by the two bounds that determine it.    *)
(***************************************************************************)
LEMMA QuotientBounds ==
  ASSUME NEW a \in Nat, NEW b \in Nat \ {0}
  PROVE  (a \div b) \in Nat /\ (a \div b) * b <= a /\ a < (a \div b) * b + b
OBVIOUS

LEMMA QuotientUnique ==
  ASSUME NEW q \in Nat, NEW b \in Nat \ {0}, NEW a \in Nat, q * b <= a, a < q * b + b
  PROVE  a \div b = q
OBVIOUS

LEMMA Distributes ==
  ASSUME NEW q \in Nat, NEW h \in Nat, NEW b \in Nat
  PROVE  (q + h) * b = q * b + h * b
OBVIOUS

LEMMA AlignedType ==
  ASSUME NEW n \in Nat
  PROVE  Aligned(n) \in Nat /\ Aligned(n) >= n
BY TmcAssumption DEF TmcAssumption, Aligned

\* Rounding adds less than Align, nothing to a multiple, and passes no multiple.
LEMMA NoFurther ==
  ASSUME NEW p \in Nat, NEW q \in Nat, NEW b \in Nat \ {0}, p * b < q * b + b
  PROVE  p * b <= q * b
OBVIOUS

LEMMA AlignedBounds ==
  ASSUME NEW n \in Nat
  PROVE  /\ Aligned(n) \in n .. n + Align - 1
         /\ \A m \in Nat : m % Align = 0 /\ n <= m => Aligned(n) <= m
<1>1. Align \in Nat \ {0}
  BY TmcAssumption DEF TmcAssumption
<1> DEFINE a == n + Align - 1
           q == a \div Align
<1>2. a \in Nat /\ q \in Nat /\ q * Align <= a /\ a < q * Align + Align
  BY <1>1, QuotientBounds
<1>3. Aligned(n) = q * Align /\ a = n + Align - 1
  BY DEF Aligned
<1> HIDE DEF a, q
<1>4. Aligned(n) \in n .. n + Align - 1
  <2>1. q * Align \in Nat
    BY <1>1, <1>2
  <2> DEFINE c == q * Align
  <2>2. c \in Nat /\ c <= a /\ a < c + Align
    BY <1>2, <2>1
  <2> HIDE DEF c
  <2>3. c \in n .. n + Align - 1
    BY <1>1, <1>3, <2>2
  <2> QED
    BY <1>3, <2>3 DEF c
<1>5. ASSUME NEW m \in Nat, m % Align = 0, n <= m
      PROVE  Aligned(n) <= m
  <2>1. m = (m \div Align) * Align /\ (m \div Align) \in Nat
    BY <1>1, <1>5, QuotientBounds
  <2>2. PICK r \in Nat : m = r * Align
    BY <2>1
  <2>3. q * Align < r * Align + Align
    BY <1>1, <1>2, <1>3, <1>5, <2>2
  <2>4. q * Align <= r * Align
    BY <1>1, <1>2, <2>3, NoFurther
  <2> QED
    BY <1>3, <2>2, <2>4
<1> QED
  BY <1>4, <1>5

\* As the header's length is a multiple of Align, it may be added after rounding.
LEMMA TotalSizeIs ==
  ASSUME NEW n \in Nat
  PROVE  TotalSize(n) = Header + Aligned(n)
<1>1. Align \in Nat \ {0} /\ Header \in Nat /\ Header % Align = 0
  BY TmcAssumption DEF TmcAssumption
<1>2. PICK h \in Nat : Header = h * Align
  <2>1. Header = (Header \div Align) * Align
    BY <1>1
  <2> QED
    BY <1>1, <2>1, QuotientBounds
<1> DEFINE a == n + Align - 1
           q == a \div Align
<1>3. a \in Nat /\ q \in Nat /\ q * Align <= a /\ a < q * Align + Align
  BY <1>1, QuotientBounds
<1>4. (q + h) * Align = q * Align + Header
  <2> HIDE DEF q
  <2> QED
    BY <1>1, <1>2, <1>3, Distributes
<1>5. a + Header = (n + Header) + Align - 1
  BY <1>1
<1> HIDE DEF a, q
<1>6. (a + Header) \div Align = q + h
  BY <1>1, <1>2, <1>3, <1>4, QuotientUnique
<1>7. Aligned(n + Header) = q * Align + Header /\ Aligned(n) = q * Align
  BY <1>4, <1>5, <1>6 DEF Aligned, a, q
<1>8. q * Align \in Nat
  BY <1>1, <1>3
<1> QED
  BY <1>1, <1>7, <1>8 DEF TotalSize

\* A full first part and a full later part need no padding.
LEMMA FullParts ==
  /\ Aligned(DataMax) = DataMax /\ Aligned(BufSize) = BufSize
  /\ \A n \in 0 .. DataMax : Aligned(n) <= DataMax
  /\ \A n \in 0 .. BufSize : Aligned(n) <= BufSize
<1>1. /\ Header \in Nat /\ BufSize \in Nat /\ DataMax \in Nat /\ BufSize % Align = 0
      /\ DataMax + Header = BufSize
  BY TmcAssumption DEF TmcAssumption, DataMax
<1>2. Aligned(BufSize) = BufSize /\ \A n \in 0 .. BufSize : Aligned(n) <= BufSize
  BY <1>1, AlignedBounds
<1>3. \A n \in 0 .. DataMax : Aligned(n) <= DataMax
  <2> TAKE n \in 0 .. DataMax
  <2>1. Aligned(n + Header) <= BufSize
    BY <1>1, <1>2
  <2>2. Aligned(n + Header) = Header + Aligned(n) /\ Aligned(n) \in Nat
    BY <1>1, TotalSizeIs, AlignedType DEF TotalSize
  <2> QED
    BY <1>1, <2>1, <2>2
<1>4. Aligned(DataMax) <= DataMax /\ Aligned(DataMax) >= DataMax /\ Aligned(DataMax) \in Nat
  BY <1>1, <1>3, AlignedType
<1> QED
  BY <1>1, <1>2, <1>3, <1>4

LEMMA Sizes ==
  /\ Header \in Nat \ {0} /\ BufSize \in Nat /\ Header < BufSize /\ Tries \in Nat
  /\ DataMax \in Nat \ {0} /\ DataMax <= BufSize /\ Header + DataMax = BufSize
  /\ 0 \in Slots
BY TmcAssumption DEF TmcAssumption, DataMax, Slots

-----------------------------------------------------------------------------
(***************************************************************************)
(* Transfers.                                                              *)
(***************************************************************************)
LEMMA HeaderFacts ==
  ASSUME NEW h \in Headers
  PROVE  /\ IsHeader(h)
         /\ h.data \in Seq(Byte) /\ Len(h.data) \in Nat
         /\ h.id = "out" => h.data \in Message
<1>1. \A d \in Message : d \in Seq(Byte)
  BY TmcAssumption DEF TmcAssumption
<1>2. h.data \in Seq(Byte) /\ (h.id = "out" => h.data \in Message)
  <2>1. CASE h \in [id : {"out"}, data : Message]
    BY <1>1, <2>1
  <2>2. CASE h \in [id : {"in"}, data : {<<>>}, term : BOOLEAN]
    <3>1. h.data = <<>> /\ h.id = "in"
      BY <2>2
    <3> QED
      BY <3>1
  <2>3. CASE h \in [id : {"vendor"}, data : {<<>>}]
    <3>1. h.data = <<>> /\ h.id = "vendor"
      BY <2>3
    <3> QED
      BY <3>1
  <2> QED
    BY <2>1, <2>2, <2>3 DEF Headers
<1> QED
  BY <1>2, HeadersAssumption DEF HeadersAssumption

LEMMA CellFacts ==
  ASSUME NEW c \in Cell
  PROVE  IsHeader(c) <=> c \in Headers
BY HeadersAssumption DEF HeadersAssumption, Cell, IsHeader

LEMMA ZerosType ==
  ASSUME NEW n \in Nat
  PROVE  /\ Zeros(n) \in Seq(Cell) /\ Len(Zeros(n)) = n
         /\ \A k \in 1 .. n : Zeros(n)[k] = Nul
BY DEF Zeros, Cell

LEMMA PaddedIs ==
  ASSUME NEW h \in Headers
  PROVE  /\ Padded(h, h.data) \in Seq(Cell) /\ Padded(h, h.data) # <<>>
         /\ \A k \in 2 .. Len(Padded(h, h.data)) : Padded(h, h.data)[k] \in Byte \union {Nul}
         /\ IsTransfer(Padded(h, h.data))
<1> DEFINE d == h.data
           s == <<h>>
           m == Header - 1
           r == Aligned(Len(d)) - Len(d)
           p == Padded(h, d)
           z == Zeros(m)
           y == Zeros(r)
<1>1. d \in Seq(Byte) /\ d \in Seq(Cell) /\ Len(d) \in Nat
  BY HeaderFacts DEF Cell
<1>2. m \in Nat /\ r \in Nat /\ Aligned(Len(d)) \in Nat /\ Header = m + 1
  BY <1>1, Sizes, AlignedType
<1>3. s \in Seq(Cell) /\ Len(s) = 1 /\ s[1] = h
  BY DEF Cell
<1>4. p = ((s \o z) \o d) \o y
  BY DEF Padded
<1>z. /\ z \in Seq(Cell) /\ Len(z) = m /\ \A k \in 1 .. m : z[k] = Nul
      /\ y \in Seq(Cell) /\ Len(y) = r /\ \A k \in 1 .. r : y[k] = Nul
  <2> HIDE DEF m, r
  <2> QED
    BY <1>2, ZerosType
<1> HIDE DEF d, s, m, r, p, z, y
<1> DEFINE a == s \o z
           b == a \o d
<1>5. /\ a \in Seq(Cell) /\ Len(a) = m + 1 /\ a[1] = h
      /\ \A k \in 2 .. m + 1 : a[k] = Nul
  <2>1. /\ a \in Seq(Cell) /\ Len(a) = Len(s) + Len(z)
        /\ \A k \in 1 .. Len(s) + Len(z) : a[k] = IF k <= Len(s) THEN s[k] ELSE z[k - Len(s)]
    BY <1>3, <1>z, ConcatProperties
  <2> HIDE DEF a
  <2> QED
    BY <1>2, <1>3, <1>z, <2>1
<1> HIDE DEF a
<1>6. /\ b \in Seq(Cell) /\ Len(b) = m + 1 + Len(d)
      /\ \A k \in 1 .. m + 1 : b[k] = a[k]
      /\ \A k \in 1 .. Len(d) : b[m + 1 + k] = d[k]
  <2>1. /\ b \in Seq(Cell) /\ Len(b) = Len(a) + Len(d)
        /\ \A k \in 1 .. Len(a) + Len(d) : b[k] = IF k <= Len(a) THEN a[k] ELSE d[k - Len(a)]
    BY <1>1, <1>5, ConcatProperties
  <2> HIDE DEF b
  <2>2. Len(b) = m + 1 + Len(d) /\ Len(a) = m + 1 /\ m \in Nat /\ Len(d) \in Nat
    BY <1>1, <1>2, <1>5, <2>1
  <2>3. \A k \in 1 .. m + 1 : b[k] = a[k]
    BY <2>1, <2>2
  <2>4. \A k \in 1 .. Len(d) : b[m + 1 + k] = d[k]
    <3> TAKE k \in 1 .. Len(d)
    <3> DEFINE i == m + 1 + k
    <3>1. i \in 1 .. Len(a) + Len(d) /\ ~(i <= Len(a)) /\ i - Len(a) = k
      BY <2>2
    <3> HIDE DEF i
    <3>2. b[i] = d[k]
      BY <2>1, <3>1
    <3> QED
      BY <3>2 DEF i
  <2> QED
    BY <2>1, <2>2, <2>3, <2>4
<1> HIDE DEF b
<1>7. /\ p \in Seq(Cell) /\ Len(p) = m + 1 + Len(d) + r
      /\ \A k \in 1 .. m + 1 + Len(d) : p[k] = b[k]
      /\ \A k \in 1 .. r : p[m + 1 + Len(d) + k] = y[k]
  <2> DEFINE c == b \o y
  <2>1. /\ c \in Seq(Cell) /\ Len(c) = Len(b) + Len(y)
        /\ \A k \in 1 .. Len(b) + Len(y) : c[k] = IF k <= Len(b) THEN b[k] ELSE y[k - Len(b)]
    <3>1. b \in Seq(Cell) /\ y \in Seq(Cell)
      BY <1>6, <1>z
    <3> QED
      BY <3>1, ConcatProperties
  <2>2. p = c
    BY <1>4 DEF a, b
  <2> HIDE DEF c
  <2>3. c \in Seq(Cell) /\ Len(c) = m + 1 + Len(d) + r
    BY <1>6, <1>z, <2>1
  <2>4. \A k \in 1 .. m + 1 + Len(d) : c[k] = b[k]
    <3> TAKE k \in 1 .. m + 1 + Len(d)
    <3>1. k \in 1 .. Len(b) + Len(y) /\ k <= Len(b)
      BY <1>1, <1>2, <1>6, <1>z
    <3> QED
      BY <2>1, <3>1
  <2>5. \A k \in 1 .. r : c[m + 1 + Len(d) + k] = y[k]
    <3> TAKE k \in 1 .. r
    <3> DEFINE i == Len(b) + k
    <3>1. i \in 1 .. Len(b) + Len(y) /\ ~(i <= Len(b)) /\ i - Len(b) = k
      BY <1>1, <1>2, <1>6, <1>z
    <3>2. i = m + 1 + Len(d) + k
      BY <1>6
    <3> HIDE DEF i
    <3> QED
      BY <2>1, <3>1, <3>2
  <2> QED
    BY <2>2, <2>3, <2>4, <2>5
<1>8. p[1] = h /\ \A k \in 2 .. m + 1 : p[k] = Nul
  BY <1>1, <1>2, <1>5, <1>6, <1>7
<1>9. \A k \in 1 .. Len(d) : p[Header + k] = d[k]
  BY <1>1, <1>2, <1>6, <1>7
<1>10. \A k \in 1 .. r : p[Header + Len(d) + k] = Nul
  BY <1>1, <1>2, <1>7, <1>z
<1>11. Len(p) = Header + Aligned(Len(d))
  BY <1>1, <1>2, <1>7 DEF r
<1>12. \A k \in 2 .. Len(p) : p[k] \in Byte \union {Nul}
  <2> TAKE k \in 2 .. Len(p)
  <2>1. CASE k <= m + 1
    BY <1>8, <2>1
  <2>2. CASE k > m + 1 /\ k <= m + 1 + Len(d)
    <3>1. k - Header \in 1 .. Len(d) /\ k = Header + (k - Header)
      BY <1>1, <1>2, <1>7, <2>2
    <3> QED
      BY <1>1, <1>9, <3>1
  <2>3. CASE k > m + 1 + Len(d)
    <3>1. k - Header - Len(d) \in 1 .. r /\ k = Header + Len(d) + (k - Header - Len(d))
      BY <1>1, <1>2, <1>7, <2>3
    <3> QED
      BY <1>10, <3>1
  <2> QED
    BY <1>1, <1>2, <1>7, <2>1, <2>2, <2>3
<1>13. Len(d) < Aligned(Len(d)) => p[Header + Len(d) + 1] = Nul
  BY <1>1, <1>2, <1>10 DEF r
<1>14. p # <<>>
  BY <1>1, <1>2, <1>11, Sizes
<1> QED
  BY <1>7, <1>8, <1>9, <1>11, <1>12, <1>13, <1>14 DEF IsTransfer, d, p

\* What one read leaves in the buffer and of the transfer.
LEMMA ReceivesKeeps ==
  ASSUME Types, NEW n \in 1 .. Len(xfer), Receives(n)
  PROVE  /\ DOMAIN buf' = Slots /\ buf'[0] = xfer[1] /\ buf'[0] \in Cell
         /\ \A i \in Slots \ {0} : buf'[i] \in Byte \union {Nul}
         /\ \A i \in Slots : i < n => buf'[i] = xfer[i + 1]
         /\ xfer' \in Seq(Cell) /\ Len(xfer') = Len(xfer) - n
         /\ \A k \in 1 .. Len(xfer') : xfer'[k] \in Byte \union {Nul}
         /\ xfer' = <<>> <=> n = Len(xfer)
<1>1. xfer \in Seq(Cell) /\ Len(xfer) \in Nat /\ n \in Nat \ {0}
  BY DEF Types
<1>2. \A k \in 2 .. Len(xfer) : xfer[k] \in Byte \union {Nul}
  BY DEF Types
<1>3. DOMAIN buf' = Slots /\ \A i \in Slots : buf'[i] = IF i < n THEN xfer[i + 1] ELSE buf[i]
  BY DEF Receives
<1>4. buf'[0] = xfer[1] /\ xfer[1] \in Cell
  BY <1>1, <1>3, Sizes
<1>5. \A i \in Slots \ {0} : buf'[i] \in Byte \union {Nul}
  <2> TAKE i \in Slots \ {0}
  <2>1. i \in Nat \ {0}
    BY Sizes DEF Slots
  <2>2. CASE i < n
    BY <1>1, <1>2, <1>3, <2>1, <2>2
  <2>3. CASE ~(i < n)
    BY <1>3, <2>3 DEF Types
  <2> QED
    BY <2>2, <2>3
<1>6. xfer' = SubSeq(xfer, n + 1, Len(xfer))
  BY DEF Receives
<1>7. /\ xfer' \in Seq(Cell) /\ Len(xfer') = Len(xfer) - n
      /\ \A k \in 1 .. Len(xfer') : xfer'[k] = xfer[n + k]
  BY <1>1, <1>6, SubSeqProperties
<1>8. \A k \in 1 .. Len(xfer') : xfer'[k] \in Byte \union {Nul}
  BY <1>1, <1>2, <1>7
<1>9. xfer' = <<>> <=> n = Len(xfer)
  BY <1>1, <1>7
<1> QED
  BY <1>3, <1>4, <1>5, <1>7, <1>8, <1>9

-----------------------------------------------------------------------------
(***************************************************************************)
(* The invariant holds at first, and every step keeps it.                  *)
(***************************************************************************)
LEMMA GarbageType ==
  ASSUME NEW b \in Garbage
  PROVE  /\ DOMAIN b = Slots /\ \A i \in Slots : b[i] \in Byte \union {Nul}
         /\ b[0] \in Cell
BY Sizes DEF Garbage, Cell

LEMMA SizeType ==
  ASSUME Types
  PROVE  Len(told) \in Nat /\ Aligned(Len(told)) \in Nat /\ Size \in Nat
<1>1. told \in Seq(Byte)
  BY DEF Types
<1>2. Len(told) \in Nat
  BY <1>1
<1> QED
  BY <1>2, Sizes, AlignedType DEF Size

LEMMA IdlePass ==
  /\ NoCall \in [size : 0 .. 2 * BufSize, loop : 0 .. Tries, cmd : Seq(Byte), cnt : Nat]
  /\ NoCall.cmd = <<>> /\ NoCall.cnt = 0 /\ Len(NoCall.cmd) = 0
  /\ NoResp \in [len : Nat, sent : Nat, total : 0 .. BufMax - 1]
<1>1. NoCall.cmd = <<>> /\ NoCall.cnt = 0 /\ Len(NoCall.cmd) = 0
  BY DEF NoCall
<1>2. NoCall \in [size : 0 .. 2 * BufSize, loop : 0 .. Tries, cmd : Seq(Byte), cnt : Nat]
  BY Sizes DEF NoCall
<1>3. NoResp \in [len : Nat, sent : Nat, total : 0 .. BufMax - 1]
  BY BufMaxAssumption DEF NoResp, BufMaxAssumption
<1> QED
  BY <1>1, <1>2, <1>3

\* Outside a response nothing is said of parts.
LEMMA NotSending ==
  ASSUME pc \notin {"take", "send", "sent"}, resp = NoResp, wire = <<>>
  PROVE  Sending
<1>1. Len(wire) = 0 /\ 0 <= BufSize /\ 0 <= DataMax
  BY Sizes
<1> QED
  BY <1>1 DEF Sending, Copied, Sized, PartsMakeTheResponse

\* The loop's other steps and the host's leave a response alone.
LEMMA SameSending ==
  ASSUME Sending, UNCHANGED <<pc, buf, chunk, resp, wire, txHead, txTail>>
  PROVE  Sending'
BY DEF Sending, Copied, Sized, PartsMakeTheResponse

LEMMA InitIInv == Init => IInv
<1> SUFFICES ASSUME Init PROVE IInv
  OBVIOUS
<1>1. xfer = <<>> /\ pc = "read" /\ rcved = 0 /\ told = <<>>
  BY DEF Init
<1>2. /\ txBuf \in [Idx -> Byte \union {Nul}] /\ txHead \in Idx /\ txTail \in Idx
  BY BufMaxAssumption DEF BufMaxAssumption, Init, Idx
<1>3. Types
  BY <1>1, <1>2, GarbageType, Sizes DEF Init, Types
<1>4. Calls /\ Parts
  <2>1. call = NoCall /\ resp = NoResp /\ chunk = <<>>
    BY DEF Init
  <2>2. Calls
    BY <1>1, <2>1, IdlePass, Sizes DEF Calls
  <2>3. Parts
    BY <1>1, <2>1, IdlePass DEF Init, Parts
  <2> QED
    BY <2>2, <2>3
<1>6. Sending
  BY <1>1, NotSending DEF Init
<1>5. Whole /\ Step /\ Received /\ CommandAsSent
  BY <1>1 DEF Whole, Step, InStep, Received, CommandAsSent
<1> QED
  BY <1>3, <1>4, <1>5, <1>6 DEF IInv

\* NotSending, of the next state.
LEMMA NotSendingNext ==
  ASSUME pc' \notin {"take", "send", "sent"}, resp' = NoResp, wire' = <<>>
  PROVE  Sending'
<1>1. Len(wire') = 0 /\ 0 <= BufSize /\ 0 <= DataMax
  BY Sizes
<1> QED
  BY <1>1 DEF Sending, Copied, Sized, PartsMakeTheResponse

\* The steps of a command.
LEMMA CommandSending ==
  ASSUME IInv, pc \notin {"take", "send", "sent"}, pc' \notin {"take", "send", "sent"},
         UNCHANGED <<resp, wire>>
  PROVE  Sending'
BY NotSendingNext DEF IInv, Parts

LEMMA EndPassKeeps ==
  ASSUME IInv, NEW next \in {"read", "done"}, EndPass(next),
         UNCHANGED <<hostVars, buf, ring>>
  PROVE  IInv'
<1>1. /\ pc' \in {"read", "done"} /\ rcved' = 0 /\ told' = <<>> /\ call' = NoCall
      /\ chunk' = <<>> /\ resp' = NoResp /\ wire' = <<>>
  BY DEF EndPass
<1>2. UNCHANGED <<on, xfer, unclear, buf, txBuf, txHead, txTail, overrun>>
  BY DEF hostVars, ring
<1>3. Types'
  BY <1>1, <1>2, Sizes DEF IInv, Types
<1>4. (Calls /\ Parts)'
  <2>1. Calls'
    BY <1>1, IdlePass, Sizes DEF Calls
  <2>2. Parts'
    BY <1>1, IdlePass DEF Parts
  <2> QED
    BY <2>1, <2>2
<1>5. Whole'
  BY <1>2 DEF IInv, Whole, IsTransfer, IsHeader
<1>6. (Step /\ Received /\ CommandAsSent)'
  BY <1>1 DEF Step, InStep, Received, CommandAsSent
<1>7. Sending'
  BY <1>1, NotSendingNext
<1> QED
  BY <1>3, <1>4, <1>5, <1>6, <1>7 DEF IInv

LEMMA SendsKeeps ==
  ASSUME IInv, NEW id, Sends(id)
  PROVE  IInv'
<1>1. PICK h \in Headers : xfer' = Padded(h, h.data)
  BY DEF Sends
<1>2. /\ on /\ xfer = <<>>
      /\ UNCHANGED <<on, unclear, pc, buf, rcved, told, call, chunk, resp, wire>>
      /\ UNCHANGED <<txBuf, txHead, txTail, overrun>>
  BY DEF Sends, pass, ring
<1>3. /\ xfer' \in Seq(Cell) /\ xfer' # <<>>
      /\ \A k \in 2 .. Len(xfer') : xfer'[k] \in Byte \union {Nul}
      /\ IsTransfer(xfer')
  BY <1>1, PaddedIs
<1>4. Types'
  BY <1>2, <1>3 DEF IInv, Types
<1>5. Calls'
  BY <1>2 DEF IInv, Calls
<1>6. Parts'
  BY <1>2 DEF IInv, Parts
<1>7. Whole'
  BY <1>3 DEF Whole, IsTransfer
<1>8. IsHeader(xfer'[1])
  BY <1>3, HeaderFacts DEF IsTransfer
<1>9. Step'
  <2>1. Len(xfer) = 0 /\ Size \in Nat /\ rcved \in Nat /\ Size' = Size
    BY <1>2, SizeType, Sizes DEF IInv, Types, Size
  <2>2. pc # "more"
    BY <1>2, <2>1 DEF IInv, Step
  <2>3. pc = "packet" /\ IsHeader(buf[0]) => ~(rcved < Size)
    BY <1>2, <2>1 DEF IInv, Step
  <2> QED
    BY <1>2, <1>8, <2>1, <2>2, <2>3 DEF IInv, Step, InStep, IsHeader
<1>10. Received' /\ CommandAsSent'
  BY <1>2 DEF IInv, Received, CommandAsSent, IsHeader
<1>11. Sending'
  BY <1>2, SameSending DEF IInv
<1> QED
  BY <1>4, <1>5, <1>6, <1>7, <1>9, <1>10, <1>11 DEF IInv

\* The steps of the host that send nothing.
LEMMA HostKeeps ==
  ASSUME IInv, HostLeaves \/ HostReturns \/ InitiateClear
  PROVE  IInv'
<1>1. CASE HostLeaves
  <2>1. /\ xfer' = <<>> /\ on' = FALSE
        /\ UNCHANGED <<unclear, pc, buf, rcved, told, call, chunk, resp, wire>>
        /\ UNCHANGED <<txBuf, txHead, txTail, overrun>>
    BY <1>1 DEF HostLeaves, pass, ring
  <2>2. Types'
    <3>1. xfer' \in Seq(Cell) /\ Len(xfer') = 0
      BY <2>1
    <3>2. on' \in BOOLEAN
      BY <2>1
    <3> QED
      BY <2>1, <3>1, <3>2 DEF IInv, Types
  <2>3. (Calls /\ Parts)'
    BY <2>1 DEF IInv, Calls, Parts
  <2>4. (Whole /\ Step)'
    BY <2>1 DEF IInv, Whole, Step, InStep, IsHeader, Size
  <2>5. (Received /\ CommandAsSent)'
    BY <2>1 DEF IInv, Received, CommandAsSent, IsHeader
  <2>6. Sending'
    BY <2>1, SameSending DEF IInv
  <2> QED
    BY <2>2, <2>3, <2>4, <2>5, <2>6 DEF IInv
<1>2. CASE HostReturns
  <2>1. /\ pc = "done" /\ on' = TRUE /\ pc' = "read" /\ buf' \in Garbage
        /\ UNCHANGED <<xfer, unclear, rcved, told, call, chunk, resp, wire>>
        /\ UNCHANGED <<txBuf, txHead, txTail, overrun>>
    BY <1>2 DEF HostReturns, pass, ring
  <2>2. Types'
    BY <2>1, GarbageType DEF IInv, Types
  <2>3. (Calls /\ Parts)'
    BY <2>1 DEF IInv, Calls, Parts
  <2>4. Whole'
    BY <2>1 DEF IInv, Whole, IsTransfer, IsHeader
  <2>5. (Step /\ Received /\ CommandAsSent)'
    BY <2>1 DEF Step, InStep, Received, CommandAsSent
  <2>6. Sending'
    BY <2>1, CommandSending
  <2> QED
    BY <2>2, <2>3, <2>4, <2>5, <2>6 DEF IInv
<1>3. CASE InitiateClear
  <2>1. /\ on /\ unclear' \in BOOLEAN
        /\ UNCHANGED <<on, xfer, pc, buf, rcved, told, call, chunk, resp, wire>>
        /\ UNCHANGED <<txBuf, txHead, txTail, overrun>>
    BY <1>3 DEF InitiateClear, pass, ring
  <2>2. Types'
    BY <2>1 DEF IInv, Types
  <2>3. (Calls /\ Parts)'
    BY <2>1 DEF IInv, Calls, Parts
  <2>4. (Whole /\ Step)'
    BY <2>1 DEF IInv, Whole, IsTransfer, Step, InStep, IsHeader, Size
  <2>5. (Received /\ CommandAsSent)'
    BY <2>1 DEF IInv, Received, CommandAsSent, IsHeader
  <2>6. Sending'
    BY <2>1, SameSending DEF IInv
  <2> QED
    BY <2>2, <2>3, <2>4, <2>5, <2>6 DEF IInv
<1> QED
  BY <1>1, <1>2, <1>3

LEMMA ReadPacketKeeps ==
  ASSUME IInv, ReadPacket
  PROVE  IInv'
<1> DEFINE n == Least(BufSize, Len(xfer))
<1>1. /\ pc = "read" /\ on /\ xfer # <<>> /\ Receives(n) /\ rcved' = n
      /\ told' = (IF IsHeader(xfer[1]) THEN xfer[1].data ELSE <<>>)
      /\ pc' = "packet"
      /\ UNCHANGED <<on, unclear, call, chunk, resp, wire>>
      /\ UNCHANGED <<txBuf, txHead, txTail, overrun>>
  BY DEF ReadPacket, ring
<1>2. /\ n \in 1 .. Len(xfer) /\ n <= BufSize /\ Len(xfer) \in Nat
      /\ (n < Len(xfer) => n = BufSize)
  BY <1>1, Sizes DEF IInv, Types, Least
<1> HIDE DEF n
<1>3. /\ DOMAIN buf' = Slots /\ buf'[0] = xfer[1] /\ buf'[0] \in Cell
      /\ \A i \in Slots \ {0} : buf'[i] \in Byte \union {Nul}
      /\ \A i \in Slots : i < n => buf'[i] = xfer[i + 1]
      /\ xfer' \in Seq(Cell) /\ Len(xfer') = Len(xfer) - n
      /\ \A k \in 1 .. Len(xfer') : xfer'[k] \in Byte \union {Nul}
      /\ xfer' = <<>> <=> n = Len(xfer)
  BY <1>1, <1>2, ReceivesKeeps DEF IInv
<1>4. IsHeader(xfer[1]) => /\ buf'[0] \in Headers /\ told' = buf'[0].data
                           /\ IsTransfer(xfer)
  BY <1>1, <1>3, CellFacts DEF IInv, Whole
<1>5. told' \in Seq(Byte)
  BY <1>1, <1>4, HeaderFacts
<1>6. Types'
  BY <1>1, <1>2, <1>3, <1>5, Sizes DEF IInv, Types
<1>7. Calls'
  BY <1>1 DEF IInv, Calls
<1>8. Parts'
  BY <1>1 DEF IInv, Parts
<1>9. xfer' # <<>> => ~IsHeader(xfer'[1])
  BY <1>2, <1>3 DEF IsHeader
<1>10. Whole'
  BY <1>9 DEF Whole, IsHeader
<1>11. IsHeader(xfer[1]) => Len(xfer) = Size'
  BY <1>3, <1>4 DEF IsTransfer, Size
<1>12. Step'
  <2>1. pc' = "packet" /\ rcved' = n /\ (IsHeader(buf'[0]) <=> IsHeader(xfer[1]))
    BY <1>1, <1>3
  <2>2. ASSUME IsHeader(xfer[1]), n < Size'
        PROVE  Len(xfer') = Size' - n /\ ~IsHeader(xfer'[1]) /\ BufSize < Size'
    BY <1>2, <1>3, <1>9, <1>11, <2>2
  <2>3. ASSUME IsHeader(xfer[1]), n = Size'
        PROVE  xfer' = <<>>
    BY <1>3, <1>11, <2>3
  <2> QED
    BY <1>2, <1>4, <1>11, <2>1, <2>2, <2>3 DEF Step, InStep, IsHeader
<1>13. Received'
  <2> SUFFICES ASSUME IsHeader(xfer[1]),
                      Aligned(Len(told')) \in Len(told') + 1 .. DataMax
               PROVE  /\ \A k \in 1 .. Len(told') : buf'[Header + k - 1] = told'[k]
                      /\ buf'[Header + Len(told')] = Nul
    BY <1>1, <1>3 DEF Received, IsHeader
  <2> DEFINE l == Len(told')
             a == Aligned(l)
  <2>1. l \in Nat /\ a \in Nat /\ l < a /\ a <= DataMax
    <3>1. l \in Nat /\ a \in Nat
      BY <1>5, AlignedType
    <3> HIDE DEF a
    <3>2. a \in l + 1 .. DataMax
      BY DEF a
    <3> QED
      BY <3>1, <3>2, Sizes
  <2>2. /\ Len(xfer) = Header + a
        /\ \A k \in 1 .. l : xfer[Header + k] = told'[k]
        /\ xfer[Header + l + 1] = Nul
    BY <1>3, <1>4, <2>1 DEF IsTransfer
  <2> HIDE DEF l, a
  <2>3. n = Header + a
    BY <1>2, <2>1, <2>2, Sizes
  <2>4. \A i \in Header .. Header + l : buf'[i] = xfer[i + 1]
    BY <1>3, <2>1, <2>3, Sizes DEF Slots
  <2>5. \A k \in 1 .. l : buf'[Header + k - 1] = told'[k]
    <3> TAKE k \in 1 .. l
    <3>1. Header + k - 1 \in Header .. Header + l /\ (Header + k - 1) + 1 = Header + k
      BY <2>1, Sizes
    <3> QED
      BY <2>2, <2>4, <3>1
  <2>6. buf'[Header + l] = Nul
    BY <2>1, <2>2, <2>4, Sizes
  <2> QED
    BY <2>5, <2>6 DEF l
<1>14. CommandAsSent' /\ Sending'
  BY <1>1, CommandSending DEF CommandAsSent
<1> QED
  BY <1>6, <1>7, <1>8, <1>10, <1>12, <1>13, <1>14 DEF IInv

LEMMA CommandPacketKeeps ==
  ASSUME IInv, CommandPacket
  PROVE  IInv'
<1> DEFINE size == TotalSize(Len(buf[0].data))
<1>1. /\ pc = "packet" /\ IsHeader(buf[0]) /\ buf[0].id = "out"
      /\ UNCHANGED <<on, xfer, unclear, buf, txBuf, txHead, txTail, overrun>>
  BY DEF CommandPacket, Holds, hostVars, ring
<1>2. /\ buf[0] \in Headers /\ told = buf[0].data /\ told \in Message
      /\ rcved \in Nat /\ rcved <= Size
  BY <1>1, HeaderFacts, Sizes DEF IInv, Step, Types
<1>3. size = Size /\ Size \in Nat /\ size <= 2 * BufSize
  BY <1>2, SizeType, TotalSizeIs, MessagesFit DEF IInv, Size, MessagesFit
<1> HIDE DEF size
<1>4. /\ call' = [call EXCEPT !.size = size]
      /\ pc' = (IF size = rcved THEN "finish" ELSE "more")
      /\ UNCHANGED <<rcved, told, chunk, resp, wire>>
  BY <1>2, <1>3 DEF CommandPacket, size
<1>5. call = NoCall
  BY <1>1 DEF IInv, Calls
<1>6. Types'
  BY <1>1, <1>4 DEF IInv, Types
<1>7. Calls'
  <2>1. size \in 0 .. 2 * BufSize
    BY <1>3, Sizes
  <2>2. call' \in [size : 0 .. 2 * BufSize, loop : 0 .. Tries, cmd : Seq(Byte), cnt : Nat]
    BY <1>4, <2>1 DEF IInv, Calls
  <2>3. call'.cmd = <<>> /\ call'.cnt = 0 /\ Len(call'.cmd) = 0
    BY <1>4, <1>5, IdlePass DEF NoCall
  <2> QED
    BY <1>4, <2>2, <2>3, Sizes DEF Calls
<1>8. Parts'
  BY <1>1, <1>4 DEF IInv, Parts
<1>9. Whole'
  BY <1>1 DEF IInv, Whole, IsTransfer, IsHeader
<1>10. Step'
  <2>1. CASE size = rcved
    <3>1. InStep'
      BY <1>1, <1>2, <1>3, <1>4, <2>1 DEF IInv, Step, Whole, InStep, IsHeader
    <3> QED
      BY <1>4, <2>1, <3>1 DEF Step
  <2>2. CASE size # rcved
    <3>1. pc' = "more" /\ call'.size = Size' /\ Size' = Size /\ rcved < Size
      BY <1>2, <1>3, <1>4, <2>2 DEF IInv, Calls, Size
    <3>2. /\ BufSize < Size
          /\ on => Len(xfer) = Size - rcved /\ ~IsHeader(xfer[1])
      BY <1>1, <3>1 DEF IInv, Step
    <3> QED
      BY <1>1, <1>4, <3>1, <3>2 DEF Step, InStep, IsHeader
  <2> QED
    BY <2>1, <2>2
<1>11. Received'
  <2>1. pc' = "finish" => UNCHANGED <<buf, told>>
    BY <1>1, <1>4
  <2> QED
    BY <1>1, <1>4, <2>1 DEF IInv, Received
<1>12. CommandAsSent' /\ Sending'
  BY <1>1, <1>4, CommandSending DEF CommandAsSent
<1> QED
  BY <1>6, <1>7, <1>8, <1>9, <1>10, <1>11, <1>12 DEF IInv

LEMMA ContinueReadKeeps ==
  ASSUME IInv, ContinueRead
  PROVE  IInv'
<1>1. /\ pc = "more" /\ call.loop < Tries /\ call' = [call EXCEPT !.loop = @ + 1]
      /\ UNCHANGED <<on, unclear, told, chunk, resp, wire, txBuf, txHead, txTail, overrun>>
  BY DEF ContinueRead, ring
<1>2. /\ call.size = Size /\ rcved < Size /\ BufSize < Size /\ Size \in Nat
      /\ rcved \in Nat /\ Size <= 2 * BufSize
      /\ (on => Len(xfer) = Size - rcved /\ ~IsHeader(xfer[1]))
  BY <1>1, SizeType, Sizes DEF IInv, Step, Types, Calls
<1>3. Calls' /\ call'.size = call.size
  <2>1. call.loop + 1 \in 0 .. Tries
    BY <1>1, Sizes DEF IInv, Calls
  <2>2. call' \in [size : 0 .. 2 * BufSize, loop : 0 .. Tries, cmd : Seq(Byte), cnt : Nat]
    BY <1>1, <2>1 DEF IInv, Calls
  <2>3. call'.cmd = <<>> /\ call'.cnt = 0 /\ call'.size = call.size
    BY <1>1 DEF IInv, Calls
  <2>4. pc' \in {"more", "finish"}
    BY DEF ContinueRead
  <2> QED
    BY <2>2, <2>3, <2>4, Sizes DEF Calls
<1>4. Size' = Size
  BY <1>1 DEF Size
<1>5. Parts'
  <2>1. pc' \in {"more", "finish"}
    BY DEF ContinueRead
  <2> QED
    BY <1>1, <2>1 DEF IInv, Parts
<1>6. Received' /\ CommandAsSent' /\ Sending'
  <2>1. pc' \in {"more", "finish"}
    BY DEF ContinueRead
  <2>3. Sending'
    BY <1>1, <2>1, CommandSending
  <2>2. ~(Aligned(Len(told')) <= DataMax)
    BY <1>1, <1>2, SizeType, Sizes DEF IInv, Size
  <2> QED
    BY <2>1, <2>2, <2>3, Sizes DEF Received, CommandAsSent
<1>7. CASE ~on /\ pc' = "finish" /\ UNCHANGED <<xfer, buf, rcved>>
  <2>1. Types'
    BY <1>1, <1>7 DEF IInv, Types
  <2>2. Whole' /\ Step'
    BY <1>7 DEF IInv, Types, Whole, Step, InStep
  <2> QED
    BY <1>3, <1>5, <1>6, <2>1, <2>2 DEF IInv
<1>8. ASSUME NEW n \in 1 .. Least(call.size - rcved, Len(xfer)),
             on, Receives(n), rcved' = rcved + n,
             pc' = IF call.size > rcved' THEN "more" ELSE "finish"
      PROVE  IInv'
  <2>1. Len(xfer) = Size - rcved /\ n \in 1 .. Len(xfer)
    BY <1>2, <1>8 DEF Least
  <2>2. /\ DOMAIN buf' = Slots /\ buf'[0] \in Cell
        /\ \A i \in Slots \ {0} : buf'[i] \in Byte \union {Nul}
        /\ xfer' \in Seq(Cell) /\ Len(xfer') = Len(xfer) - n
        /\ \A k \in 1 .. Len(xfer') : xfer'[k] \in Byte \union {Nul}
        /\ xfer' = <<>> <=> n = Len(xfer)
    BY <1>8, <2>1, ReceivesKeeps DEF IInv
  <2>3. rcved' \in 0 .. 2 * BufSize /\ rcved' <= Size
    BY <1>2, <1>8, <2>1, Sizes
  <2>4. Types'
    BY <1>1, <1>8, <2>2, <2>3 DEF IInv, Types
  <2>5. xfer' # <<>> => ~IsHeader(xfer'[1])
    BY <2>1, <2>2 DEF IsHeader
  <2>6. Whole'
    BY <2>5 DEF Whole, IsHeader
  <2>7. CASE rcved' < Size
    <3>1. pc' = "more" /\ Len(xfer') = Size - rcved' /\ xfer' # <<>>
      BY <1>2, <1>8, <2>1, <2>2, <2>7
    <3>2. Step'
      BY <1>2, <1>3, <1>4, <2>5, <2>7, <3>1 DEF Step, InStep, IsHeader
    <3> QED
      BY <1>3, <1>5, <1>6, <2>4, <2>6, <3>2 DEF IInv
  <2>8. CASE ~(rcved' < Size)
    <3>1. pc' = "finish" /\ xfer' = <<>>
      BY <1>2, <1>8, <2>1, <2>2, <2>3, <2>8
    <3>2. Step'
      BY <3>1 DEF Step, InStep
    <3> QED
      BY <1>3, <1>5, <1>6, <2>4, <2>6, <3>2 DEF IInv
  <2> QED
    BY <2>7, <2>8
<1> QED
  BY <1>7, <1>8 DEF ContinueRead

LEMMA FinishKeeps ==
  ASSUME IInv, Finish
  PROVE  IInv'
<1>1. PICK n \in 0 .. DataMax :
         /\ TextEnds(n)
         /\ call' = [call EXCEPT !.cmd = [k \in 1 .. n |-> buf[Header + k - 1]]]
  BY DEF Finish
<1>2. /\ pc = "finish" /\ pc' = "echo"
      /\ UNCHANGED <<on, xfer, unclear, buf, rcved, told, chunk, resp, wire>>
      /\ UNCHANGED <<txBuf, txHead, txTail, overrun>>
  BY DEF Finish, hostVars, ring
<1> DEFINE cmd == [k \in 1 .. n |-> buf[Header + k - 1]]
<1>3. n \in Nat /\ n <= DataMax
  BY Sizes
<1>4. \A i \in 0 .. n - 1 : Header + i \in Slots \ {0}
  BY <1>3, Sizes DEF Slots
<1>5. \A k \in 1 .. n : buf[Header + k - 1] \in Byte
  <2> TAKE k \in 1 .. n
  <2>1. k - 1 \in 0 .. n - 1 /\ Header + (k - 1) = Header + k - 1
    BY <1>3, Sizes
  <2>2. buf[Header + (k - 1)] # Nul /\ buf[Header + (k - 1)] \in Byte \union {Nul}
    BY <1>1, <1>4, <2>1 DEF TextEnds, IInv, Types
  <2> QED
    BY <2>1, <2>2
<1>6. cmd \in Seq(Byte) /\ Len(cmd) = n
  BY <1>3, <1>5
<1>7. ASSUME Aligned(Len(told)) \in Len(told) + 1 .. DataMax
      PROVE  cmd = told
  <2> DEFINE l == Len(told)
  <2>1. /\ told \in Seq(Byte) /\ l \in Nat /\ l < DataMax
        /\ \A k \in 1 .. l : buf[Header + k - 1] = told[k]
        /\ buf[Header + l] = Nul
    BY <1>2, <1>7, SizeType, Sizes DEF IInv, Types, Received
  <2>2. n = l
    <3>1. ~(l < n)
      <4> SUFFICES ASSUME l < n PROVE FALSE
        OBVIOUS
      <4>1. l \in 0 .. n - 1
        BY <1>3, <2>1
      <4> QED
        BY <1>1, <2>1, <4>1 DEF TextEnds
    <3>2. ~(n < l)
      <4> SUFFICES ASSUME n < l PROVE FALSE
        OBVIOUS
      <4>1. buf[Header + n] = Nul
        BY <1>1, <2>1, Sizes DEF TextEnds
      <4>2. n + 1 \in 1 .. l /\ Header + (n + 1) - 1 = Header + n
        BY <1>3, <2>1, Sizes
      <4>3. buf[Header + n] = told[n + 1] /\ told[n + 1] \in Byte
        BY <2>1, <4>2
      <4> QED
        BY <4>1, <4>3, TmcAssumption DEF TmcAssumption
    <3> QED
      BY <1>3, <2>1, <3>1, <3>2
  <2>3. \A k \in 1 .. n : cmd[k] = told[k]
    BY <2>1, <2>2
  <2> HIDE DEF cmd, l
  <2>4. Len(cmd) = Len(told) /\ \A k \in 1 .. Len(cmd) : cmd[k] = told[k]
    BY <1>6, <2>2, <2>3 DEF l
  <2> QED
    BY <1>6, <2>1, <2>4, SeqEqual
<1> HIDE DEF cmd
<1>8. /\ call' = [call EXCEPT !.cmd = cmd]
      /\ call'.cmd = cmd /\ call'.cnt = 0
      /\ call' \in [size : 0 .. 2 * BufSize, loop : 0 .. Tries, cmd : Seq(Byte), cnt : Nat]
  <2>1. call' = [call EXCEPT !.cmd = cmd]
    BY <1>1 DEF cmd
  <2> QED
    BY <1>2, <1>6, <2>1 DEF IInv, Calls
<1>9. CommandAsSent'
  BY <1>2, <1>7, <1>8 DEF CommandAsSent
<1>10. Calls'
  BY <1>2, <1>3, <1>6, <1>8 DEF Calls
<1>11. Types'
  BY <1>2 DEF IInv, Types
<1>12. Parts' /\ Received'
  BY <1>2 DEF IInv, Parts, Received
<1>15. Sending'
  BY <1>2, CommandSending
<1>13. Whole'
  BY <1>2 DEF IInv, Whole, IsTransfer, IsHeader
<1>14. Step'
  BY <1>2 DEF IInv, Step, InStep, IsHeader
<1> QED
  BY <1>9, <1>10, <1>11, <1>12, <1>13, <1>14, <1>15 DEF IInv

\* A byte of the command and the place it is put.
EchoesByte ==
  /\ pc = "echo" /\ call.cnt < Len(call.cmd)
  /\ call' = [call EXCEPT !.cnt = @ + 1]
  /\ txBuf' = [txBuf EXCEPT ![txTail] = call.cmd[call.cnt + 1]]
  /\ txTail' = TailNext(txTail)
  /\ overrun' = (overrun \/ TailNext(txTail) = txHead)
  /\ UNCHANGED <<on, xfer, unclear, buf, pc, rcved, told, chunk, resp, wire, txHead>>

LEMMA EchoCases ==
  ASSUME Echo
  PROVE  EchoesByte \/ (EndPass("read") /\ UNCHANGED <<hostVars, buf, ring>>)
BY DEF Echo, EchoesByte, hostVars, ring

LEMMA EchoByte ==
  ASSUME IInv, EchoesByte
  PROVE  /\ call.cmd[call.cnt + 1] \in Byte
         /\ txTail' \in Idx /\ txBuf' \in [Idx -> Byte \union {Nul}]
         /\ txBuf'[txTail] = call.cmd[call.cnt + 1]
         /\ \A i \in Idx : i # txTail => txBuf'[i] = txBuf[i]
<1>1. call.cmd[call.cnt + 1] \in Byte
  <2>1. call.cmd \in Seq(Byte) /\ call.cnt \in Nat /\ call.cnt < Len(call.cmd)
    BY DEF IInv, Calls, EchoesByte
  <2> HIDE DEF IInv
  <2> QED
    BY <2>1
<1>2. txBuf \in [Idx -> Byte \union {Nul}] /\ txTail \in Idx
  BY DEF IInv, Types
<1>3. txTail' \in Idx
  BY <1>2, BufMaxAssumption DEF BufMaxAssumption, EchoesByte, TailNext, Idx
<1> DEFINE b == call.cmd[call.cnt + 1]
<1>4. txBuf' = [txBuf EXCEPT ![txTail] = b]
  BY DEF EchoesByte
<1> HIDE DEF b
<1>5. /\ txBuf' \in [Idx -> Byte \union {Nul}] /\ txBuf'[txTail] = b
      /\ \A i \in Idx : i # txTail => txBuf'[i] = txBuf[i]
  BY <1>1, <1>2, <1>4 DEF b
<1> QED
  BY <1>1, <1>3, <1>5 DEF b

LEMMA EchoKeeps ==
  ASSUME IInv, Echo
  PROVE  IInv'
<1>1. CASE EndPass("read") /\ UNCHANGED <<hostVars, buf, ring>>
  BY <1>1, EndPassKeeps
<1>2. CASE EchoesByte
  <2>1. /\ pc = "echo" /\ call.cnt < Len(call.cmd)
        /\ call' = [call EXCEPT !.cnt = @ + 1]
        /\ overrun' \in BOOLEAN
        /\ UNCHANGED <<on, xfer, unclear, buf, pc, rcved, told, chunk, resp, wire, txHead>>
    BY <1>2 DEF EchoesByte
  <2>2. Types'
    BY <1>2, <2>1, EchoByte DEF IInv, Types
  <2>3. /\ call' \in [size : 0 .. 2 * BufSize, loop : 0 .. Tries, cmd : Seq(Byte), cnt : Nat]
        /\ call'.cmd = call.cmd /\ call'.cnt = call.cnt + 1
    BY <2>1 DEF IInv, Calls
  <2>4. Calls'
    <3>1. call.cmd \in Seq(Byte) /\ Len(call.cmd) \in Nat /\ call.cnt \in Nat
      BY DEF IInv, Calls
    <3> QED
      BY <2>1, <2>3, <3>1 DEF IInv, Calls
  <2>5. Parts'
    BY <2>1 DEF IInv, Parts
  <2>6. Whole'
    BY <2>1 DEF IInv, Whole, IsTransfer, IsHeader
  <2>7. Step'
    BY <2>1 DEF IInv, Step, InStep, IsHeader
  <2>8. Received' /\ CommandAsSent'
    BY <2>1, <2>3 DEF IInv, Received, CommandAsSent
  <2>9. Sending'
    BY <2>1, CommandSending
  <2> QED
    BY <2>2, <2>4, <2>5, <2>6, <2>7, <2>8, <2>9 DEF IInv
<1> QED
  BY <1>1, <1>2, EchoCases

\* The steps of a response leave the host, the message and the call alone.
Responding ==
  /\ pc' \in {"take", "send", "sent"} /\ pc \in {"packet", "take", "send", "sent"}
  /\ UNCHANGED <<on, xfer, unclear, rcved, told, call, txBuf, txTail, overrun>>

LEMMA RespondingKeeps ==
  ASSUME IInv, Responding, Parts', Sending', txHead' \in Idx,
         DOMAIN buf' = Slots, buf'[0] \in Cell,
         \A i \in Slots \ {0} : buf'[i] \in Byte \union {Nul}
  PROVE  IInv'
<1>1. /\ pc' \in {"take", "send", "sent"} /\ pc \in {"packet", "take", "send", "sent"}
      /\ UNCHANGED <<on, xfer, unclear, rcved, told, call, txBuf, txTail, overrun>>
  BY DEF Responding
<1>2. Types'
  BY <1>1 DEF IInv, Types
<1>3. Calls'
  BY <1>1 DEF IInv, Calls
<1>4. Whole'
  BY <1>1 DEF IInv, Whole, IsTransfer, IsHeader
<1>5. Step' /\ Received' /\ CommandAsSent'
  BY <1>1 DEF Step, InStep, Received, CommandAsSent
<1> QED
  BY <1>2, <1>3, <1>4, <1>5 DEF IInv

\* Until a part is written only its copy in the buffer matters.
LEMMA PartSending ==
  ASSUME pc' \in {"take", "send"}, wire' = <<>>, Copied'
  PROVE  Sending'
<1>1. Len(wire') = 0 /\ 0 <= BufSize /\ 0 <= DataMax
  BY Sizes
<1> QED
  BY <1>1 DEF Sending, Sized, PartsMakeTheResponse

LEMMA RespondKeeps ==
  ASSUME IInv, Respond
  PROVE  IInv'
<1> DEFINE total == Avail(txHead, txTail)
           l == Least(total, DataMax)
<1>1. /\ total > 0 /\ resp' = [len |-> l, sent |-> 0, total |-> total]
      /\ pc = "packet" /\ pc' = "take" /\ UNCHANGED <<chunk, wire, txHead, txTail, buf>>
      /\ UNCHANGED <<on, xfer, unclear, rcved, told, call, txBuf, overrun>>
  BY DEF Respond, Holds, hostVars, ring
<1>2. txHead \in Idx /\ txTail \in Idx
  BY DEF IInv, Types
<1>3. total \in 1 .. BufMax - 1
  BY <1>1, <1>2, AvailType, BufMaxAssumption DEF BufMaxAssumption
<1>4. total' = total
  BY <1>1
<1> HIDE DEF total
<1>5. l \in 1 .. BufSize /\ l <= DataMax /\ l <= total /\ (l < total => l = DataMax)
  BY <1>3, Sizes, BufMaxAssumption DEF BufMaxAssumption, Least
<1> HIDE DEF l
<1>6. chunk' = <<>> /\ Len(chunk') = 0 /\ wire' = <<>>
  BY <1>1 DEF IInv, Parts
<1>7. /\ resp' \in [len : Nat, sent : Nat, total : 0 .. BufMax - 1]
      /\ resp'.len = l /\ resp'.sent = 0 /\ resp'.total = total
  BY <1>1, <1>3, <1>5, Sizes
<1>8. Parts'
  <2>1. chunk' \in Seq(Byte \union {Nul})
    BY <1>6
  <2>2. total' = resp'.total - resp'.sent - Len(chunk')
    BY <1>3, <1>4, <1>6, <1>7
  <2>3. /\ resp'.len \in 1 .. BufSize /\ (resp'.sent = 0 => resp'.len <= DataMax)
        /\ resp'.sent + resp'.len <= resp'.total /\ Len(chunk') <= resp'.len
        /\ resp'.sent + resp'.len < resp'.total =>
             resp'.len = (IF resp'.sent = 0 THEN DataMax ELSE BufSize)
    BY <1>3, <1>5, <1>6, <1>7, Sizes
  <2> QED
    BY <1>1, <1>6, <1>7, <2>1, <2>2, <2>3 DEF Parts, total
<1>9. Responding
  BY <1>1 DEF Responding
<1>10. Sending'
  BY <1>1, <1>6, PartSending DEF Copied
<1> QED
  BY <1>1, <1>2, <1>8, <1>9, <1>10, RespondingKeeps DEF IInv, Types

LEMMA TakeKeeps ==
  ASSUME IInv, Take
  PROVE  IInv'
<1> DEFINE n == Avail(txHead, txTail)
           b == txBuf[txHead]
<1>1. /\ pc = "take" /\ txHead # txTail /\ Len(chunk) < resp.len
      /\ chunk' = Append(chunk, b) /\ txHead' = HeadNext(txHead)
      /\ buf' = (IF resp.sent = 0 THEN [buf EXCEPT ![Header + Len(chunk)] = b] ELSE buf)
      /\ UNCHANGED <<on, xfer, unclear, pc, rcved, told, call, resp, wire, txBuf, txTail, overrun>>
  BY DEF Take, Taking, hostVars
<1>2. /\ txHead \in Idx /\ txTail \in Idx /\ b \in Byte \union {Nul}
      /\ txHead' \in Idx
  BY <1>1, HeadTakes DEF IInv, Types
<1>3. n' = n - 1 /\ n \in Nat
  BY <1>1, <1>2, BufMaxAssumption DEF BufMaxAssumption, Avail, HeadNext, Idx
<1> HIDE DEF b, n
<1>4. /\ chunk \in Seq(Byte \union {Nul}) /\ Len(chunk) \in Nat
      /\ chunk' \in Seq(Byte \union {Nul}) /\ Len(chunk') = Len(chunk) + 1
  BY <1>1, <1>2 DEF IInv, Parts
<1>5. Parts'
  <2>1. /\ resp.len \in Nat /\ resp.sent \in Nat /\ resp.total \in Nat
        /\ n = resp.total - resp.sent - Len(chunk)
    BY <1>1, BufMaxAssumption DEF BufMaxAssumption, IInv, Parts, n
  <2>2. n' = resp.total - resp.sent - Len(chunk') /\ Len(chunk') <= resp.len
    BY <1>1, <1>3, <1>4, <2>1
  <2> QED
    BY <1>1, <1>4, <2>2 DEF IInv, Parts, n
<1>6. /\ DOMAIN buf' = Slots /\ buf'[0] \in Cell
      /\ \A i \in Slots \ {0} : buf'[i] \in Byte \union {Nul}
  <2>1. CASE resp.sent = 0
    <3>1. Len(chunk) < DataMax
      BY <1>1, <1>4, <2>1, Sizes DEF IInv, Parts
    <3>2. Header + Len(chunk) \in Slots \ {0}
      BY <1>4, <3>1, Sizes DEF Slots
    <3> QED
      BY <1>1, <1>2, <2>1, <3>2, Sizes DEF IInv, Types
  <2>2. CASE resp.sent # 0
    BY <1>1, <2>2 DEF IInv, Types
  <2> QED
    BY <2>1, <2>2
<1>7. Responding
  BY <1>1 DEF Responding
<1>8. Copied'
  <2> SUFFICES ASSUME resp.sent = 0, NEW k \in 1 .. Len(chunk) + 1
               PROVE  buf'[Header + k - 1] = chunk'[k]
    BY <1>1, <1>4 DEF Copied
  <2>1. Header \in Nat /\ Len(chunk) < DataMax /\ Header + DataMax = BufSize /\ BufSize \in Nat
    BY <1>1, <1>4, Sizes DEF IInv, Parts
  <2>2. Header + k - 1 \in Slots /\ Header + Len(chunk) \in Slots
    <3> DEFINE c == Len(chunk)
    <3>1. c \in Nat /\ c < DataMax /\ k \in 1 .. c + 1 /\ DataMax \in Nat /\ Header \in Nat \ {0}
      BY <1>4, <2>1, Sizes
    <3> HIDE DEF c
    <3>2. Header + k - 1 \in 0 .. BufSize - 1 /\ Header + c \in 0 .. BufSize - 1
      BY <2>1, <3>1
    <3> QED
      BY <3>2 DEF Slots, c
  <2>3. CASE k = Len(chunk) + 1
    <3>1. chunk'[k] = b /\ Header + k - 1 = Header + Len(chunk)
      BY <1>1, <1>2, <1>4, <2>1, <2>3
    <3> QED
      BY <1>1, <2>2, <3>1 DEF IInv, Types
  <2>4. CASE k # Len(chunk) + 1
    <3>1. k \in 1 .. Len(chunk) /\ Header + k - 1 # Header + Len(chunk)
      BY <1>4, <2>1, <2>4
    <3>2. chunk'[k] = chunk[k]
      BY <1>1, <1>2, <1>4, <3>1
    <3>3. buf'[Header + k - 1] = buf[Header + k - 1]
      BY <1>1, <2>2, <3>1 DEF IInv, Types
    <3> QED
      BY <1>1, <3>1, <3>2, <3>3 DEF IInv, Sending, Copied
  <2> QED
    BY <2>3, <2>4
<1>9. Sending'
  BY <1>1, <1>8, PartSending DEF IInv, Parts
<1> QED
  BY <1>2, <1>5, <1>6, <1>7, <1>9, RespondingKeeps

LEMMA TakenKeeps ==
  ASSUME IInv, Taken
  PROVE  IInv'
<1>1. /\ pc = "take" /\ (txHead = txTail \/ ~(Len(chunk) < resp.len)) /\ pc' = "send"
      /\ UNCHANGED <<on, xfer, unclear, buf, rcved, told, call, chunk, resp, wire>>
      /\ UNCHANGED <<txBuf, txHead, txTail, overrun>>
  BY DEF Taken, Taking, hostVars, pass, ring
<1>2. /\ txHead \in Idx /\ txTail \in Idx
      /\ chunk \in Seq(Byte \union {Nul}) /\ Len(chunk) \in Nat
      /\ resp.len \in Nat /\ resp.sent \in Nat /\ resp.total \in Nat
      /\ resp.sent + resp.len <= resp.total /\ Len(chunk) <= resp.len
      /\ Avail(txHead, txTail) = resp.total - resp.sent - Len(chunk)
  BY <1>1, BufMaxAssumption DEF BufMaxAssumption, IInv, Types, Parts
<1>3. Len(chunk) = resp.len
  <2>1. CASE txHead = txTail
    BY <1>2, <2>1, AvailType
  <2>2. CASE ~(Len(chunk) < resp.len)
    BY <1>2, <2>2
  <2> QED
    BY <1>1, <2>1, <2>2
<1>4. Parts'
  BY <1>1, <1>3 DEF IInv, Parts
<1>5. Responding
  BY <1>1 DEF Responding
<1>6. Sending'
  BY <1>1, PartSending DEF IInv, Parts, Sending, Copied
<1> QED
  BY <1>1, <1>4, <1>5, <1>6, RespondingKeeps DEF IInv, Types

\* What a part's write is given: its bytes, rounded up.
LEMMA WrittenIs ==
  ASSUME IInv, pc = "send"
  PROVE  /\ Len(Written) = Aligned(resp.len)
         /\ \A k \in 1 .. resp.len : Written[k] = chunk[k]
         /\ resp.sent > 0 => \A k \in resp.len + 1 .. Len(Written) : Written[k] = Nul
<1> DEFINE n == Aligned(resp.len)
<1>1. /\ resp.len \in 1 .. BufSize /\ resp.len \in Nat /\ resp.sent \in Nat
      /\ (resp.sent = 0 => resp.len <= DataMax)
      /\ chunk \in Seq(Byte \union {Nul}) /\ Len(chunk) = resp.len
  BY Sizes DEF IInv, Parts
<1>2. n \in Nat /\ n >= resp.len
  BY <1>1, AlignedType
<1>3. Aligned(resp.len + Header) - Header = n
  <2>1. TotalSize(resp.len) = Header + n
    BY <1>1, TotalSizeIs
  <2>2. TotalSize(resp.len) = Aligned(resp.len + Header)
    BY DEF TotalSize
  <2> HIDE DEF n
  <2> QED
    BY <1>2, <2>1, <2>2, Sizes
<1> HIDE DEF n
<1>4. CASE resp.sent = 0
  <2>1. n <= DataMax
    BY <1>1, <1>4, FullParts, Sizes DEF n
  <2>2. Written = [k \in 1 .. n |-> buf[Header + k - 1]]
    BY <1>3, <1>4 DEF Written
  <2>3. \A k \in 1 .. n : buf[Header + k - 1] \in Byte \union {Nul}
    <3> TAKE k \in 1 .. n
    <3>1. Header + k - 1 \in Slots \ {0}
      BY <1>2, <2>1, Sizes DEF Slots
    <3> QED
      BY <3>1 DEF IInv, Types
  <2>4. Written \in Seq(Byte \union {Nul}) /\ Len(Written) = n
    BY <1>2, <2>2, <2>3
  <2>5. \A k \in 1 .. resp.len : Written[k] = chunk[k]
    <3> TAKE k \in 1 .. resp.len
    <3>1. k \in 1 .. n /\ k \in 1 .. Len(chunk)
      BY <1>1, <1>2
    <3>2. buf[Header + k - 1] = chunk[k]
      BY <1>4, <3>1 DEF IInv, Sending, Copied
    <3> QED
      BY <2>2, <3>1, <3>2
  <2> QED
    BY <1>4, <2>4, <2>5 DEF n
<1>5. CASE resp.sent # 0
  <2>1. Written = [k \in 1 .. n |-> IF k <= Len(chunk) THEN chunk[k] ELSE Nul]
    BY <1>5 DEF Written, n
  <2>2. \A k \in 1 .. n : (IF k <= Len(chunk) THEN chunk[k] ELSE Nul) \in Byte \union {Nul}
    BY <1>1, <1>2
  <2>3. Written \in Seq(Byte \union {Nul}) /\ Len(Written) = n
    BY <1>2, <2>1, <2>2
  <2>4. \A k \in 1 .. resp.len : Written[k] = chunk[k]
    BY <1>1, <1>2, <2>1
  <2>5. \A k \in resp.len + 1 .. n : Written[k] = Nul
    <3> TAKE k \in resp.len + 1 .. n
    <3>1. k \in 1 .. n /\ ~(k <= Len(chunk))
      BY <1>1, <1>2
    <3> QED
      BY <2>1, <3>1
  <2> QED
    BY <2>3, <2>4, <2>5 DEF n
<1> QED
  BY <1>4, <1>5

LEMMA SendKeeps ==
  ASSUME IInv, Send
  PROVE  IInv'
<1>1. /\ pc = "send" /\ pc' = "sent" /\ wire' = Written
      /\ UNCHANGED <<on, xfer, unclear, buf, rcved, told, call, chunk, resp>>
      /\ UNCHANGED <<txBuf, txHead, txTail, overrun>>
  BY DEF Send, hostVars, ring
<1>2. Parts'
  BY <1>1 DEF IInv, Parts
<1>3. /\ resp.len \in 1 .. BufSize /\ resp.len \in Nat
      /\ (resp.sent = 0 => resp.len <= DataMax) /\ Len(chunk) = resp.len
      /\ Avail(txHead, txTail) = resp.total - resp.sent - resp.len
      /\ resp.sent + resp.len < resp.total => resp.len \in {DataMax, BufSize}
  BY <1>1, Sizes DEF IInv, Parts
<1>4. /\ Len(wire') = Aligned(resp.len)
      /\ \A k \in 1 .. resp.len : wire'[k] = chunk[k]
      /\ resp.sent > 0 => \A k \in resp.len + 1 .. Len(wire') : wire'[k] = Nul
  BY <1>1, WrittenIs
<1>5. /\ Aligned(resp.len) \in resp.len .. resp.len + Align - 1
      /\ Aligned(resp.len) <= BufSize /\ (resp.sent = 0 => Aligned(resp.len) <= DataMax)
      /\ resp.sent + resp.len < resp.total => Aligned(resp.len) = resp.len
  BY <1>3, AlignedBounds, FullParts, Sizes
<1>6. Copied' /\ Sized'
  BY <1>1, <1>4, <1>5 DEF IInv, Sending, Copied, Sized
<1>7. PartsMakeTheResponse'
  BY <1>1, <1>3, <1>4, <1>5 DEF PartsMakeTheResponse
<1>8. Responding
  BY <1>1 DEF Responding
<1> QED
  BY <1>1, <1>2, <1>6, <1>7, <1>8, RespondingKeeps DEF IInv, Types, Sending

\* The next part of a response.
SendsMore ==
  /\ pc = "sent" /\ resp.sent + resp.len < resp.total
  /\ resp' = [resp EXCEPT !.sent = resp.sent + resp.len,
                          !.len = Least(resp.total - (resp.sent + resp.len), BufSize)]
  /\ chunk' = <<>> /\ wire' = <<>> /\ pc' = "take"
  /\ UNCHANGED <<on, xfer, unclear, buf, rcved, told, call>>
  /\ UNCHANGED <<txBuf, txHead, txTail, overrun>>

LEMMA NextPartCases ==
  ASSUME NextPart
  PROVE  SendsMore \/ (EndPass("read") /\ UNCHANGED <<hostVars, buf, ring>>)
BY DEF NextPart, SendsMore, hostVars, ring

LEMMA NextPartKeeps ==
  ASSUME IInv, NextPart
  PROVE  IInv'
<1>1. CASE EndPass("read") /\ UNCHANGED <<hostVars, buf, ring>>
  BY <1>1, EndPassKeeps
<1>2. CASE SendsMore
  <2> DEFINE sent == resp.sent + resp.len
             l == Least(resp.total - sent, BufSize)
  <2>1. /\ pc = "sent" /\ sent < resp.total /\ chunk' = <<>> /\ pc' = "take" /\ wire' = <<>>
        /\ resp' = [resp EXCEPT !.sent = sent, !.len = l]
        /\ UNCHANGED <<on, xfer, unclear, buf, rcved, told, call>>
        /\ UNCHANGED <<txBuf, txHead, txTail, overrun>>
    BY <1>2 DEF SendsMore
  <2>2. /\ resp \in [len : Nat, sent : Nat, total : 0 .. BufMax - 1]
        /\ resp.len \in Nat \ {0} /\ resp.sent \in Nat /\ resp.total \in Nat
        /\ Avail(txHead, txTail) = resp.total - resp.sent - resp.len
    BY <2>1, BufMaxAssumption, Sizes DEF BufMaxAssumption, IInv, Parts
  <2>3. /\ sent \in Nat \ {0} /\ l \in 1 .. BufSize /\ sent + l <= resp.total
        /\ sent + l < resp.total => l = BufSize
    <3>1. sent \in Nat \ {0}
      BY <2>2
    <3> HIDE DEF sent
    <3> DEFINE t == resp.total
    <3>2. t \in Nat /\ sent < t /\ l = Least(t - sent, BufSize)
      BY <2>1, <2>2
    <3> HIDE DEF l, t
    <3>3. l \in 1 .. BufSize /\ sent + l <= t /\ (sent + l < t => l = BufSize)
      BY <3>1, <3>2, Sizes DEF Least
    <3> QED
      BY <3>1, <3>3 DEF t
  <2>4. Avail(txHead, txTail)' = resp.total - sent
    <3>1. Avail(txHead, txTail)' = Avail(txHead, txTail)
      BY <2>1, Zenon DEF Avail
    <3>2. Avail(txHead, txTail) = resp.total - sent
      <4> DEFINE a == Avail(txHead, txTail)
                 t == resp.total
                 u == resp.sent
                 v == resp.len
      <4>1. t \in Nat /\ u \in Nat /\ v \in Nat /\ a = t - u - v /\ sent = u + v
        BY <2>2
      <4> HIDE DEF a, t, u, v, sent
      <4>2. a = t - sent
        BY <4>1
      <4> QED
        BY <4>2 DEF a, t
    <3> QED
      BY <3>1, <3>2
  <2> HIDE DEF sent, l
  <2>5. /\ resp' \in [len : Nat, sent : Nat, total : 0 .. BufMax - 1]
        /\ resp'.len = l /\ resp'.sent = sent /\ resp'.total = resp.total
    <3>1. l \in Nat /\ sent \in Nat
      BY <2>3, Sizes
    <3> QED
      BY <2>1, <2>2, <3>1
  <2>6. chunk' \in Seq(Byte \union {Nul}) /\ Len(chunk') = 0
    BY <2>1
  <2>7. Avail(txHead, txTail)' = resp'.total - resp'.sent - Len(chunk')
    BY <2>2, <2>3, <2>4, <2>5, <2>6
  <2>8. Parts'
    BY <2>1, <2>3, <2>5, <2>6, <2>7 DEF Parts
  <2>9. Responding
    BY <2>1 DEF Responding
  <2>10. Sending'
    BY <2>1, <2>3, <2>5, PartSending DEF Copied
  <2> QED
    BY <2>1, <2>8, <2>9, <2>10, RespondingKeeps DEF IInv, Types
<1> QED
  BY <1>1, <1>2, NextPartCases

LEMMA StepIInv ==
  ASSUME IInv, [Next]_vars
  PROVE  IInv'
<1>1. CASE HostMessage \/ HostRequest \/ HostVendor
  BY <1>1, SendsKeeps DEF HostMessage, HostRequest, HostVendor
<1>2. CASE HostLeaves \/ HostReturns \/ InitiateClear
  BY <1>2, HostKeeps
<1>3. CASE Ends \/ OtherPacket \/ GiveUp \/ Refuse
  <2>1. \/ EndPass("read") /\ UNCHANGED <<hostVars, buf, ring>>
        \/ EndPass("done") /\ UNCHANGED <<hostVars, buf, ring>>
    BY <1>3 DEF Ends, OtherPacket, GiveUp, Refuse
  <2> QED
    BY <2>1, EndPassKeeps
<1>4. CASE UNCHANGED vars
  <2>1. /\ UNCHANGED <<on, xfer, unclear, pc, buf, rcved, told, call, chunk, resp, wire>>
        /\ UNCHANGED <<txBuf, txHead, txTail, overrun>>
    BY <1>4 DEF vars, hostVars, pass, ring
  <2>2. Types'
    BY <2>1 DEF IInv, Types
  <2>3. Calls' /\ Parts'
    BY <2>1 DEF IInv, Calls, Parts
  <2>4. Whole' /\ Step'
    BY <2>1 DEF IInv, Whole, IsTransfer, Step, InStep, IsHeader, Size
  <2>5. Received' /\ CommandAsSent'
    BY <2>1 DEF IInv, Received, CommandAsSent, IsHeader
  <2>6. Sending'
    BY <2>1, SameSending DEF IInv
  <2> QED
    BY <2>2, <2>3, <2>4, <2>5, <2>6 DEF IInv
<1> QED
  BY <1>1, <1>2, <1>3, <1>4, ReadPacketKeeps, CommandPacketKeeps, ContinueReadKeeps,
     FinishKeeps, EchoKeeps, RespondKeeps, TakeKeeps, TakenKeeps, SendKeeps, NextPartKeeps DEF Next

\* The inductive invariant, for any sizes, bytes and messages.
THEOREM Invariance == Spec => []IInv
<1>1. IInv /\ [Next]_vars => IInv'
  BY StepIInv
<1> QED
  BY InitIInv, <1>1, PTL DEF Spec

(***************************************************************************)
(* TypeOK: whatever the host sends, no index leaves the response ring, no  *)
(* length the buffer it is used for, and no command the packet buffer.     *)
(***************************************************************************)
THEOREM TypeCorrect == Spec => []TypeOK
<1>1. IInv => TypeOK
  <2> SUFFICES ASSUME IInv PROVE TypeOK
    OBVIOUS
  <2>1. /\ on \in BOOLEAN /\ unclear \in BOOLEAN /\ overrun \in BOOLEAN
        /\ pc \in {"read", "packet", "more", "finish", "echo", "take", "send", "sent", "done"}
        /\ DOMAIN buf = Slots /\ rcved \in 0 .. 2 * BufSize
        /\ txBuf \in [Idx -> Byte \union {Nul}] /\ txHead \in Idx /\ txTail \in Idx
    BY DEF IInv, Types
  <2>2. /\ call.size \in 0 .. 2 * BufSize /\ call.loop \in 0 .. Tries
        /\ Len(call.cmd) <= DataMax /\ call.cnt \in 0 .. Len(call.cmd)
    BY DEF IInv, Calls
  <2>3. /\ resp.len \in 0 .. BufSize /\ (resp.sent = 0 => resp.len <= DataMax)
        /\ resp.sent \in 0 .. BufMax - 1 /\ resp.total \in 0 .. BufMax - 1
    <3>1. CASE pc \in {"take", "send", "sent"}
      BY <3>1, Sizes, BufMaxAssumption DEF BufMaxAssumption, IInv, Parts
    <3>2. CASE pc \notin {"take", "send", "sent"}
      <4>1. resp.len = 0 /\ resp.sent = 0 /\ resp.total = 0
        BY <3>2 DEF IInv, Parts, NoResp
      <4> QED
        BY <4>1, Sizes, BufMaxAssumption DEF BufMaxAssumption
    <3> QED
      BY <3>1, <3>2
  <2>4. Len(wire) <= BufSize /\ (resp.sent = 0 => Len(wire) <= DataMax)
    BY DEF IInv, Sending, Sized
  <2> QED
    BY <2>1, <2>2, <2>3, <2>4 DEF TypeOK
<1> QED
  BY Invariance, <1>1, PTL

\* CommandAsSent: strlen stops at the command's own padding, never in what an earlier
\* packet or response left in the buffer.
THEOREM CommandsIntact == Spec => []CommandAsSent
<1>1. IInv => CommandAsSent
  BY DEF IInv
<1> QED
  BY Invariance, <1>1, PTL

\* InStep: however the host cuts a command into packets, the read after it finds the
\* next header.
THEOREM KeepsStep == Spec => []InStep
<1>1. IInv => InStep
  BY DEF IInv, Step
<1> QED
  BY Invariance, <1>1, PTL

\* PartsMakeTheResponse: every write of a response starts with the bytes the part took
\* from the ring, only the last one is longer, by less than Align, and of the bytes it
\* is longer by only a first part's come from the packet buffer.
THEOREM PartsAreWhole == Spec => []PartsMakeTheResponse
<1>1. IInv => PartsMakeTheResponse
  BY DEF IInv, Sending
<1> QED
  BY Invariance, <1>1, PTL

-----------------------------------------------------------------------------
(***************************************************************************)
(* The response ring as a stream.                                          *)
(***************************************************************************)
LEMMA StreamInit == Init => Stream!Init
<1> SUFFICES ASSUME Init PROVE Stream!Init
  OBVIOUS
<1>1. txBuf \in [Idx -> {Nul}] /\ txHead \in Idx /\ txTail = txHead
  BY BufMaxAssumption DEF BufMaxAssumption, Init, Idx
<1>2. Contents(txBuf, txHead, txTail) = <<>>
  BY <1>1, EmptyContents
<1> QED
  BY <1>2 DEF Init, Stream!Init

LEMMA StreamStep ==
  ASSUME IInv, [Next]_vars
  PROVE  [Stream!Next]_(Stream!vars)
<1>1. txBuf \in [Idx -> Byte \union {Nul}] /\ txHead \in Idx /\ txTail \in Idx
  BY DEF IInv, Types
<1>2. ASSUME UNCHANGED <<txBuf, txHead, txTail, overrun, chunk>>
      PROVE  UNCHANGED Stream!vars
  BY <1>2 DEF Stream!vars, Contents
<1>3. ASSUME UNCHANGED <<txBuf, txHead, txTail, overrun>>, chunk' = <<>>
      PROVE  Stream!Next
  <2>1. UNCHANGED Contents(txBuf, txHead, txTail)
    BY <1>3 DEF Contents
  <2>2. CASE overrun
    BY <1>3, <2>2 DEF Stream!Next, Stream!Overrun
  <2>3. CASE ~overrun
    BY <1>3, <2>1, <2>3 DEF Stream!Next, Stream!NewRead
  <2> QED
    BY <2>2, <2>3
<1>4. ASSUME NEW next, EndPass(next), UNCHANGED <<hostVars, buf, ring>>
      PROVE  Stream!Next
  BY <1>3, <1>4 DEF EndPass, ring
<1>5. ASSUME EchoesByte
      PROVE  Stream!Next
  <2> DEFINE b == call.cmd[call.cnt + 1]
  <2>1. /\ b \in Byte /\ txBuf'[txTail] = b
        /\ txBuf' \in [Idx -> Byte \union {Nul}]
        /\ \A i \in Idx : i # txTail => txBuf'[i] = txBuf[i]
    BY <1>5, EchoByte
  <2> HIDE DEF b
  <2>2. /\ txTail' = TailNext(txTail) /\ txHead' = txHead /\ chunk' = chunk
        /\ overrun' = (overrun \/ TailNext(txTail) = txHead)
    BY <1>5 DEF EchoesByte
  <2>3. CASE overrun \/ TailNext(txTail) = txHead
    BY <2>2, <2>3 DEF Stream!Next, Stream!Overrun
  <2>4. CASE ~overrun /\ TailNext(txTail) # txHead
    <3>1. Contents(txBuf', txHead, txTail) = Contents(txBuf, txHead, txTail)
      BY <1>1, <2>1, StoreKeepsContents
    <3>2. /\ Avail(txHead, txTail) < BufMax - 1
          /\ Contents(txBuf', txHead, TailNext(txTail))
               = Append(Contents(txBuf', txHead, txTail), txBuf'[txTail])
      BY <1>1, <2>1, <2>4, TailAppends
    <3>3. Len(Contents(txBuf, txHead, txTail)) < BufMax - 1
      BY <1>1, <3>2, ContentsType
    <3>4. Contents(txBuf, txHead, txTail)' = Append(Contents(txBuf, txHead, txTail), b)
      BY <2>1, <2>2, <3>1, <3>2
    <3>5. overrun \in BOOLEAN /\ overrun' = overrun
      BY <2>2, <2>4 DEF IInv, Types
    <3>6. Stream!Put
      BY <2>1, <2>2, <3>3, <3>4, <3>5 DEF Stream!Put
    <3> QED
      BY <2>4, <3>6 DEF Stream!Next
  <2> QED
    BY <2>3, <2>4
<1>6. ASSUME Take
      PROVE  Stream!Next
  <2>1. /\ txHead # txTail /\ Len(chunk) < resp.len
        /\ chunk' = Append(chunk, txBuf[txHead]) /\ txHead' = HeadNext(txHead)
        /\ UNCHANGED <<txBuf, txTail, overrun>> /\ pc = "take"
    BY <1>6 DEF Take, Taking
  <2>2. CASE overrun
    BY <2>1, <2>2 DEF Stream!Next, Stream!Overrun
  <2>3. CASE ~overrun
    <3>1. /\ Contents(txBuf, txHead, txTail) # <<>>
          /\ Head(Contents(txBuf, txHead, txTail)) = txBuf[txHead]
          /\ Tail(Contents(txBuf, txHead, txTail))
               = Contents(txBuf, HeadNext(txHead), txTail)
      BY <1>1, <2>1, HeadTakes
    <3>2. Contents(txBuf, txHead, txTail)' = Tail(Contents(txBuf, txHead, txTail))
      BY <2>1, <3>1
    <3>3. Len(chunk) < BufSize
      <4>1. chunk \in Seq(Byte \union {Nul}) /\ resp.len \in 1 .. BufSize
        BY <2>1 DEF IInv, Parts
      <4> QED
        BY <2>1, <4>1, Sizes
    <3> QED
      BY <2>1, <2>3, <3>1, <3>2, <3>3 DEF Stream!Next, Stream!Get
  <2> QED
    BY <2>2, <2>3
<1>7. CASE HostMessage \/ HostRequest \/ HostVendor \/ HostLeaves \/ HostReturns
           \/ InitiateClear
  BY <1>2, <1>7 DEF HostMessage, HostRequest, HostVendor, Sends, HostLeaves, HostReturns,
                    InitiateClear, pass, ring
<1>8. CASE ReadPacket \/ ContinueRead \/ Finish \/ Respond \/ Taken \/ Send
  BY <1>2, <1>8 DEF ReadPacket, ContinueRead, Finish, Respond, Taken, Send, pass, ring
<1>9. CASE Ends \/ OtherPacket \/ GiveUp \/ Refuse
  BY <1>4, <1>9 DEF Ends, OtherPacket, GiveUp, Refuse
<1>10. CASE CommandPacket
  BY <1>2, <1>4, <1>10 DEF CommandPacket, ring
<1>11. CASE Echo
  BY <1>4, <1>5, <1>11, EchoCases
<1>12. CASE NextPart
  <2>1. CASE SendsMore
    BY <1>3, <2>1 DEF SendsMore
  <2> QED
    BY <1>4, <1>12, <2>1, NextPartCases
<1>13. CASE UNCHANGED vars
  BY <1>2, <1>13 DEF vars, pass, ring
<1> QED
  BY <1>6, <1>7, <1>8, <1>9, <1>10, <1>11, <1>12, <1>13 DEF Next

(***************************************************************************)
(* ImplementsStream: until it is overrun the response ring gives the host  *)
(* the bytes that were echoed, in order and once, in parts of at most a    *)
(* packet, whatever the sizes of ring and packet, and for the next host    *)
(* too when one leaves.                                                    *)
(***************************************************************************)
THEOREM ResponsesAreAStream == Spec => ImplementsStream
<1>1. IInv /\ [Next]_vars => [Stream!Next]_(Stream!vars)
  BY StreamStep
<1> QED
  BY Invariance, StreamInit, <1>1, PTL DEF Spec, ImplementsStream, Stream!Spec
=============================================================================
