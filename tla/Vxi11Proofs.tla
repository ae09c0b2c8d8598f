------------------------------ MODULE Vxi11Proofs ------------------------------
(* What the VXI-11 server's answers mean, and the order of what a TCP client      *)
(* writes, for any number of clients, calls and transmissions.                    *)
EXTENDS Vxi11, FiniteSetTheorems, TLAPS

Waiting == {c \in Client : open[c] # None}

\* The transmissions that are under way or may be repeated.
Sent == calls \union {open[c] : c \in Waiting}

SameCall(m, k) == m.client = k.client /\ m.n = k.n
Wrote(m) == \E i \in DOMAIN written : written[i] = [client |-> m.client, n |-> m.n]

\* Nothing has a number that its client has not given yet.
Numbered ==
  /\ \A a \in accepted : a.n <= count[a.client]
  /\ \A i \in DOMAIN written : written[i].n <= count[written[i].client]

\* All transmissions of a call are alike.
Alike == \A m, k \in Sent : SameCall(m, k) => m.proc = k.proc /\ m.lid = k.lid

\* What is known of a call agrees with what its transmissions will still do.
Agree ==
  /\ \A a \in answers \union accepted, m \in Sent :
       (a.proc = "device_write" /\ SameCall(a, m))
         => m.proc = "device_write" /\ (a.error = 0 <=> m.lid = Lid)
  /\ \A m \in Sent : Wrote(m) => m.proc = "device_write" /\ m.lid = Lid

\* An answer to device_write is true.
Truthful ==
  \A a \in answers \union accepted :
    a.proc = "device_write" => (a.error = 0 <=> Wrote(a))

\* TCP calls are numbered apart, and those under way are newer than those done.
TcpCalls ==
  /\ \A m, k \in calls : (m.client \in Tcp /\ SameCall(m, k)) => m = k
  /\ \A m \in calls, i \in DOMAIN written :
       (m.client \in Tcp /\ written[i].client = m.client) => written[i].n < m.n

AcceptedWrites == \A a \in accepted : a.proc = "device_write"

IInv == TypeOK /\ Numbered /\ Alike /\ Agree /\ Truthful /\ TcpCalls /\ TcpInOrder /\ AcceptedWrites

-----------------------------------------------------------------------------
LEMMA InitIInv == Init => IInv
<1> SUFFICES ASSUME Init PROVE IInv
    OBVIOUS
<1>1. TypeOK
    BY VxiAssumption DEF Init, TypeOK, Last
<1>2. Numbered /\ Truthful /\ TcpCalls /\ TcpInOrder /\ AcceptedWrites
    BY DEF Init, Numbered, Truthful, TcpCalls, TcpInOrder, AcceptedWrites
<1>3. Alike /\ Agree
    BY DEF Init, Alike, Agree, Sent, Waiting
<1> QED BY <1>1, <1>2, <1>3 DEF IInv

\* What is sent is a transmission, of a call its client has made.
LEMMA SentType ==
  ASSUME TypeOK
  PROVE  \A m \in Sent : m \in Transmission /\ m.n <= count[m.client]
<1>1. \A m \in calls : m \in Transmission /\ m.n <= count[m.client]
    BY DEF TypeOK
<1>2. \A c \in Waiting : open[c] \in Transmission /\ open[c].n <= count[open[c].client]
  <2> SUFFICES ASSUME NEW c \in Waiting
               PROVE  open[c] \in Transmission /\ open[c].n <= count[open[c].client]
      OBVIOUS
  <2>1. c \in Client /\ open[c] # None /\ open[c] \in Transmission
      BY DEF TypeOK, Waiting
  <2>2. open[c].client = c /\ open[c].n = count[c] /\ count[c] \in Nat
      BY <2>1 DEF TypeOK
  <2> QED BY <2>1, <2>2
<1> QED BY <1>1, <1>2 DEF Sent

\* Fields of a transmission.
LEMMA TransmissionFields ==
  ASSUME NEW m \in Transmission
  PROVE  /\ m.client \in Client /\ m.n \in Nat \ {0} /\ m.try \in 1 .. MaxTries
         /\ m.proc \in Proc /\ m.known \in BOOLEAN /\ m.lid \in {Lid, NoLid}
BY DEF Transmission

\* An entry of the history names a client and a number.
LEMMA WrittenType ==
  ASSUME TypeOK
  PROVE  \A i \in DOMAIN written : written[i].client \in Client /\ written[i].n \in Nat
<1> SUFFICES ASSUME NEW i \in DOMAIN written
             PROVE  written[i].client \in Client /\ written[i].n \in Nat
    OBVIOUS
<1>1. written \in Seq([client : Client, n : Nat \ {0}])
    BY DEF TypeOK
<1> DEFINE Entry == [client : Client, n : Nat \ {0}]
<1>2. written[i] \in Entry
  <2>1. written \in Seq(Entry) => written[i] \in Entry
    <3> HIDE DEF Entry
    <3> QED OBVIOUS
  <2> QED BY <1>1, <2>1
<1> QED BY <1>2

-----------------------------------------------------------------------------
\* While the transmissions stay like those already sent, answers can be lost or
\* taken, and what is known of the calls stays true.
LEMMA Keeps ==
  ASSUME Alike, Agree, Truthful,
         \A m \in Sent' : \E k \in Sent : SameCall(m, k) /\ m.proc = k.proc /\ m.lid = k.lid,
         (answers \union accepted)' \subseteq answers \union accepted,
         written' = written
  PROVE  (Alike /\ Agree /\ Truthful)'
<1>1. Alike'
    BY DEF Alike, SameCall
<1>2. \A x : Wrote(x)' <=> Wrote(x)
    BY DEF Wrote
<1>3. Truthful'
    BY <1>2 DEF Truthful, Wrote
<1>4. Agree'
  <2>1. ASSUME NEW a \in (answers \union accepted)', NEW m \in Sent',
               a.proc = "device_write", SameCall(a, m)
        PROVE  m.proc = "device_write" /\ (a.error = 0 <=> m.lid = Lid)
      BY <2>1 DEF Agree, SameCall
  <2>2. ASSUME NEW m \in Sent', Wrote(m)'
        PROVE  m.proc = "device_write" /\ m.lid = Lid
    <3>1. PICK k \in Sent : SameCall(m, k) /\ m.proc = k.proc /\ m.lid = k.lid
        OBVIOUS
    <3>2. Wrote(k)
        BY <2>2, <3>1 DEF Wrote, SameCall
    <3> QED BY <3>1, <3>2 DEF Agree
  <2> QED BY <2>1, <2>2 DEF Agree, SameCall
<1> QED BY <1>1, <1>3, <1>4

\* A new call: none of its number has been sent, answered or written.
LEMMA CallKeeps ==
  ASSUME IInv, NEW c \in Client, Call(c)
  PROVE  IInv'
<1>1. TypeOK /\ Numbered /\ Alike /\ Agree /\ Truthful /\ TcpCalls /\ TcpInOrder /\ AcceptedWrites
    BY DEF IInv
<1>2. PICK p \in Proc, known \in BOOLEAN :
        /\ known => p = "create_link"
        /\ Transmits(c, [client |-> c, n |-> count'[c], try |-> 1, proc |-> p,
                         known |-> known, lid |-> lid[c]])
    BY DEF Call
<1> DEFINE new == [client |-> c, n |-> count[c] + 1, try |-> 1, proc |-> p,
                   known |-> known, lid |-> lid[c]]
<1>3. /\ count \in [Client -> Nat] /\ lid \in [Client -> {Lid, NoLid}]
      /\ count[c] < Last(c) /\ count' = [count EXCEPT ![c] = @ + 1]
      /\ UNCHANGED <<lid, accepted, written, answers>>
    BY <1>1 DEF TypeOK, Call
<1>4. /\ count[c] \in Nat /\ count'[c] = count[c] + 1 /\ count' \in [Client -> Nat]
      /\ \A d \in Client : count[d] \in Nat /\ count'[d] \in Nat /\ count[d] <= count'[d]
      /\ \A d \in Client : d # c => count'[d] = count[d]
    BY <1>3
<1>5. new \in Transmission /\ open' = [open EXCEPT ![c] = new] /\ calls' = calls \union {new}
  <2>1. 1 \in 1 .. MaxTries
      BY VxiAssumption
  <2>2. new \in Transmission
      BY <1>2, <1>3, <1>4, <2>1 DEF Transmission
  <2> QED BY <1>2, <1>4, <2>2 DEF Transmits
<1> HIDE DEF new
<1>6. new.client = c /\ new.n = count[c] + 1 /\ new.proc = p /\ new.lid = lid[c]
    BY DEF new
<1>7. TypeOK'
  <2>1. open' \in [Client -> Transmission \union {None}]
      BY <1>1, <1>5 DEF TypeOK
  <2>2. ASSUME NEW d \in Client, open'[d] # None
        PROVE  open'[d].client = d /\ open'[d].n = count'[d]
    <3>1. CASE d = c
        BY <3>1, <1>1, <1>4, <1>5, <1>6 DEF TypeOK
    <3>2. CASE d # c
        BY <3>2, <2>2, <1>1, <1>4, <1>5 DEF TypeOK
    <3> QED BY <3>1, <3>2
  <2>3. calls' \subseteq Transmission /\ answers' \subseteq Answer /\ accepted' \subseteq Answer
      BY <1>1, <1>3, <1>5 DEF TypeOK
  <2>4. \A d \in Client : count'[d] <= Last(d)
    <3>1. Last(c) \in Nat
        BY VxiAssumption DEF Last
    <3> QED BY <3>1, <1>1, <1>3, <1>4 DEF TypeOK
  <2>5. ASSUME NEW m \in calls' \union answers'
        PROVE  m.n <= count'[m.client]
    <3>1. CASE m = new
        BY <3>1, <1>4, <1>6
    <3>2. CASE m \in calls \union answers
      <4>1. m.n \in Nat /\ m.client \in Client /\ m.n <= count[m.client]
          BY <3>2, <1>1 DEF TypeOK, Transmission, Answer
      <4> QED BY <4>1, <1>4
    <3> QED BY <3>1, <3>2, <1>3, <1>5
  <2> QED BY <2>1, <2>2, <2>3, <2>4, <2>5, <1>1, <1>3, <1>4 DEF TypeOK
<1>8. Numbered'
  <2>1. \A a \in accepted : a.client \in Client /\ a.n \in Nat
      BY <1>1 DEF TypeOK, Answer
  <2> QED BY <2>1, <1>1, <1>3, <1>4, WrittenType DEF Numbered
<1>9. Sent' \subseteq Sent \union {new}
  <2>1. \A d \in Waiting' : open'[d] \in Sent \union {new}
      BY <1>1, <1>5 DEF Waiting, Sent, TypeOK
  <2>2. calls' \subseteq Sent \union {new}
      BY <1>5 DEF Sent
  <2> QED BY <2>1, <2>2 DEF Sent
<1>10. \A m \in Sent : ~SameCall(m, new) /\ ~SameCall(new, m)
    BY <1>1, <1>4, <1>6, SentType, TransmissionFields DEF SameCall
<1>11. \A a \in answers \union accepted : ~SameCall(a, new)
  <2>1. \A a \in answers \union accepted : a.n \in Nat /\ a.client \in Client /\ a.n <= count[a.client]
      BY <1>1 DEF TypeOK, Answer, Numbered
  <2> QED BY <2>1, <1>4, <1>6 DEF SameCall
<1>12. ~Wrote(new)
  <2>1. \A i \in DOMAIN written : written[i].n \in Nat /\ written[i].n <= count[written[i].client]
      BY <1>1, WrittenType DEF Numbered
  <2> QED BY <2>1, <1>4, <1>6 DEF Wrote
<1>13. \A x : Wrote(x)' <=> Wrote(x)
    BY <1>3 DEF Wrote
<1>14. Alike'
    BY <1>1, <1>9, <1>10 DEF Alike
<1>15. Truthful'
    BY <1>1, <1>3, <1>13 DEF Truthful, Wrote
<1>16. Agree'
  <2>1. ASSUME NEW a \in answers' \union accepted', NEW m \in Sent',
               a.proc = "device_write", SameCall(a, m)
        PROVE  m.proc = "device_write" /\ (a.error = 0 <=> m.lid = Lid)
      BY <2>1, <1>1, <1>3, <1>9, <1>11 DEF Agree
  <2>2. ASSUME NEW m \in Sent', Wrote(m)'
        PROVE  m.proc = "device_write" /\ m.lid = Lid
      BY <2>2, <1>1, <1>9, <1>12, <1>13 DEF Agree
  <2> QED BY <2>1, <2>2 DEF Agree, SameCall
<1>17. TcpCalls'
  <2>1. \A m \in calls : m \in Sent
      BY DEF Sent
  <2>2. ASSUME NEW m \in calls', NEW k \in calls', m.client \in Tcp, SameCall(m, k)
        PROVE  m = k
      BY <2>1, <2>2, <1>1, <1>5, <1>10 DEF TcpCalls
  <2>3. ASSUME NEW m \in calls', NEW i \in DOMAIN written,
               m.client \in Tcp, written[i].client = m.client
        PROVE  written[i].n < m.n
    <3>1. CASE m = new
      <4>1. written[i].n \in Nat /\ written[i].n <= count[c]
          BY <2>3, <3>1, <1>1, <1>6, WrittenType DEF Numbered
      <4> QED BY <4>1, <3>1, <1>4, <1>6
    <3>2. CASE m \in calls
        BY <3>2, <2>3, <1>1 DEF TcpCalls
    <3> QED BY <3>1, <3>2, <1>5
  <2> QED BY <2>2, <2>3, <1>3 DEF TcpCalls, SameCall
<1>18. TcpInOrder' /\ AcceptedWrites'
    BY <1>1, <1>3 DEF TcpInOrder, AcceptedWrites
<1> QED BY <1>7, <1>8, <1>14, <1>15, <1>16, <1>17, <1>18 DEF IInv

\* A transmission again: it is like the one the client still waits for.
LEMMA RepeatKeeps ==
  ASSUME IInv, NEW c \in Client, Repeat(c)
  PROVE  IInv'
<1>1. TypeOK /\ Numbered /\ Alike /\ Agree /\ Truthful /\ TcpCalls /\ TcpInOrder /\ AcceptedWrites
    BY DEF IInv
<1> DEFINE new == [open[c] EXCEPT !.try = @ + 1]
<1>2. /\ c \in Udp /\ open[c] # None /\ open[c].try < MaxTries
      /\ open' = [open EXCEPT ![c] = new] /\ calls' = calls \union {new}
      /\ UNCHANGED <<count, lid, accepted, written, answers>>
    BY DEF Repeat, Transmits
<1>3. open[c] \in Transmission /\ open[c].client = c /\ open[c].n = count[c] /\ open[c] \in Sent
    BY <1>1, <1>2 DEF TypeOK, Sent, Waiting
<1>4. new \in Transmission
  <2>1. open[c].try + 1 \in 1 .. MaxTries
      BY <1>2, <1>3, VxiAssumption DEF Transmission
  <2> QED BY <2>1, <1>3 DEF Transmission
<1>5. SameCall(new, open[c]) /\ new.proc = open[c].proc /\ new.lid = open[c].lid
    BY <1>3 DEF SameCall, Transmission
<1> HIDE DEF new
<1>6. TypeOK'
  <2>1. open' \in [Client -> Transmission \union {None}]
      BY <1>1, <1>2, <1>4 DEF TypeOK
  <2>2. \A d \in Client : open'[d] # None => open'[d].client = d /\ open'[d].n = count'[d]
      BY <1>1, <1>2, <1>3, <1>5 DEF TypeOK, SameCall
  <2>3. calls' \subseteq Transmission
      BY <1>1, <1>2, <1>4 DEF TypeOK
  <2>4. \A m \in calls' \union answers' : m.n <= count'[m.client]
      BY <1>1, <1>2, <1>3, <1>5 DEF TypeOK, SameCall
  <2> QED BY <2>1, <2>2, <2>3, <2>4, <1>1, <1>2 DEF TypeOK
<1>7. \A m \in Sent' : \E k \in Sent : SameCall(m, k) /\ m.proc = k.proc /\ m.lid = k.lid
  <2>1. Sent' \subseteq Sent \union {new}
    <3>1. \A d \in Waiting' : open'[d] \in Sent \union {new}
        BY <1>1, <1>2 DEF Waiting, Sent, TypeOK
    <3>2. calls' \subseteq Sent \union {new}
        BY <1>2 DEF Sent
    <3> QED BY <3>1, <3>2 DEF Sent
  <2> QED BY <2>1, <1>3, <1>5 DEF SameCall
<1>8. (Alike /\ Agree /\ Truthful)'
    BY <1>1, <1>2, <1>7, Keeps
<1>9. TcpCalls'
  <2>1. new.client \notin Tcp
      BY <1>2, <1>3, <1>5, VxiAssumption DEF SameCall
  <2>2. ASSUME NEW m \in calls', NEW k \in calls', m.client \in Tcp, SameCall(m, k)
        PROVE  m = k
      BY <2>1, <2>2, <1>1, <1>2 DEF TcpCalls, SameCall
  <2> QED BY <2>1, <2>2, <1>1, <1>2 DEF TcpCalls, SameCall
<1>10. Numbered' /\ TcpInOrder' /\ AcceptedWrites'
    BY <1>1, <1>2 DEF Numbered, TcpInOrder, AcceptedWrites
<1> QED BY <1>6, <1>8, <1>9, <1>10 DEF IInv

\* Giving up: nothing new is sent.
LEMMA TimesOutKeeps ==
  ASSUME IInv, NEW c \in Client, TimesOut(c)
  PROVE  IInv'
<1>1. TypeOK /\ Numbered /\ Alike /\ Agree /\ Truthful /\ TcpCalls /\ TcpInOrder /\ AcceptedWrites
    BY DEF IInv
<1>2. /\ open' = [open EXCEPT ![c] = None]
      /\ UNCHANGED <<count, lid, accepted, written, calls, answers>>
    BY DEF TimesOut
<1>3. Sent' \subseteq Sent
    BY <1>1, <1>2 DEF Sent, Waiting, TypeOK
<1>4. (Alike /\ Agree /\ Truthful)'
    BY <1>1, <1>2, <1>3, Keeps DEF SameCall
<1>5. TypeOK'
    BY <1>1, <1>2 DEF TypeOK
<1>6. Numbered' /\ TcpCalls' /\ TcpInOrder' /\ AcceptedWrites'
    BY <1>1, <1>2 DEF Numbered, TcpCalls, TcpInOrder, AcceptedWrites, SameCall
<1> QED BY <1>4, <1>5, <1>6 DEF IInv

\* An answer arrives: it is dropped, or taken once.
LEMMA ReceivesKeeps ==
  ASSUME IInv, NEW a \in answers, Receives(a)
  PROVE  IInv'
<1>1. TypeOK /\ Numbered /\ Alike /\ Agree /\ Truthful /\ TcpCalls /\ TcpInOrder /\ AcceptedWrites
    BY DEF IInv
<1>2. a \in Answer /\ a.client \in Client /\ a.lid \in {Lid, NoLid} /\ a.n <= count[a.client]
    BY <1>1 DEF TypeOK, Answer
<1>3. /\ answers' = answers \ {a}
      /\ UNCHANGED <<count, written, calls>>
      /\ open' = open \/ open' = [open EXCEPT ![a.client] = None]
      /\ lid' = lid \/ lid' = [lid EXCEPT ![a.client] = a.lid]
      /\ accepted' = accepted \/ (a.proc = "device_write" /\ accepted' = accepted \union {a})
    BY DEF Receives
<1>4. Sent' \subseteq Sent
    BY <1>1, <1>3 DEF Sent, Waiting, TypeOK
<1>5. (Alike /\ Agree /\ Truthful)'
    BY <1>1, <1>3, <1>4, Keeps DEF SameCall
<1>6. TypeOK'
  <2>1. open' \in [Client -> Transmission \union {None}]
      BY <1>1, <1>3 DEF TypeOK
  <2>2. \A d \in Client : open'[d] # None => open'[d].client = d /\ open'[d].n = count'[d]
      BY <1>1, <1>2, <1>3 DEF TypeOK
  <2>3. lid' \in [Client -> {Lid, NoLid}]
      BY <1>1, <1>2, <1>3 DEF TypeOK
  <2>4. answers' \subseteq Answer /\ accepted' \subseteq Answer
      BY <1>1, <1>2, <1>3 DEF TypeOK
  <2> QED BY <2>1, <2>2, <2>3, <2>4, <1>1, <1>3 DEF TypeOK
<1>7. Numbered' /\ AcceptedWrites'
    BY <1>1, <1>2, <1>3 DEF Numbered, AcceptedWrites
<1>8. TcpCalls' /\ TcpInOrder'
    BY <1>1, <1>3 DEF TcpCalls, TcpInOrder, SameCall
<1> QED BY <1>5, <1>6, <1>7, <1>8 DEF IInv

-----------------------------------------------------------------------------
\* The server takes a call and answers it.  A write is passed on if and only if its
\* link is right, and then the answer says so.
Served(m, error) ==
  IF m.proc = "device_write" /\ m.lid = Lid
    THEN error = 0 /\ Writes(m)
    ELSE written' = written /\ (m.proc = "device_write" => error # 0)

\* What is written after a call has been served.
LEMMA WrittenAfter ==
  ASSUME TypeOK, NEW m \in calls, NEW error, Served(m, error)
  PROVE  /\ written' \in Seq([client : Client, n : Nat \ {0}])
         /\ \A i \in DOMAIN written : i \in DOMAIN written' /\ written'[i] = written[i]
         /\ \A i \in DOMAIN written' :
              \/ i \in DOMAIN written
              \/ /\ m.proc = "device_write" /\ m.lid = Lid
                 /\ written'[i] = [client |-> m.client, n |-> m.n]
                 /\ \A j \in DOMAIN written' : j # i => j \in DOMAIN written /\ j < i
         /\ m.proc = "device_write" /\ m.lid = Lid =>
              \E i \in DOMAIN written' : written'[i] = [client |-> m.client, n |-> m.n]
<1>1. [client |-> m.client, n |-> m.n] \in [client : Client, n : Nat \ {0}]
    BY DEF TypeOK, Transmission
<1>2. written \in Seq([client : Client, n : Nat \ {0}])
    BY DEF TypeOK
<1>3. CASE m.proc = "device_write" /\ m.lid = Lid
  <2>1. written' = Append(written, [client |-> m.client, n |-> m.n])
      BY <1>3 DEF Served, Writes
  <2> QED BY <2>1, <1>1, <1>2, <1>3
<1>4. CASE ~(m.proc = "device_write" /\ m.lid = Lid)
    BY <1>2, <1>4 DEF Served
<1> QED BY <1>3, <1>4

LEMMA ServeKeeps ==
  ASSUME IInv, NEW m \in calls, Takes(m),
         NEW error \in {0, 3, 4, RpcError}, NEW link \in {Lid, NoLid},
         Answers(m, error, link), Served(m, error)
  PROVE  IInv'
<1>1. TypeOK /\ Numbered /\ Alike /\ Agree /\ Truthful /\ TcpCalls /\ TcpInOrder /\ AcceptedWrites
    BY DEF IInv
<1> DEFINE new == [client |-> m.client, n |-> m.n, proc |-> m.proc,
                   error |-> error, lid |-> link]
           w == [client |-> m.client, n |-> m.n]
<1>2. /\ calls' = calls \ {m} /\ answers' = answers \union {new}
      /\ UNCHANGED <<count, open, lid, accepted>>
      /\ m.client \in Tcp => \A k \in calls : k.client = m.client => m.n <= k.n
    BY DEF Takes, Answers, clientVars
<1>3. m \in Transmission /\ m \in Sent /\ m.n <= count[m.client]
    BY <1>1 DEF TypeOK, Sent
<1>4. new \in Answer
    BY <1>3, TransmissionFields DEF Answer
<1>5. SameCall(new, m) /\ new.proc = m.proc /\ new.error = error
    BY DEF SameCall
<1> HIDE DEF new
<1>6. /\ written' \in Seq([client : Client, n : Nat \ {0}])
      /\ \A i \in DOMAIN written : i \in DOMAIN written' /\ written'[i] = written[i]
      /\ \A i \in DOMAIN written' :
           \/ i \in DOMAIN written
           \/ /\ m.proc = "device_write" /\ m.lid = Lid /\ written'[i] = w
              /\ \A j \in DOMAIN written' : j # i => j \in DOMAIN written /\ j < i
      /\ m.proc = "device_write" /\ m.lid = Lid =>
           \E i \in DOMAIN written' : written'[i] = w
    BY <1>1, WrittenAfter
<1>7. TypeOK'
  <2>1. answers' \subseteq Answer /\ calls' \subseteq Transmission
      BY <1>1, <1>2, <1>4 DEF TypeOK
  <2>2. \A k \in calls' \union answers' : k.n <= count'[k.client]
      BY <1>1, <1>2, <1>3, <1>5 DEF TypeOK, SameCall
  <2> QED BY <2>1, <2>2, <1>1, <1>2, <1>6 DEF TypeOK
<1>8. Numbered' /\ AcceptedWrites'
  <2>1. w.client = m.client /\ w.n = m.n
      OBVIOUS
  <2> QED BY <2>1, <1>1, <1>2, <1>3, <1>6 DEF Numbered, AcceptedWrites
<1>9. Sent' \subseteq Sent
    BY <1>2 DEF Sent, Waiting
<1>10. Alike'
    BY <1>1, <1>9 DEF Alike
<1>11. ASSUME NEW x PROVE Wrote(x)' <=> \/ Wrote(x)
                                       \/ /\ m.proc = "device_write" /\ m.lid = Lid
                                          /\ x.client = m.client /\ x.n = m.n
  <2>1. ASSUME Wrote(x)'
        PROVE  \/ Wrote(x)
               \/ m.proc = "device_write" /\ m.lid = Lid /\ x.client = m.client /\ x.n = m.n
    <3>1. PICK i \in DOMAIN written' : written'[i] = [client |-> x.client, n |-> x.n]
        BY <2>1 DEF Wrote
    <3>2. CASE i \in DOMAIN written
        BY <3>1, <3>2, <1>6 DEF Wrote
    <3>3. CASE i \notin DOMAIN written
      <4>1. m.proc = "device_write" /\ m.lid = Lid /\ w = [client |-> x.client, n |-> x.n]
          BY <3>1, <3>3, <1>6
      <4> QED BY <4>1
    <3> QED BY <3>2, <3>3
  <2>2. Wrote(x) => Wrote(x)'
      BY <1>6 DEF Wrote
  <2>3. (m.proc = "device_write" /\ m.lid = Lid /\ x.client = m.client /\ x.n = m.n) => Wrote(x)'
      BY <1>6 DEF Wrote
  <2> QED BY <2>1, <2>2, <2>3
<1>12. Agree'
  <2>1. ASSUME NEW a \in answers' \union accepted', NEW k \in Sent',
               a.proc = "device_write", SameCall(a, k)
        PROVE  k.proc = "device_write" /\ (a.error = 0 <=> k.lid = Lid)
    <3>1. CASE a = new
      <4>1. SameCall(m, k) /\ m.proc = "device_write"
          BY <2>1, <3>1, <1>5 DEF SameCall
      <4>2. k.proc = m.proc /\ k.lid = m.lid
          BY <4>1, <1>1, <1>3, <1>9 DEF Alike
      <4> QED BY <4>1, <4>2, <3>1, <1>5 DEF Served
    <3>2. CASE a \in answers \union accepted
        BY <2>1, <3>2, <1>1, <1>9 DEF Agree
    <3> QED BY <3>1, <3>2, <1>2
  <2>2. ASSUME NEW k \in Sent', Wrote(k)'
        PROVE  k.proc = "device_write" /\ k.lid = Lid
    <3>1. CASE Wrote(k)
        BY <3>1, <1>1, <1>9 DEF Agree
    <3>2. CASE ~Wrote(k)
      <4>1. m.proc = "device_write" /\ m.lid = Lid /\ SameCall(m, k)
          BY <2>2, <3>2, <1>11 DEF SameCall
      <4> QED BY <4>1, <1>1, <1>3, <1>9 DEF Alike
    <3> QED BY <3>1, <3>2
  <2> QED BY <2>1, <2>2 DEF Agree, SameCall
<1>13. Truthful'
  <2> SUFFICES ASSUME NEW a \in answers' \union accepted', a.proc = "device_write"
               PROVE  a.error = 0 <=> Wrote(a)'
      BY DEF Truthful, Wrote
  <2>1. CASE a = new
    <3>1. m.proc = "device_write" /\ a.client = m.client /\ a.n = m.n /\ a.error = error
        BY <2>1, <1>5 DEF SameCall
    <3>2. CASE m.lid = Lid
        BY <3>1, <3>2, <1>11 DEF Served
    <3>3. CASE m.lid # Lid
      <4>1. error # 0 /\ ~Wrote(m)
          BY <3>1, <3>3, <1>1, <1>3 DEF Served, Agree
      <4>2. ~Wrote(a)
          BY <4>1, <3>1 DEF Wrote
      <4> QED BY <4>1, <4>2, <3>1, <3>3, <1>11
    <3> QED BY <3>2, <3>3
  <2>2. CASE a \in answers \union accepted
    <3>1. a.error = 0 <=> Wrote(a)
        BY <2>2, <1>1 DEF Truthful
    <3>2. (m.lid = Lid /\ a.client = m.client /\ a.n = m.n) => a.error = 0
        BY <2>2, <1>1, <1>3 DEF Agree, SameCall
    <3> QED BY <3>1, <3>2, <1>11
  <2> QED BY <2>1, <2>2, <1>2
<1>14. TcpCalls'
  <2>1. ASSUME NEW k \in calls', NEW i \in DOMAIN written',
               k.client \in Tcp, written'[i].client = k.client
        PROVE  written'[i].n < k.n
    <3>1. CASE i \in DOMAIN written
        BY <2>1, <3>1, <1>1, <1>2, <1>6 DEF TcpCalls
    <3>2. CASE i \notin DOMAIN written
      <4>1. k.client = m.client /\ written'[i].n = m.n /\ k # m /\ k \in calls
          BY <2>1, <3>2, <1>2, <1>6
      <4>2. m.n <= k.n /\ ~SameCall(k, m)
          BY <4>1, <2>1, <1>1, <1>2 DEF TcpCalls
      <4>3. m.n \in Nat /\ k.n \in Nat
          BY <4>1, <1>1 DEF TypeOK, Transmission
      <4> QED BY <4>1, <4>2, <4>3 DEF SameCall
    <3> QED BY <3>1, <3>2
  <2> QED BY <2>1, <1>1, <1>2 DEF TcpCalls, SameCall
<1>15. TcpInOrder'
  <2> SUFFICES ASSUME NEW i \in DOMAIN written', NEW j \in DOMAIN written', i < j,
                      written'[i].client = written'[j].client, written'[i].client \in Tcp
               PROVE  written'[i].n < written'[j].n
      BY DEF TcpInOrder
  <2>1. i \in DOMAIN written
      BY <1>6
  <2>2. CASE j \in DOMAIN written
      BY <2>1, <2>2, <1>1, <1>6 DEF TcpInOrder
  <2>3. CASE j \notin DOMAIN written
    <3>1. written'[j].client = m.client /\ written'[j].n = m.n
        BY <2>3, <1>6
    <3>2. written'[i] = written[i]
        BY <2>1, <1>6
    <3> QED BY <2>1, <3>1, <3>2, <1>1 DEF TcpCalls
  <2> QED BY <2>2, <2>3
<1> QED BY <1>7, <1>8, <1>10, <1>12, <1>13, <1>14, <1>15 DEF IInv

\* Each handler serves its call.
LEMMA HandlersServe ==
  ASSUME IInv, NEW m \in calls, Other(m) \/ CreateLink(m) \/ DeviceWrite(m) \/ DeviceRead(m)
  PROVE  IInv'
<1>1. CASE Other(m)
  <2>1. PICK error \in {0, RpcError} : Answers(m, error, NoLid)
      BY <1>1 DEF Other
  <2>2. Takes(m) /\ Served(m, error)
      BY <1>1 DEF Other, Served
  <2> QED BY <2>1, <2>2, ServeKeeps
<1>2. CASE CreateLink(m)
  <2>1. Takes(m) /\ Served(m, 0) /\ Served(m, 3)
      BY <1>2 DEF CreateLink, Served
  <2>2. Answers(m, 0, Lid) \/ Answers(m, 3, NoLid)
      BY <1>2 DEF CreateLink
  <2> QED BY <2>1, <2>2, ServeKeeps
<1>3. CASE DeviceWrite(m)
  <2>1. Takes(m)
      BY <1>3 DEF DeviceWrite
  <2>2. \/ Answers(m, 0, NoLid) /\ Served(m, 0)
        \/ Answers(m, 4, NoLid) /\ Served(m, 4)
      BY <1>3 DEF DeviceWrite, Served
  <2> QED BY <2>1, <2>2, ServeKeeps
<1>4. CASE DeviceRead(m)
  <2>1. Takes(m) /\ Answers(m, 0, NoLid) /\ Served(m, 0)
      BY <1>4 DEF DeviceRead, Served
  <2> QED BY <2>1, ServeKeeps
<1> QED BY <1>1, <1>2, <1>3, <1>4

LEMMA StepIInv == IInv /\ [Next]_vars => IInv'
<1> SUFFICES ASSUME IInv, [Next]_vars PROVE IInv'
    OBVIOUS
<1>1. ASSUME NEW c \in Client, Call(c) \/ Repeat(c) \/ TimesOut(c)
      PROVE  IInv'
    BY <1>1, CallKeeps, RepeatKeeps, TimesOutKeeps
<1>2. ASSUME NEW a \in answers, Receives(a)
      PROVE  IInv'
    BY <1>2, ReceivesKeeps
<1>3. ASSUME Serve
      PROVE  IInv'
    BY <1>3, HandlersServe DEF Serve
<1>4. ASSUME UNCHANGED vars
      PROVE  IInv'
    BY <1>4 DEF IInv, TypeOK, Numbered, Alike, Agree, Truthful, TcpCalls, TcpInOrder,
                AcceptedWrites, Sent, Waiting, SameCall, Wrote, vars, clientVars
<1> QED BY <1>1, <1>2, <1>3, <1>4 DEF Next

\* The inductive invariant, for any clients and any losses: calls, answers and the log agree.
THEOREM Invariance == Spec => []IInv
BY InitIInv, StepIInv, PTL DEF Spec

-----------------------------------------------------------------------------
\* A finite set of positions is counted: none, one, or at least one.
LEMMA Counted ==
  ASSUME TypeOK, NEW c, NEW n
  PROVE  LET S == {i \in DOMAIN written : written[i] = [client |-> c, n |-> n]}
         IN  /\ Executions(c, n) \in Nat
             /\ Executions(c, n) = 0 <=> S = {}
             /\ (\E i : S = {i}) => Executions(c, n) = 1
<1> DEFINE S == {i \in DOMAIN written : written[i] = [client |-> c, n |-> n]}
<1>1. DOMAIN written = 1 .. Len(written) /\ Len(written) \in Nat
    BY DEF TypeOK
<1>2. IsFiniteSet(1 .. Len(written))
    BY <1>1, FS_Interval
<1>3. S \in SUBSET (1 .. Len(written))
    BY <1>1
<1>4. IsFiniteSet(S)
    BY <1>2, <1>3, FS_Subset
<1>5. Executions(c, n) = Cardinality(S)
    BY DEF Executions
<1> HIDE DEF S
<1>6. Cardinality(S) \in Nat
    BY <1>4, FS_CardinalityType
<1>7. Cardinality(S) = 0 <=> S = {}
    BY <1>4, FS_EmptySet
<1>8. (\E i : S = {i}) => Cardinality(S) = 1
    BY FS_Singleton
<1> QED BY <1>5, <1>6, <1>7, <1>8 DEF S

LEMMA TruthFollows == IInv => AnswersTellTruth
<1> SUFFICES ASSUME IInv, NEW a \in accepted
             PROVE  IF a.error = 0
                      THEN /\ Executions(a.client, a.n) >= 1
                           /\ a.client \in Tcp => Executions(a.client, a.n) = 1
                      ELSE Executions(a.client, a.n) = 0
    BY DEF AnswersTellTruth
<1> DEFINE S == {i \in DOMAIN written : written[i] = [client |-> a.client, n |-> a.n]}
<1>1. TypeOK /\ TcpInOrder /\ (a.error = 0 <=> Wrote(a))
    BY DEF IInv, AcceptedWrites, Truthful
<1>2. /\ Executions(a.client, a.n) \in Nat
      /\ Executions(a.client, a.n) = 0 <=> S = {}
      /\ (\E i : S = {i}) => Executions(a.client, a.n) = 1
    BY <1>1, Counted
<1>3. Wrote(a) <=> S # {}
    BY DEF Wrote
<1>4. ASSUME a.client \in Tcp, a.error = 0
      PROVE  \E i : S = {i}
  <2>1. PICK i \in S : TRUE
      BY <1>1, <1>3, <1>4
  <2>2. ASSUME NEW j \in S, NEW k \in S PROVE ~(j < k)
    <3>1. a.n \in Nat
        BY <1>1 DEF TypeOK, Answer
    <3>2. /\ written[j].client = a.client /\ written[k].client = a.client
          /\ written[j].n = a.n /\ written[k].n = a.n
        OBVIOUS
    <3> QED BY <3>1, <3>2, <1>1, <1>4 DEF TcpInOrder
  <2>3. S \subseteq Nat
      BY <1>1 DEF TypeOK
  <2>4. S = {i}
      BY <2>1, <2>2, <2>3
  <2> QED BY <2>4
<1> QED BY <1>1, <1>2, <1>3, <1>4

\* The variables keep their types, for any clients and any bounds.
THEOREM TypeCorrect == Spec => []TypeOK
BY Invariance, PTL DEF IInv

\* What device_write answers is what became of the command, for any number of clients,
\* calls and repeated, lost or overtaken transmissions.
THEOREM Truth == Spec => []AnswersTellTruth
BY Invariance, TruthFollows, PTL

\* Writes of a TCP client are passed on in order and at most once.
THEOREM TcpOrder == Spec => []TcpInOrder
BY Invariance, PTL DEF IInv
=============================================================================
