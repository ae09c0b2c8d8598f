-------------------------------- MODULE Vxi11 --------------------------------
(* The VXI-11 server (vxi11_srv_func.c, vxi11_svc.c) and its clients.  One thread *)
(* runs svc_run: it takes a call, dispatches it to its handler and sends the      *)
(* handler's result before it takes the next.  External: ONC RPC.  A client has   *)
(* one call open and knows its answer by the number (xid) of the call.  Over TCP  *)
(* calls arrive once and in order; over UDP calls and answers are lost, overtaken *)
(* and, since a client that hears nothing calls again, duplicated.                *)
(* The way of a written command to the SCPI thread is ScpiMsg.                    *)
EXTENDS Naturals, Sequences, FiniteSets

CONSTANTS Tcp, Udp,   \* the clients
          MaxCalls,   \* bound: calls of a client, by transport
          MaxTries,   \* bound: transmissions of a call over UDP
          Lid, NoLid, \* UPO3000_LID, and the 0 of a refused create_link
          None        \* no call

Client == Tcp \union Udp
Last(c) == IF c \in Tcp THEN MaxCalls.tcp ELSE MaxCalls.udp

ASSUME VxiAssumption ==
  /\ Tcp \intersect Udp = {} /\ Lid # NoLid
  /\ MaxCalls \in [{"tcp", "udp"} -> Nat] /\ MaxTries \in Nat \ {0}

\* "other" stands for the handlers that only return their zero result (device_lock,
\* destroy_link, device_abort, ...), and for a call the dispatchers refuse.
Proc == {"create_link", "device_write", "device_read", "other"}

\* known: create_link asks for the device "inst0".
Transmission == {m \in [client : Client, n : Nat \ {0}, try : 1 .. MaxTries, proc : Proc,
                        known : BOOLEAN, lid : {Lid, NoLid}] :
                   m.known => m.proc = "create_link"}

\* svcerr_noproc and svcerr_decode, which is no error code of vxi11.h
RpcError == 99

Answer == [client : Client, n : Nat \ {0}, proc : Proc,
           error : {0, 3, 4, RpcError}, lid : {Lid, NoLid}]

VARIABLES count,   \* the number of a client's last call
          open,    \* the call it waits for, in its last transmission
          lid,     \* the link it was given
          calls,   \* transmissions under way
          answers, \* answers under way
          written, \* history: whose commands scpi_msg_cmd_write was given
          accepted \* history: the answers to device_write that clients took

clientVars == <<count, open, lid, accepted>>
vars == <<clientVars, written, calls, answers>>

\* destroy_link destroys nothing: a client may have a link from before.
Init ==
  /\ count = [c \in Client |-> 0] /\ open = [c \in Client |-> None]
  /\ lid \in [Client -> {Lid, NoLid}] /\ accepted = {}
  /\ calls = {} /\ answers = {} /\ written = <<>>

-----------------------------------------------------------------------------
(* Clients and network.  What UDP loses stays under way for ever.               *)

Transmits(c, m) == open' = [open EXCEPT ![c] = m] /\ calls' = calls \union {m}

\* A client need not look at what create_link answered before it uses its link.
Call(c) ==
  /\ open[c] = None /\ count[c] < Last(c)
  /\ count' = [count EXCEPT ![c] = @ + 1]
  /\ \E p \in Proc, known \in BOOLEAN :
       /\ known => p = "create_link"
       /\ Transmits(c, [client |-> c, n |-> count'[c], try |-> 1, proc |-> p,
                        known |-> known, lid |-> lid[c]])
  /\ UNCHANGED <<lid, accepted, written, answers>>

Repeat(c) ==
  /\ c \in Udp /\ open[c] # None /\ open[c].try < MaxTries
  /\ Transmits(c, [open[c] EXCEPT !.try = @ + 1])
  /\ UNCHANGED <<count, lid, accepted, written, answers>>

TimesOut(c) ==
  /\ open[c] # None /\ open' = [open EXCEPT ![c] = None]
  /\ UNCHANGED <<count, lid, accepted, written, calls, answers>>

\* An answer to an earlier call is dropped.
Receives(a) ==
  /\ answers' = answers \ {a}
  /\ LET c == a.client
         own == open[c] # None /\ open[c].n = a.n
     IN /\ open' = IF own THEN [open EXCEPT ![c] = None] ELSE open
        /\ lid' = IF own /\ a.proc = "create_link" THEN [lid EXCEPT ![c] = a.lid] ELSE lid
        /\ accepted' = IF own /\ a.proc = "device_write" THEN accepted \union {a} ELSE accepted
  /\ UNCHANGED <<count, written, calls>>

-----------------------------------------------------------------------------
(* The server.  Takes(m): m is the next call svc_run sees.                     *)

Takes(m) ==
  /\ m \in calls /\ calls' = calls \ {m}
  /\ m.client \in Tcp => \A k \in calls : k.client = m.client => m.n <= k.n
  /\ UNCHANGED clientVars

Answers(m, error, link) ==
  answers' = answers \union {[client |-> m.client, n |-> m.n, proc |-> m.proc,
                              error |-> error, lid |-> link]}

\* A handler's zero result; the dispatchers themselves answer what they do not know
\* or cannot decode.
Other(m) ==
  /\ m.proc = "other" /\ Takes(m)
  /\ \E error \in {0, RpcError} : Answers(m, error, NoLid)
  /\ UNCHANGED written

\* A slip: a number that is no error code of vxi11.h.
CreateLinkCode(m) ==
  /\ m.proc = "create_link" /\ Takes(m)
  /\ IF m.known THEN Answers(m, 0, Lid) ELSE Answers(m, 2, NoLid)
  /\ UNCHANGED written

CreateLink(m) ==
  /\ m.proc = "create_link" /\ Takes(m)
  /\ IF m.known THEN Answers(m, 0, Lid) ELSE Answers(m, 3, NoLid)
  /\ UNCHANGED written

Writes(m) == written' = Append(written, [client |-> m.client, n |-> m.n])

\* A slip: the command is passed on before the link is looked at.
DeviceWriteFirst(m) ==
  /\ m.proc = "device_write" /\ Takes(m)
  /\ Writes(m)
  /\ Answers(m, IF m.lid = Lid THEN 0 ELSE 4, NoLid)

\* A slip: a call of scpi_msg_cmd_write too many.
DeviceWriteTwice(m) ==
  /\ m.proc = "device_write" /\ Takes(m)
  /\ \/ /\ m.lid = Lid /\ Answers(m, 0, NoLid)
        /\ LET w == [client |-> m.client, n |-> m.n] IN written' = written \o <<w, w>>
     \/ m.lid # Lid /\ UNCHANGED written /\ Answers(m, 4, NoLid)

DeviceWrite(m) ==
  /\ m.proc = "device_write" /\ Takes(m)
  /\ \/ m.lid = Lid /\ Writes(m) /\ Answers(m, 0, NoLid)
     \/ m.lid # Lid /\ UNCHANGED written /\ Answers(m, 4, NoLid)

\* A slip: NULL on a wrong link, for which the dispatcher sends no answer.
DeviceReadNull(m) ==
  /\ m.proc = "device_read" /\ Takes(m)
  /\ IF m.lid = Lid THEN Answers(m, 0, NoLid) ELSE UNCHANGED answers
  /\ UNCHANGED written

\* The response ring is read for response_len = 0 bytes.  On a wrong link the last
\* result is sent once more; its error is 0 from the start.
DeviceRead(m) ==
  /\ m.proc = "device_read" /\ Takes(m)
  /\ Answers(m, 0, NoLid)
  /\ UNCHANGED written

Serve == \E m \in calls :
           Other(m) \/ CreateLink(m) \/ DeviceWrite(m) \/ DeviceRead(m)

-----------------------------------------------------------------------------
Next == \/ \E c \in Client : Call(c) \/ Repeat(c) \/ TimesOut(c)
        \/ \E a \in answers : Receives(a)
        \/ Serve

Spec == Init /\ [][Next]_vars

\* svc_run serves while there are calls; TCP delivers its answers.
ReceivesFrom(c) == \E a \in answers : a.client = c /\ Receives(a)
ServesFor(c) ==
  \E m \in calls : /\ m.client = c
                   /\ Other(m) \/ CreateLink(m) \/ DeviceWrite(m) \/ DeviceRead(m)

FairSpec == Spec /\ \A c \in Tcp : WF_vars(ServesFor(c)) /\ WF_vars(ReceivesFrom(c))

-----------------------------------------------------------------------------
(* Properties.                                                                 *)

\* The variables have their types: answers carry an error code of vxi11.h or an RPC
\* error; a call under way is one its client has made.
TypeOK ==
  /\ count \in [Client -> Nat] /\ lid \in [Client -> {Lid, NoLid}]
  /\ calls \subseteq Transmission
  /\ answers \subseteq Answer /\ accepted \subseteq Answer
  /\ open \in [Client -> Transmission \union {None}]
  /\ \A c \in Client : open[c] # None => open[c].client = c /\ open[c].n = count[c]
  /\ \A c \in Client : count[c] <= Last(c)
  /\ \A m \in calls \union answers : m.n <= count[m.client]
  /\ written \in Seq([client : Client, n : Nat \ {0}])

Executions(c, n) == Cardinality({i \in DOMAIN written : written[i] = [client |-> c, n |-> n]})

\* An answer to device_write tells the client what became of its command, whatever
\* the network did: refused means never passed to the SCPI thread, not by another
\* transmission either; accepted means passed on, and over TCP exactly once.
AnswersTellTruth ==
  \A a \in accepted :
    LET k == Executions(a.client, a.n)
    IN IF a.error = 0 THEN k >= 1 /\ (a.client \in Tcp => k = 1) ELSE k = 0

\* Commands of a TCP client reach the SCPI thread in the order of its calls and at
\* most once, also those it gave up waiting for.
TcpInOrder ==
  \A i, j \in DOMAIN written :
    i < j /\ written[i].client = written[j].client /\ written[i].client \in Tcp
      => written[i].n < written[j].n

\* Every call over TCP is answered: no handler keeps its client waiting.
TcpAnswered == \A c \in Tcp : open[c] # None ~> open[c] = None
=============================================================================
