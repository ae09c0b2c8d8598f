------------------------------ MODULE Vxi11Server ------------------------------
(* The stand-alone VXI-11 server (src/vxi11_server): one thread in svc_run takes  *)
(* a call, decodes its arguments, calls the handler, sends the handler's static   *)
(* result and frees the arguments.  External: ONC RPC, and a client that has one  *)
(* call open and encodes and decodes with the routines of the same vxi11.x.       *)
EXTENDS Xdr

CONSTANTS Asked,   \* the calls: a procedure and arguments that fit its routine
          Cut,     \* how many units of a call may be missing at its end
          None

Lid == <<3000>>
Inst0 == <<105, 48>>        \* "inst0", shortened
device_info == <<85, 78>>   \* "UNI_T,UPO3000,UPO3000CS,0.1", shortened

VARIABLES call,     \* the client's open call, or None
          wire,     \* a call on its way: its procedure and arguments, or None
          stage,    \* of the server
          proc,     \* rq_proc of the call it works on, or None
          args, memory,  \* the decoded arguments; those in memory of their own
          result,   \* the static results of the handlers, by procedure
          returned, \* what the handler returned for this call, or None: NULL
          reply     \* the answer on its way, or None

vars == <<call, wire, stage, proc, args, memory, result, returned, reply>>

-----------------------------------------------------------------------------
(* The dispatch tables: the procedures of the three programs.                  *)

Row(arg, res) == [arg |-> arg, res |-> res]

device_async_1 == [device_abort |-> Row(xdr_Device_Link, xdr_Device_Error)]

device_core_1 ==
  [create_link       |-> Row(xdr_Create_LinkParms, xdr_Create_LinkResp),
   device_write      |-> Row(xdr_Device_WriteParms, xdr_Device_WriteResp),
   device_read       |-> Row(xdr_Device_ReadParms, xdr_Device_ReadResp),
   device_readstb    |-> Row(xdr_Device_GenericParms, xdr_Device_ReadStbResp),
   device_trigger    |-> Row(xdr_Device_GenericParms, xdr_Device_Error),
   device_clear      |-> Row(xdr_Device_GenericParms, xdr_Device_Error),
   device_remote     |-> Row(xdr_Device_GenericParms, xdr_Device_Error),
   device_local      |-> Row(xdr_Device_GenericParms, xdr_Device_Error),
   device_lock       |-> Row(xdr_Device_LockParms, xdr_Device_Error),
   device_unlock     |-> Row(xdr_Device_Link, xdr_Device_Error),
   device_enable_srq |-> Row(xdr_Device_EnableSrqParms, xdr_Device_Error),
   device_docmd      |-> Row(xdr_Device_DocmdParms, xdr_Device_DocmdResp),
   destroy_link      |-> Row(xdr_Device_Link, xdr_Device_Error),
   create_intr_chan  |-> Row(xdr_Device_RemoteFunc, xdr_Device_Error),
   destroy_intr_chan |-> Row(xdr_void, xdr_Device_Error)]

device_intr_1 == [device_intr_srq |-> Row(xdr_Device_SrqParms, xdr_void)]

Table == Joined(device_async_1, Joined(device_core_1, device_intr_1))
Known == DOMAIN Table

Fields(routine) == UNION {Range(step.fields) : step \in Range(routine.decode)}
Opaques(routine) ==
  UNION {Range(step.fields) : step \in {s \in Range(routine.decode) : s.kind = "bytes"}}
Zero(routine) ==
  [f \in Fields(routine) |-> IF f \in Opaques(routine) THEN <<>> ELSE Bytes(0)]

\* What a routine is given to code: a length takes one unit.
Values(routine) ==
  {v \in [Fields(routine) -> Seq(Nat)] : \A f \in Opaques(routine) : Len(v[f]) <= NoLimit}

\* None is no call, message, result or answer.
ASSUME Vxi11ServerAssumption ==
  /\ Cut \subseteq Nat
  /\ \A m \in Asked : m.proc \in Known => m.args \in Values(Table[m.proc].arg)
  /\ LET P == {m.proc : m \in Asked}
     IN /\ None \notin [proc : P, args : {m.args : m \in Asked}, cut : Cut]
        /\ None \notin [proc : P, units : Seq(Seq(Nat))]
        /\ None \notin [status : {"ok", "noproc", "decode", "systemerr"}, proc : P,
                       body : Seq(Seq(Nat))]
  /\ \A p \in Known : None \notin Values(Table[p].res)

Init ==
  /\ call = None /\ wire = None /\ stage = "idle" /\ proc = None
  /\ args = <<>> /\ memory = {} /\ returned = None /\ reply = None
  /\ result = [p \in Known |-> Zero(Table[p].res)]

-----------------------------------------------------------------------------
(* The client.                                                                 *)

Calls(m, cut, way) ==
  /\ call = None /\ wire = None
  /\ call' = [proc |-> m.proc, args |-> m.args, cut |-> cut]
  /\ LET whole == IF m.proc \in Known THEN Encode(Table[m.proc].arg, m.args, way) ELSE <<>>
     IN /\ cut <= Len(whole)
        /\ wire' = [proc |-> m.proc, units |-> SubSeq(whole, 1, Len(whole) - cut)]
  /\ UNCHANGED <<stage, proc, args, memory, result, returned, reply>>

TakesReply ==
  /\ reply # None /\ reply' = None /\ call' = None /\ returned' = None
  /\ UNCHANGED <<wire, stage, proc, args, memory, result>>

-----------------------------------------------------------------------------
(* The server.                                                                 *)

Replies(status, p, body) == reply' = [status |-> status, proc |-> p, body |-> body]

\* The arguments are a local variable: what a failed decoding has left is forgotten.
Dispatch ==
  /\ stage = "idle" /\ wire # None /\ memory' = {}
  /\ \/ /\ wire.proc \in Known /\ stage' = "getargs" /\ proc' = wire.proc
        /\ UNCHANGED <<wire, reply>>
     \/ /\ wire.proc \notin Known /\ wire' = None
        /\ Replies(IF wire.proc = "NULLPROC" THEN "ok" ELSE "noproc", wire.proc, <<>>)
        /\ UNCHANGED <<stage, proc>>
  /\ UNCHANGED <<call, args, result, returned>>

GetArgs(way) ==
  /\ stage = "getargs" /\ wire' = None
  /\ LET s == Decode(Table[proc].arg, wire.units, way)
     IN /\ memory' = s.memory
        /\ \/ s.ok /\ stage' = "handle" /\ args' = s.value /\ UNCHANGED <<proc, reply>>
           \/ /\ ~s.ok /\ stage' = "idle" /\ args' = <<>> /\ proc' = None
              /\ Replies("decode", proc, <<>>)
  /\ UNCHANGED <<call, result, returned>>

create_link_1_svc ==
  IF args.device = Inst0
  THEN [error |-> Bytes(0), lid |-> Lid, abortPort |-> Bytes(666), maxRecvSize |-> Bytes(1024)]
  ELSE [error |-> Bytes(3), lid |-> Bytes(0), abortPort |-> Bytes(666), maxRecvSize |-> Bytes(1024)]

\* The command goes nowhere.
device_write_1_svc ==
  [error |-> Bytes(IF args.lid = Lid THEN 0 ELSE 4), size |-> Bytes(Len(args.data))]

\* On a wrong link the last result is returned once more.
device_read_1_svc ==
  IF args.lid # Lid THEN result.device_read
  ELSE [error |-> Bytes(0), reason |-> Bytes(4), data |-> device_info]

Result == CASE proc = "create_link"  -> create_link_1_svc
            [] proc = "device_write" -> device_write_1_svc
            [] proc = "device_read"  -> device_read_1_svc
            [] OTHER -> result[proc]

\* A slip: device_intr_srq_1_svc returns its result, which is NULL, not its address.
HandleNull ==
  /\ stage = "handle" /\ stage' = "reply"
  /\ result' = [result EXCEPT ![proc] = Result]
  /\ returned' = IF proc = "device_intr_srq" THEN None ELSE Result
  /\ UNCHANGED <<call, wire, proc, args, memory, reply>>

Handle ==
  /\ stage = "handle" /\ stage' = "reply"
  /\ result' = [result EXCEPT ![proc] = Result] /\ returned' = Result
  /\ UNCHANGED <<call, wire, proc, args, memory, reply>>

\* No answer to NULL.  A result that cannot be sent is answered with an error.
SendReply(way) ==
  /\ stage = "reply" /\ stage' = "freeargs"
  /\ IF returned = None THEN UNCHANGED reply
     ELSE \/ Replies("ok", proc, Encode(Table[proc].res, returned, way))
          \/ Replies("systemerr", proc, <<>>)
  /\ UNCHANGED <<call, wire, proc, args, memory, result, returned>>

FreeArgs ==
  /\ stage = "freeargs" /\ stage' = "idle" /\ memory' = memory \ Frees(Table[proc].arg)
  /\ args' = <<>> /\ proc' = None
  /\ UNCHANGED <<call, wire, result, returned, reply>>

svc_run == \/ Dispatch \/ (\E way \in Way : GetArgs(way)) \/ Handle
           \/ (\E way \in Way : SendReply(way)) \/ FreeArgs

Next == \/ \E m \in Asked, cut \in Cut, way \in Way : Calls(m, cut, way)
        \/ TakesReply \/ svc_run

Spec == Init /\ [][Next]_vars

-----------------------------------------------------------------------------
\* A handler is called for the procedure the client named, with every argument as
\* the client has it, whichever of the two sides coded in place (XDR_INLINE) and
\* which one by one; never for a call of which a part is missing.
HandlerGetsWhatWasSent ==
  stage = "handle" => proc = call.proc /\ args = call.args

\* The client decodes from an answer exactly what the handler returned for its call,
\* and a refusal is the one its call has earned.
ClientGetsResult ==
  reply # None =>
    CASE reply.status = "noproc" -> call.proc \notin Known
      [] reply.status = "decode" ->
           call.cut > 0 \/ (call.proc = "device_enable_srq" /\ Len(call.args.handle) > 40)
      [] reply.status = "ok" /\ reply.proc \in Known ->
           \A way \in Way :
             LET s == Decode(Table[call.proc].res, reply.body, way)
             IN s.ok /\ s.value = returned /\ s.at = Len(reply.body)
      [] OTHER -> TRUE

\* Between two calls no argument is left in memory, unless the call could not be
\* decoded: that one is never freed.
ArgumentsAreFreed ==
  (stage = "idle" /\ memory # {} /\ reply # None) => reply.status = "decode"

\* When svc_run waits for the next call the last one has been answered, be it with a
\* result, with an error, or for a call without a result: no client waits for ever.
CallsAreAnswered ==
  (stage = "idle" /\ wire = None /\ call # None) => reply # None
=============================================================================
