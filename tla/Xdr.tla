---------------------------------- MODULE Xdr ----------------------------------
(* The XDR routines of the VXI-11 messages (vxi11_xdr.c).  A routine lists its    *)
(* fields, for each of XDR's three operations anew where rpcgen's output does.    *)
(* A message is a sequence of units; a unit, a length and the bytes of opaque     *)
(* data (padding included) are sequences of numbers.                              *)
EXTENDS Integers, Sequences, FiniteSets, FiniteSetsExt, SequencesExt

U(f) == [kind |-> "unit", fields |-> <<f>>, n |-> 1, max |-> 0]

\* XDR_INLINE of n units, with IXDR_PUT or IXDR_GET of the fields one after another;
\* where XDR_INLINE returns NULL they are done one by one.
Block(n, fields) == [kind |-> "block", fields |-> fields, n |-> n, max |-> 0]

\* xdr_bytes and xdr_string
NoLimit == 2 ^ 30
Opaque(f, max) == [kind |-> "bytes", fields |-> <<f>>, n |-> 2, max |-> max]

Same(steps) == [encode |-> steps, decode |-> steps, free |-> steps]

-----------------------------------------------------------------------------
(* Putting and getting.                                                        *)

\* A block is coded in place where XDR_INLINE has returned its memory.
Way == {"in place", "one by one"}

Bytes(n) == <<n>>
Puts(value, step, way) ==
  IF step.kind = "bytes"
  THEN LET d == value[step.fields[1]] IN <<Bytes(Len(d)), d>>
  ELSE LET units == [i \in DOMAIN step.fields |-> value[step.fields[i]]]
       IN IF step.kind = "unit" \/ way # "in place" THEN units
          ELSE [i \in 1 .. step.n |-> IF i <= Len(units) THEN units[i] ELSE <<>>]

\* The units after each step.
Encoding(routine, value, way) ==
  LET put[i \in 0 .. Len(routine.encode)] ==
        IF i = 0 THEN <<>> ELSE put[i - 1] \o Puts(value, routine.encode[i], way)
  IN put

Encode(routine, value, way) == Encoding(routine, value, way)[Len(routine.encode)]

\* Decoding: how far it is, the value so far, the fields with memory of their own,
\* whether it has failed.  A string's memory is allocated before its bytes are read.
Start == [at |-> 0, value |-> <<>>, memory |-> {}, ok |-> TRUE]

\* The fields of new, and the others of old.
Joined(new, old) ==
  [f \in DOMAIN new \union DOMAIN old |-> IF f \in DOMAIN new THEN new[f] ELSE old[f]]

Gets(wire, step, way, s) ==
  LET left == Len(wire) - s.at
      f    == step.fields[1]
  IN IF ~s.ok THEN s
     ELSE IF step.kind = "bytes" THEN
       IF left < 1 \/ wire[s.at + 1] = <<>> THEN [s EXCEPT !.ok = FALSE]
       ELSE IF wire[s.at + 1][1] > step.max THEN [s EXCEPT !.ok = FALSE]
       ELSE IF left < 2 THEN [s EXCEPT !.ok = FALSE, !.memory = @ \union {f}]
       ELSE [at |-> s.at + 2, value |-> Joined([x \in {f} |-> wire[s.at + 2]], s.value),
             memory |-> s.memory \union {f}, ok |-> TRUE]
     ELSE
       LET n == IF way = "in place" THEN step.n ELSE Len(step.fields)
       IN IF left < Len(step.fields) THEN [s EXCEPT !.ok = FALSE]
          ELSE [s EXCEPT !.at = @ + n,
                  !.value = Joined([g \in Range(step.fields) |->
                    wire[s.at + (CHOOSE i \in DOMAIN step.fields : step.fields[i] = g)]], @)]

Decoding(routine, wire, way) ==
  LET got[i \in 0 .. Len(routine.decode)] ==
        IF i = 0 THEN Start ELSE Gets(wire, routine.decode[i], way, got[i - 1])
  IN got

Decode(routine, wire, way) == Decoding(routine, wire, way)[Len(routine.decode)]

\* XDR_FREE: the memory it gives back.
Frees(routine) ==
  {routine.free[i].fields[1] : i \in {k \in DOMAIN routine.free : routine.free[k].kind = "bytes"}}

-----------------------------------------------------------------------------
(* The routines.                                                               *)

xdr_void == Same(<<>>)
xdr_Device_Link  == Same(<<U("lid")>>)
xdr_Device_Error == Same(<<U("error")>>)

\* A slip: a field is missing in the inline block's size.
xdr_Create_LinkParms_short ==
  LET steps == <<Block(2, <<"clientId", "lockDevice", "lock_timeout">>), Opaque("device", NoLimit)>>
  IN [Same(steps) EXCEPT !.encode[1].n = 3]

xdr_Create_LinkParms ==
  [encode |-> <<Block(3, <<"clientId", "lockDevice", "lock_timeout">>), Opaque("device", NoLimit)>>,
   decode |-> <<Block(3, <<"clientId", "lockDevice", "lock_timeout">>), Opaque("device", NoLimit)>>,
   free   |-> <<U("clientId"), U("lockDevice"), U("lock_timeout"), Opaque("device", NoLimit)>>]

xdr_Create_LinkResp == Same(<<U("error"), U("lid"), U("abortPort"), U("maxRecvSize")>>)

xdr_Device_WriteParms ==
  Same(<<U("lid"), U("io_timeout"), U("lock_timeout"), U("flags"), Opaque("data", NoLimit)>>)
xdr_Device_WriteResp == Same(<<U("error"), U("size")>>)

xdr_Device_ReadParms ==
  [encode |-> <<U("lid"), Block(3, <<"requestSize", "io_timeout", "lock_timeout">>),
                U("flags"), U("termChar")>>,
   decode |-> <<U("lid"), Block(3, <<"requestSize", "io_timeout", "lock_timeout">>),
                U("flags"), U("termChar")>>,
   free   |-> <<U("lid"), U("requestSize"), U("io_timeout"), U("lock_timeout"),
                U("flags"), U("termChar")>>]

\* A slip: the reason is not sent.
xdr_Device_ReadResp_short ==
  [Same(<<U("error"), U("reason"), Opaque("data", NoLimit)>>)
     EXCEPT !.encode = <<U("error"), Opaque("data", NoLimit)>>]

xdr_Device_ReadResp    == Same(<<U("error"), U("reason"), Opaque("data", NoLimit)>>)
xdr_Device_ReadStbResp == Same(<<U("error"), U("stb")>>)
xdr_Device_GenericParms == Same(<<U("lid"), U("flags"), U("lock_timeout"), U("io_timeout")>>)

xdr_Device_RemoteFunc ==
  [encode |-> <<Block(4, <<"hostAddr", "hostPort", "progNum", "progVers">>), U("progFamily")>>,
   decode |-> <<Block(4, <<"hostAddr", "hostPort", "progNum", "progVers">>), U("progFamily")>>,
   free   |-> <<U("hostAddr"), U("hostPort"), U("progNum"), U("progVers"), U("progFamily")>>]

xdr_Device_EnableSrqParms == Same(<<U("lid"), U("enable"), Opaque("handle", 40)>>)
xdr_Device_LockParms      == Same(<<U("lid"), U("flags"), U("lock_timeout")>>)

\* A slip: the data are not freed.
xdr_Device_DocmdParms_leak ==
  LET steps == <<U("lid"), U("flags"),
                 Block(5, <<"io_timeout", "lock_timeout", "cmd", "network_order", "datasize">>),
                 Opaque("data_in", NoLimit)>>
  IN [Same(steps) EXCEPT !.free = <<U("lid")>>]

xdr_Device_DocmdParms ==
  [encode |-> <<U("lid"), U("flags"),
                Block(5, <<"io_timeout", "lock_timeout", "cmd", "network_order", "datasize">>),
                Opaque("data_in", NoLimit)>>,
   decode |-> <<U("lid"), U("flags"),
                Block(5, <<"io_timeout", "lock_timeout", "cmd", "network_order", "datasize">>),
                Opaque("data_in", NoLimit)>>,
   free   |-> <<U("lid"), U("flags"), U("io_timeout"), U("lock_timeout"), U("cmd"),
                U("network_order"), U("datasize"), Opaque("data_in", NoLimit)>>]

xdr_Device_DocmdResp == Same(<<U("error"), Opaque("data_out", NoLimit)>>)
xdr_Device_SrqParms  == Same(<<Opaque("handle", NoLimit)>>)
=============================================================================
