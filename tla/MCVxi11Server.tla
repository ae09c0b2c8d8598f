----------------------------- MODULE MCVxi11Server -----------------------------
(* Vxi11Server for TLC: a call of every procedure whose arguments all differ, so  *)
(* that none can stand for another, and the calls the handlers tell apart.        *)
EXTENDS Vxi11Server

Sample(p) ==
  LET routine == Table[p].arg
      fields  == FlattenSeq([i \in DOMAIN routine.decode |-> routine.decode[i].fields])
  IN [f \in Fields(routine) |->
        IF f \in Opaques(routine) THEN <<7, 7>> ELSE Bytes(CHOOSE i \in DOMAIN fields : fields[i] = f)]

With(p, f, v) == [proc |-> p, args |-> [Sample(p) EXCEPT ![f] = v]]

MCAsked ==
  {[proc |-> p, args |-> Sample(p)] : p \in Known \ {"destroy_intr_chan"}}
  \union {[proc |-> p, args |-> <<>>] : p \in {"destroy_intr_chan", "NULLPROC", "unknown"}}
  \union {With("create_link", "device", Inst0), With("device_write", "lid", Lid),
          With("device_read", "lid", Lid), With("device_write", "data", <<>>),
          With("device_enable_srq", "handle", [i \in 1 .. 41 |-> 1])}
=============================================================================
