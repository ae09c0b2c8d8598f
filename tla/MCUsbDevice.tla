------------------------------ MODULE MCUsbDevice ------------------------------
(* UsbDevice for TLC: the strings of the table, shortened, a long one, and a host that sends *)
(* each kind of request, well-formed and not.                                    *)
EXTENDS UsbDevice, TLC

MCText == (1 :> <<82>> @@ 2 :> <<83, 67>> @@ 3 :> <<49, 50, 51>> @@ 4 :> <<>> @@ 5 :> <<84>>
           @@ 6 :> [i \in 1 .. MaxUnits + 3 |-> 66])

\* The same with a micro sign and a character of three bytes.
MCTextWide == MCText @@ (7 :> <<181, 86>> @@ 8 :> <<20013>>)

R(type, request, value, index, length) ==
  [type |-> type, request |-> request, value |-> value, index |-> index, length |-> length]

StringRequests ==
  {R(128, GetDescriptor, 3 * 256 + id, lang, n) :
     id \in {0, 2, 4, 7, 8}, lang \in {Language}, n \in {5, 255}}
  \union {R(128, GetDescriptor, 3 * 256 + id, 0, 255) : id \in {0, 1}}
  \union {R(128, GetDescriptor, 3 * 256 + 6, Language, 255)}

MCAsked ==
  StringRequests \union
  {R(128, GetDescriptor, 256, 0, 18), R(129, GetDescriptor, 768, 0, 9),
   R(0, SetConfiguration, 0, 0, 0), R(0, SetConfiguration, 1, 0, 0),
   R(0, SetConfiguration, 2, 0, 0), R(1, SetConfiguration, 1, 0, 0),
   R(129, GetInterface, 0, 0, 1), R(129, GetInterface, 0, 1, 1), R(129, GetInterface, 0, 0, 2),
   R(1, SetInterface, 0, 0, 0), R(1, SetInterface, 1, 0, 0), R(1, SetInterface, 0, 1, 0),
   R(128, 0, 0, 0, 2)}
  \union {R(161, q, 0, 0, 24) : q \in {InitiateClear, CheckClear, GetCapabilities,
                                       IndicatorPulse, 9}}
  \union {R(162, q, 0, 1, 8) : q \in 1 .. 5}

MCGarbage == <<0>>
=============================================================================
