------------------------------ MODULE UsbString ------------------------------
(* String descriptors (usbstring.c): the conversion of the table's UTF-8 strings *)
(* to UTF-16.  A C string is the sequence of its bytes without the final 0.      *)
EXTENDS Integers, Sequences

CONSTANT MaxUnits   \* the units of a descriptor at most: 126

\* The descriptor's length is one byte.
ASSUME MaxUnitsAssumption == MaxUnits \in Nat /\ (MaxUnits + 1) * 2 <= 255

Fail == <<-1>>   \* a conversion that failed; no text holds a negative number

At(s, i) == IF i <= Len(s) THEN s[i] ELSE 0

\* The test of a byte that continues a character: (c & 0xc0) == 0xc0.
Continues(c) == c \div 64 = 3

Surrogate(u) == 55296 <= u /\ u <= 57343

\* The character at i: the positions it takes and its UTF-16 unit, or Fail.
Char(s, i) ==
  LET c == s[i]  d == At(s, i + 1)  e == At(s, i + 2)
      two   == (c % 32) * 64 + (d % 64)
      three == (c % 16) * 4096 + (d % 64) * 64 + (e % 64)
  IN CASE c < 128 -> <<1, c>>
       [] c \div 32 = 6 /\ Continues(d) -> <<2, two>>
       [] c \div 16 = 14 /\ Continues(d) /\ Continues(e) /\ ~Surrogate(three) -> <<3, three>>
       [] OTHER -> Fail

\* One character more, as long as there is one and none has failed.
NextChar(s, text) ==
  IF text.units = Fail \/ text.at > Len(s) THEN text
  ELSE LET c == Char(s, text.at)
       IN IF c = Fail THEN [text EXCEPT !.units = Fail]
          ELSE [at |-> text.at + c[1], units |-> Append(text.units, c[2])]

\* Ends at the C string's end or after len units.
Reading(s, len) ==
  LET read[i \in 0 .. len] ==
        IF i = 0 THEN [at |-> 1, units |-> <<>>] ELSE NextChar(s, read[i - 1])
  IN read

utf8_to_utf16le(s, len) == Reading(s, len)[len].units

\* A slip: a text of any length.
usb_gadget_get_long_string(s) == utf8_to_utf16le(s, Len(s))

\* The text of the descriptor, or Fail: -EINVAL.
usb_gadget_get_string(s) ==
  utf8_to_utf16le(s, IF Len(s) > MaxUnits THEN MaxUnits ELSE Len(s))

DescriptorLength(text) == (Len(text) + 1) * 2

-----------------------------------------------------------------------------
(* The reference: UTF-8 of a text, a sequence of characters of 16 bits.        *)

Unit == 1 .. 65535

Utf8Char(u) ==
  IF u < 128 THEN <<u>>
  ELSE IF u < 2048 THEN <<192 + u \div 64, 128 + (u % 64)>>
  ELSE <<224 + u \div 4096, 128 + ((u \div 64) % 64), 128 + (u % 64)>>

Writing(text) ==
  LET bytes[i \in 0 .. Len(text)] ==
        IF i = 0 THEN <<>> ELSE bytes[i - 1] \o Utf8Char(text[i])
  IN bytes

Utf8(text) == Writing(text)[Len(text)]
=============================================================================
