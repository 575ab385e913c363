--------------------------- MODULE MCJsonUnicode ---------------------------
(* The four characters behind a \u, chosen one after another.               *)
EXTENDS JsonUnicode

CONSTANT Alphabet   (* the characters to choose from                        *)

VARIABLE buf

Init == buf = << >>

Read == Len(buf) < 4 /\ \E ch \in Alphabet : buf' = Append(buf, ch)

Spec == Init /\ [][Read]_buf

-----------------------------------------------------------------------------
Complete == Len(buf) = 4
AllHex   == Complete /\ \A i \in 1 .. 4 : isHex(buf[i])
IsSurrogate(codepoint) == codepoint \in 55296 .. 57343

(* An escape without a decimal digit is decoded to the bytes of the code   *)
(* point it names; what a digit does is the run on HexIsConverted.         *)
EscapeEncodes ==
  AllHex /\ (\A i \in 1 .. 4 : ~isNum(buf[i])) /\ ~IsSurrogate(Hex4Value(buf)) =>
    Encodes(utf8Encode(parseHex4(buf)), Hex4Value(buf))

(* Up to U+FFFF utf8Encode writes the one, two or three bytes of the code  *)
(* point and no others.                                                    *)
BasicPlaneEncodes ==
  AllHex /\ ~IsSurrogate(Hex4Value(buf)) =>
    Encodes(utf8Encode(Hex4Value(buf)), Hex4Value(buf))

(* parseHex4: "Convert first 4 characters of buf to a decimal              *)
(* representation".                                                        *)
HexIsConverted == AllHex => parseHex4(buf) = Hex4Value(buf)

(* utf8Encode: "Encodes a codepoint into UTF-8 encoded character(s)", for  *)
(* the code point of the pair whose low ten bits buf names.                *)
PairEncodes ==
  AllHex => LET codepoint == 65536 + Hex4Value(buf)
            IN  Encodes(utf8Encode(codepoint), codepoint)

Mixed     == {"0", "7", "8", "a", "b", "c", "d", "e", "f", "A", "D", "F", "G"}
SomeHex   == {"0", "4", "9", "A", "f"}
=============================================================================
