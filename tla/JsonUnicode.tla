---------------------------- MODULE JsonUnicode ----------------------------
(***************************************************************************)
(* parseHex4 and utf8Encode.  An unsigned int is kept as the integer of    *)
(* the same residue modulo 2^32 that C's arithmetic reaches, so one that   *)
(* wrapped below zero is negative here and above 0xFFFF in C.              *)
(***************************************************************************)
EXTENDS JsonChars

INT_MAX == 2147483647

(* Mutant of parseHex4: the digits are taken from the right.               *)
parseHex4Reversed(buf) ==
  IF \A i \in 1 .. 4 : isHex(buf[i])
  THEN 4096 * toHex(buf[4]) + 256 * toHex(buf[3])
         + 16 * toHex(buf[2]) + toHex(buf[1])
  ELSE INT_MAX

(* buf: four characters.  The isHex(ch) inside isHex(ch) always holds.     *)
parseHex4(buf) ==
  IF \A i \in 1 .. 4 : isHex(buf[i])
  THEN 4096 * toHex(buf[1]) + 256 * toHex(buf[2])
         + 16 * toHex(buf[3]) + toHex(buf[4])
  ELSE INT_MAX

(* The low eight bits of codepoint >> shift, with the high bits set that   *)
(* the code's `|' sets.                                                    *)
Bits(codepoint, shift, width) == (codepoint \div shift) % width

Lead(mark, codepoint, shift)  == mark + Bits(codepoint, shift, 256 - mark)
Continuation(codepoint, shift) == 128 + Bits(codepoint, shift, 64)

(* Mutant of utf8Encode: two bytes for the first code point of three.      *)
utf8EncodeShort(codepoint) ==
  IF codepoint \in 0 .. 127 THEN <<codepoint>>
  ELSE IF codepoint \in 128 .. 2048
    THEN <<Lead(192, codepoint, 64), Continuation(codepoint, 1)>>
  ELSE <<Lead(224, codepoint, 4096), Continuation(codepoint, 64),
         Continuation(codepoint, 1)>>

(* Bytes utf8Encode appends.                                               *)
utf8Encode(codepoint) ==
  IF codepoint \in 0 .. 127 THEN <<codepoint>>
  ELSE IF codepoint \in 128 .. 2047
    THEN <<Lead(192, codepoint, 64), Continuation(codepoint, 1)>>
  ELSE IF codepoint \in 2048 .. 65535
    THEN <<Lead(224, codepoint, 4096), Continuation(codepoint, 64),
           Continuation(codepoint, 1)>>
  ELSE <<Lead(224, codepoint, 262144), Continuation(codepoint, 4096),
         Continuation(codepoint, 64), Continuation(codepoint, 1)>>

-----------------------------------------------------------------------------
(* Reference: what RFC 8259 and RFC 3629 say an escape stands for.         *)

HexValue(ch) == IF isNum(ch) THEN toInt(ch) ELSE toHex(ch)

Hex4Value(buf) ==
  4096 * HexValue(buf[1]) + 256 * HexValue(buf[2])
    + 16 * HexValue(buf[3]) + HexValue(buf[4])

(* The code point a UTF-8 byte sequence encodes.                           *)
Decode(bytes) ==
  CASE Len(bytes) = 1 -> bytes[1]
    [] Len(bytes) = 2 -> (bytes[1] - 192) * 64 + (bytes[2] - 128)
    [] Len(bytes) = 3 -> (bytes[1] - 224) * 4096 + (bytes[2] - 128) * 64
                           + (bytes[3] - 128)
    [] OTHER -> (bytes[1] - 240) * 262144 + (bytes[2] - 128) * 4096
                  + (bytes[3] - 128) * 64 + (bytes[4] - 128)

IsContinuation(byte) == byte \in 128 .. 191

WellFormed(bytes) ==
  /\ bytes[1] \in CASE Len(bytes) = 1 -> 0 .. 127
                    [] Len(bytes) = 2 -> 194 .. 223
                    [] Len(bytes) = 3 -> 224 .. 239
                    [] OTHER -> 240 .. 244
  /\ \A i \in 2 .. Len(bytes) : IsContinuation(bytes[i])

Encodes(bytes, codepoint) == WellFormed(bytes) /\ Decode(bytes) = codepoint
=============================================================================
