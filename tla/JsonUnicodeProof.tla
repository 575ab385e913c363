-------------------------- MODULE JsonUnicodeProof --------------------------
(***************************************************************************)
(* The bytes that parseHex4 and utf8Encode make of an escape, for any four *)
(* characters: what the shifts and masks leave is what RFC 3629 says.      *)
(***************************************************************************)
EXTENDS MCJsonUnicode, JsonCursorProof

(* The bytes of a code point with seven, eleven, sixteen and more bits.    *)
LEMMA BytesChosen ==
  ASSUME NEW cp \in Nat
  PROVE  /\ cp <= 127 => utf8Encode(cp) = <<cp>>
         /\ cp > 127 /\ cp <= 2047 => utf8Encode(cp) = <<Lead(192, cp, 64), Continuation(cp, 1)>>
         /\ cp > 2047 /\ cp <= 65535 =>
              utf8Encode(cp) = <<Lead(224, cp, 4096), Continuation(cp, 64), Continuation(cp, 1)>>
         /\ cp > 65535 =>
              utf8Encode(cp) = <<Lead(224, cp, 262144), Continuation(cp, 4096),
                                 Continuation(cp, 64), Continuation(cp, 1)>>
<1> DEFINE s1 == <<cp>>
           s2 == <<Lead(192, cp, 64), Continuation(cp, 1)>>
           s3 == <<Lead(224, cp, 4096), Continuation(cp, 64), Continuation(cp, 1)>>
           s4 == <<Lead(224, cp, 262144), Continuation(cp, 4096),
                   Continuation(cp, 64), Continuation(cp, 1)>>
           S  == 2048 .. 65535
           u  == utf8Encode(cp)
<1>1. u = IF cp \in 0 .. 127 THEN s1
          ELSE IF cp \in 128 .. 2047 THEN s2
          ELSE IF cp \in S THEN s3 ELSE s4
  BY SMT DEF utf8Encode
<1>2. cp \in S <=> cp > 2047 /\ cp <= 65535
  BY SMT
<1> HIDE DEF s1, s2, s3, s4, S, u
<1>3. /\ cp <= 127 => u = s1
      /\ cp > 127 /\ cp <= 2047 => u = s2
      /\ cp > 2047 /\ cp <= 65535 => u = s3
      /\ cp > 65535 => u = s4
  BY <1>1, <1>2, SMT
<1> QED BY <1>3, SMT DEF u, s1, s2, s3, s4

(* The shifts and masks: the low six bits of a number, and the others.     *)
LEMMA SixBits ==
  ASSUME NEW n \in Nat
  PROVE  \E q \in Nat, r \in 0 .. 63 : n = 64 * q + r /\ n \div 64 = q /\ n % 64 = r
<1>1. n \div 64 \in Nat /\ n % 64 \in 0 .. 63
  BY SMT
<1>2. n % 64 = n - 64 * (n \div 64)
  BY SMT
<1> QED BY <1>1, <1>2, SMT

(* That two, and three, bytes encode a code point.                         *)
TwoEncode(cp) == Encodes(<<Lead(192, cp, 64), Continuation(cp, 1)>>, cp)
ThreeEncode(cp) ==
  Encodes(<<Lead(224, cp, 4096), Continuation(cp, 64), Continuation(cp, 1)>>, cp)

(* Up to U+07FF the two bytes do.                                          *)
LEMMA TwoBytes ==
  ASSUME NEW cp \in Nat, cp > 127, cp <= 2047
  PROVE  TwoEncode(cp)
<1>0. PICK q \in Nat, r \in 0 .. 63 : cp = 64 * q + r /\ cp \div 64 = q /\ cp % 64 = r
  BY SixBits, SMT
<1>1. q \in 2 .. 31 /\ q % 64 = q
  BY <1>0, SMT
<1>2. /\ Lead(192, cp, 64) = 192 + ((cp \div 64) % 64)
      /\ Continuation(cp, 1) = 128 + (cp % 64)
  <2>1. cp \div 1 = cp /\ 256 - 192 = 64
    BY SMT
  <2> QED BY <2>1, SMT DEF Continuation, Lead, Bits
<1> DEFINE b1 == Lead(192, cp, 64)
           b2 == Continuation(cp, 1)
<1>3. b1 = 192 + q /\ b2 = 128 + r
  BY <1>0, <1>1, <1>2, SMT
<1> HIDE DEF b1, b2
<1>4. Encodes(<<b1, b2>>, cp)
  BY <1>0, <1>1, <1>3, SMT DEF Encodes, WellFormed, Decode, IsContinuation
<1> QED BY <1>4, SMT DEF b1, b2, TwoEncode

(* Up to U+FFFF the three bytes do.                                        *)
LEMMA ThreeBytes ==
  ASSUME NEW cp \in Nat, cp > 2047, cp <= 65535
  PROVE  ThreeEncode(cp)
<1>0. PICK q \in Nat, r \in 0 .. 63 : cp = 64 * q + r /\ cp \div 64 = q /\ cp % 64 = r
  BY SixBits, SMT
<1>1. PICK p \in Nat, t \in 0 .. 63 : q = 64 * p + t /\ q \div 64 = p /\ q % 64 = t
  BY SixBits, SMT
<1>2. p \in 0 .. 15
  BY <1>0, <1>1, SMT
<1>2a. p % 32 = p
  BY <1>2, SMT
<1>3. /\ Lead(224, cp, 4096) = 224 + (((cp \div 64) \div 64) % 32)
      /\ Continuation(cp, 64) = 128 + ((cp \div 64) % 64)
      /\ Continuation(cp, 1) = 128 + (cp % 64)
  <2>1. cp \div 1 = cp /\ 256 - 192 = 64 /\ 256 - 224 = 32
    BY SMT
  <2>2. cp \div 4096 = (cp \div 64) \div 64
    BY SMT
  <2> QED BY <2>1, <2>2, SMT DEF Continuation, Lead, Bits
<1> DEFINE b1 == Lead(224, cp, 4096)
           b2 == Continuation(cp, 64)
           b3 == Continuation(cp, 1)
<1>4. b1 = 224 + p /\ b2 = 128 + t /\ b3 = 128 + r
  <2>1. b1 = 224 + ((q \div 64) % 32) /\ b2 = 128 + (q % 64) /\ b3 = 128 + r
    BY <1>0, <1>3, SMT
  <2> QED BY <2>1, <1>1, <1>2a, SMT
<1> HIDE DEF b1, b2, b3
<1>5. cp = (b1 - 224) * 4096 + (b2 - 128) * 64 + (b3 - 128)
  BY <1>0, <1>1, <1>2, <1>4, SMT
<1>5a. b1 \in 224 .. 239 /\ b2 \in 128 .. 191 /\ b3 \in 128 .. 191
  BY <1>2, <1>4, SMT
<1>6. Encodes(<<b1, b2, b3>>, cp)
  BY <1>5, <1>5a, SMT DEF Encodes, WellFormed, Decode, IsContinuation
<1> QED BY <1>6, SMT DEF b1, b2, b3, ThreeEncode

(* So up to U+FFFF utf8Encode writes what RFC 3629 says.                   *)
LEMMA PlaneWritten ==
  ASSUME NEW cp \in Nat, cp <= 65535
  PROVE  Encodes(utf8Encode(cp), cp)
<1> DEFINE s1 == <<cp>>
           s2 == <<Lead(192, cp, 64), Continuation(cp, 1)>>
           s3 == <<Lead(224, cp, 4096), Continuation(cp, 64), Continuation(cp, 1)>>
           u  == utf8Encode(cp)
<1>1. cp <= 127 => Encodes(s1, cp)
  BY SMT DEF Encodes, WellFormed, Decode, IsContinuation
<1>3. cp > 127 /\ cp <= 2047 => Encodes(s2, cp)
  BY TwoBytes, SMT DEF TwoEncode
<1>5. cp > 2047 => Encodes(s3, cp)
  BY ThreeBytes, SMT DEF ThreeEncode
<1>6. /\ cp <= 127 => u = s1
      /\ cp > 127 /\ cp <= 2047 => u = s2
      /\ cp > 2047 => u = s3
  <2> DEFINE s4 == <<Lead(224, cp, 262144), Continuation(cp, 4096),
                     Continuation(cp, 64), Continuation(cp, 1)>>
             S  == 2048 .. 65535
  <2>1. u = IF cp \in 0 .. 127 THEN s1
            ELSE IF cp \in 128 .. 2047 THEN s2
            ELSE IF cp \in S THEN s3 ELSE s4
    BY SMT DEF utf8Encode
  <2>2. cp \in S <=> cp > 2047
    BY SMT
  <2> HIDE DEF s1, s2, s3, s4, S, u
  <2> QED BY <2>1, <2>2, SMT
<1> HIDE DEF s1, s2, s3, u
<1>7. Encodes(u, cp)
  BY <1>1, <1>3, <1>5, <1>6, SMT
<1> QED BY <1>7, SMT DEF u

(* Behind it, utf8Encode writes these four bytes.                          *)
FourAre(cp) ==
  utf8Encode(cp) = <<Lead(224, cp, 262144), Continuation(cp, 4096),
                     Continuation(cp, 64), Continuation(cp, 1)>>

(* The last case of utf8Encode, as one fact.                               *)
LEMMA FourWritten ==
  ASSUME NEW cp \in Nat, cp > 65535
  PROVE  FourAre(cp)
BY BytesChosen, SMT DEF FourAre

(* The first of the four is 224 or a little more, where RFC 3629 has 240.  *)
LEMMA AstralMiswritten ==
  ASSUME NEW cp \in Nat, cp > 65535, cp <= 1114111
  PROVE ~Encodes(utf8Encode(cp), cp)
<1> DEFINE u  == utf8Encode(cp)
           b1 == Lead(224, cp, 262144)
           b2 == Continuation(cp, 4096)
           b3 == Continuation(cp, 64)
           b4 == Continuation(cp, 1)
<1>0. cp \div 262144 \in 0 .. 4
  BY SMT
<1>1. b1 = 224 + ((cp \div 262144) % 32)
  <2>1. 256 - 224 = 32
    BY SMT
  <2> QED BY <2>1, SMT DEF Lead, Bits
<1>2. b1 \in 224 .. 228
  BY <1>0, <1>1, SMT
<1>3. u = <<b1, b2, b3, b4>>
  BY FourWritten, SMT DEF FourAre
<1> HIDE DEF u, b1, b2, b3, b4
<1>4. ~Encodes(<<b1, b2, b3, b4>>, cp)
  <2>1. b1 \in Int /\ b1 \notin 240 .. 244
    BY <1>2, SMT
  <2> DEFINE s == <<b1, b2, b3, b4>>
  <2>2. Len(s) = 4 /\ s[1] = b1
    BY SMT
  <2> HIDE DEF s
  <2>3. WellFormed(s) => b1 \in 240 .. 244
    BY <2>2, SMT DEF WellFormed
  <2>4. ~Encodes(s, cp)
    BY <2>1, <2>3, SMT DEF Encodes
  <2> QED BY <2>4, SMT DEF s
<1>5. ~Encodes(u, cp)
  BY <1>3, <1>4, SMT
<1> QED BY <1>5, SMT DEF u

-----------------------------------------------------------------------------
(* Whatever code point up to U+FFFF four digits name, utf8Encode writes    *)
(* its UTF-8 bytes: the masks and shifts of its first three cases, for all *)
(* 65536 values where the run tries those of an alphabet.                  *)
THEOREM BasicPlaneEncoded == Spec => []BasicPlaneEncodes
<1>1. BasicPlaneEncodes
  <2> SUFFICES ASSUME AllHex PROVE Encodes(utf8Encode(Hex4Value(buf)), Hex4Value(buf))
    BY DEF BasicPlaneEncodes
  <2> DEFINE cp == Hex4Value(buf)
  <2>1. cp \in Nat /\ cp <= 65535
    BY DigitsName, SMT DEF AllHex
  <2> HIDE DEF cp
  <2>2. Encodes(utf8Encode(cp), cp)
    BY <2>1, PlaneWritten, SMT
  <2> QED BY <2>2 DEF cp
<1> QED BY <1>1, PTL

(* An escape of four letters is decoded to the bytes of the code point it  *)
(* names, through parseHex4 and utf8Encode.                                *)
THEOREM EscapesEncoded == Spec => []EscapeEncodes
<1>1. EscapeEncodes
  <2> SUFFICES ASSUME AllHex, \A i \in 1 .. 4 : ~isNum(buf[i])
               PROVE  Encodes(utf8Encode(parseHex4(buf)), Hex4Value(buf))
    BY DEF EscapeEncodes
  <2> DEFINE cp == Hex4Value(buf)
  <2>1. cp \in Nat /\ cp <= 65535 /\ parseHex4(buf) = cp
    BY DigitsName, SMT DEF AllHex
  <2> HIDE DEF cp
  <2>2. Encodes(utf8Encode(cp), cp)
    BY <2>1, PlaneWritten, SMT
  <2> QED BY <2>1, <2>2 DEF cp
<1> QED BY <1>1, PTL

(* No code point of a surrogate pair is written as UTF-8: the run on       *)
(* PairEncodes shows it of some.                                           *)
THEOREM PairsMiswritten ==
  \A cp \in Nat : cp > 65535 /\ cp <= 1114111 => ~Encodes(utf8Encode(cp), cp)
BY AstralMiswritten, SMT
=============================================================================
