-------------------------- MODULE JsonCursorProof --------------------------
(***************************************************************************)
(* What the primitives that move the cursor return, for every text, and    *)
(* what four digits name: facts that the proofs about white space, escapes,*)
(* strings and the parser share.                                           *)
(***************************************************************************)
EXTENDS JsonCursor, JsonUnicode, WellFoundedInduction, TLAPS

(* A division has one remainder.                                           *)
LEMMA Remainder ==
  ASSUME NEW n \in Nat \ {0}, NEW k \in Nat, NEW d \in 0 .. n - 1
  PROVE  (n * k + d) % n = d
<1> DEFINE x == n * k + d
           q == x \div n
           m == x % n
<1>1. x \in Nat /\ n * k \in Nat
  OBVIOUS
<1>2. q \in Int /\ m \in 0 .. n - 1 /\ x = n * q + m
  <2> HIDE DEF x
  <2> QED BY <1>1
<1>3. n * (k - q) = m - d
  BY <1>2
<1> HIDE DEF q, m, x
<1>4. ~(k - q >= 1)
  BY <1>2, <1>3
<1>5. ~(k - q <= -1)
  BY <1>2, <1>3
<1>6. k = q
  BY <1>2, <1>4, <1>5
<1>7. m = d
  BY <1>2, <1>3, <1>6
<1> QED BY <1>7 DEF m, x

(* The smallest element of a set is what Min returns.                      *)
LEMMA Smallest ==
  ASSUME NEW S \in SUBSET Int, NEW m \in S, \A y \in S : m <= y
  PROVE  Min(S) = m
<1>1. \A x \in S : (\A y \in S : x <= y) => x = m
  OBVIOUS
<1> QED BY <1>1 DEF Min

(* There is one.                                                           *)
LEMMA HasSmallest ==
  ASSUME NEW S \in SUBSET Nat, S # {}
  PROVE  \E m \in S : \A y \in S : m <= y
<1> DEFINE R == OpToRel(<, Nat)
<1>1. IsWellFoundedOn(R, Nat)
  BY NatLessThanWellFounded
<1>2. \A x, y \in Nat : y < x => <<y, x>> \in R
  BY DEF OpToRel
<1> HIDE DEF R
<1>3. PICK m \in S : \A y \in S : ~(<<y, m>> \in R)
  BY <1>1, WFMin
<1>4. ASSUME NEW y \in S
      PROVE  m <= y
  <2>1. m \in Nat /\ y \in Nat
    OBVIOUS
  <2>2. ~(y < m)
    BY <1>2, <1>3, <2>1
  <2> QED BY <2>1, <2>2
<1> QED BY <1>4

-----------------------------------------------------------------------------
(* What the text and its terminator hold.                                  *)
LEMMA TextFacts ==
  ASSUME CursorAssumption, input \in Inputs
  PROVE  /\ Lane \in Nat \ {0}
         /\ buflen \in Nat
         /\ input.base \in 0 .. Lane - 1
         /\ At(buflen) = NUL
         /\ \A i \in Nat : i >= buflen => At(i) = NUL
<1>1. input.text \in Seq(STRING \ {NUL}) /\ input.base \in 0 .. Lane - 1 /\ Lane \in Nat \ {0}
  BY DEF CursorAssumption
<1>2. buflen \in Nat
  BY <1>1 DEF buflen
<1> QED BY <1>1, <1>2 DEF At

(* The terminator is no white space, so no scan passes it.                 *)
LEMMA TerminatorStops == ~isWhiteSpace(NUL) /\ ~isLaneWhiteSpace(NUL)
BY DEF NUL, isWhiteSpace, isLaneWhiteSpace

(* What a lane is compared with is white space.                            *)
LEMMA LaneSpaceIsSpace ==
  ASSUME NEW ch, isLaneWhiteSpace(ch)
  PROVE  isWhiteSpace(ch)
BY DEF isWhiteSpace, isLaneWhiteSpace

(* next_boundary is a boundary, and not before where it is looked for.     *)
LEMMA BoundaryAligned ==
  ASSUME CursorAssumption, input \in Inputs, NEW i \in Nat
  PROVE  /\ NextBoundary(i) \in Nat
         /\ NextBoundary(i) >= i
         /\ \E q \in Nat : input.base + NextBoundary(i) = Lane * q
<1> DEFINE x == input.base + i
           r == x % Lane
           d == x \div Lane
<1>1. Lane \in Nat \ {0} /\ input.base \in Nat /\ x \in Nat
  BY TextFacts
<1>2. r \in 0 .. Lane - 1 /\ d \in Nat /\ x = Lane * d + r
  <2> HIDE DEF x
  <2> QED BY <1>1
<1>3. NextBoundary(i) = i + ((Lane - r) % Lane)
  BY DEF NextBoundary
<1> HIDE DEF r, d
<1>4. CASE r = 0
  <2>1. (Lane - r) % Lane = 0
    <3>1. (Lane * 1 + 0) % Lane = 0
      BY <1>1, Remainder
    <3>2. Lane - r = Lane * 1 + 0
      BY <1>1, <1>4
    <3> QED BY <3>1, <3>2
  <2>2. NextBoundary(i) = i
    BY <1>3, <2>1
  <2>3. input.base + NextBoundary(i) = Lane * d
    BY <1>1, <1>2, <1>4, <2>2
  <2>4. \E q \in Nat : input.base + NextBoundary(i) = Lane * q
    BY <1>2, <2>3
  <2>5. NextBoundary(i) \in Nat /\ NextBoundary(i) >= i
    <3> HIDE DEF x
    <3> QED BY <2>2
  <2> QED BY <2>4, <2>5
<1>5. CASE r # 0
  <2>1. (Lane - r) % Lane = Lane - r
    <3>1. Lane - r \in 0 .. Lane - 1
      BY <1>1, <1>2, <1>5
    <3>2. (Lane * 0 + (Lane - r)) % Lane = Lane - r
      BY <1>1, <3>1, Remainder
    <3>3. Lane * 0 + (Lane - r) = Lane - r
      BY <1>1, <3>1
    <3> QED BY <3>2, <3>3
  <2>2. NextBoundary(i) = i + (Lane - r)
    BY <1>3, <2>1
  <2>3. input.base + NextBoundary(i) = Lane * (d + 1)
    BY <1>1, <1>2, <2>2
  <2>4. d + 1 \in Nat /\ NextBoundary(i) \in Nat /\ NextBoundary(i) >= i
    BY <1>1, <1>2, <2>2
  <2> QED BY <2>3, <2>4
<1> QED BY <1>4, <1>5

(* White space is in front of the terminator.                              *)
LEMMA SpaceInText ==
  ASSUME CursorAssumption, input \in Inputs,
         NEW i \in 0 .. buflen, isWhiteSpace(At(i))
  PROVE  i < buflen
<1>1. buflen \in Nat /\ At(buflen) = NUL
  BY TextFacts
<1>2. i # buflen
  BY <1>1, TerminatorStops
<1> QED BY <1>1, <1>2

(* In front of the terminator are the characters, behind it is nothing.    *)
LEMMA TextEnds ==
  ASSUME CursorAssumption, input \in Inputs
  PROVE  /\ buflen \in Nat
         /\ \A i \in Nat : At(i) # NUL => i < buflen
BY DEF CursorAssumption, buflen, At

(* The cursor stays in the text, with an error of the library.             *)
LEMMA AdvanceTyped ==
  ASSUME CursorAssumption, input \in Inputs, NEW c \in Cursor
  PROVE  /\ jsonAdvance(c) \in Cursor
         /\ c.err # "JSON_OK" => jsonAdvance(c).err # "JSON_OK"
<1>1. buflen \in Nat
  BY TextEnds
<1>2. c.offset \in 0 .. buflen /\ c.err \in JSON_ERRNO
  BY DEF Cursor
<1>3. CASE jsonCanAdvanceBy(c, 1)
  <2>1. jsonAdvance(c) = [c EXCEPT !.offset = @ + 1] /\ c.offset + 1 \in 0 .. buflen
    BY <1>1, <1>2, <1>3 DEF jsonAdvance, jsonUnsafeAdvanceBy, jsonCanAdvanceBy
  <2> QED BY <1>2, <2>1 DEF Cursor
<1>4. CASE ~jsonCanAdvanceBy(c, 1)
  <2>1. jsonAdvance(c) = [c EXCEPT !.err = "JSON_EOF"]
    BY <1>4 DEF jsonAdvance, SetError
  <2> QED BY <1>2, <2>1 DEF Cursor, JSON_ERRNO
<1> QED BY <1>3, <1>4

(* A jump that stays in the text gives a cursor with the same error.       *)
LEMMA UnsafeAdvanceTyped ==
  ASSUME CursorAssumption, input \in Inputs,
         NEW c \in Cursor, NEW jmp \in Nat, c.offset + jmp <= buflen
  PROVE  /\ jsonUnsafeAdvanceBy(c, jmp) \in Cursor
         /\ jsonUnsafeAdvanceBy(c, jmp).offset = c.offset + jmp
         /\ jsonUnsafeAdvanceBy(c, jmp).err = c.err
<1>1. buflen \in Nat
  BY TextEnds
<1>2. c.offset \in 0 .. buflen /\ c.err \in JSON_ERRNO
  BY DEF Cursor
<1>3. jsonUnsafeAdvanceBy(c, jmp) = [c EXCEPT !.offset = c.offset + jmp]
  BY DEF jsonUnsafeAdvanceBy, Cursor
<1> QED BY <1>1, <1>2, <1>3 DEF Cursor

(* Setting an error leaves the cursor where it is.                         *)
LEMMA SetErrorTyped ==
  ASSUME NEW c \in Cursor, NEW error \in JSON_ERRNO
  PROVE  SetError(c, error) \in Cursor /\ SetError(c, error).err = error
BY DEF SetError, Cursor

-----------------------------------------------------------------------------
(* A set of positions has a first one, and Min returns it.                 *)
LEMMA MinIsFirst ==
  ASSUME NEW S \in SUBSET Nat, S # {}
  PROVE  Min(S) \in S /\ \A y \in S : Min(S) <= y
<1>1. PICK m \in S : \A y \in S : m <= y
  BY HasSmallest
<1>2. S \in SUBSET Int
  OBVIOUS
<1>3. Min(S) = m
  BY <1>1, <1>2, Smallest
<1> QED BY <1>1, <1>3

(* A search that the terminator stops ends in the text.                    *)
LEMMA SearchEnds ==
  ASSUME CursorAssumption, input \in Inputs, NEW i \in 0 .. buflen,
         NEW S \in SUBSET (i .. buflen), buflen \in S
  PROVE  Min(S) \in S /\ Min(S) \in i .. buflen /\ Min(S) \in 0 .. buflen
<1>1. buflen \in Nat
  BY TextFacts
<1>2. S \in SUBSET Nat /\ S # {}
  BY <1>1
<1>3. Min(S) \in S
  BY <1>2, MinIsFirst
<1>4. Min(S) \in i .. buflen
  BY <1>3
<1> QED BY <1>1, <1>3, <1>4

(* White space: wherever the loops stop, it is in the text.                *)
LEMMA ScanEnds ==
  ASSUME CursorAssumption, input \in Inputs, NEW i \in 0 .. buflen
  PROVE  getNextNonWhitespaceIdx(i).at \in 0 .. buflen
<1> DEFINE boundary == NextBoundary(i + 1)
           early    == {j \in i + 1 .. boundary - 1 : ~isWhiteSpace(At(j))}
           stop     == LaneEnd(boundary)
<1>1. buflen \in Nat /\ Lane \in Nat \ {0} /\ At(buflen) = NUL
  BY TextFacts
<1>2. boundary \in Nat /\ boundary >= i + 1
  <2>1. i + 1 \in Nat
    BY <1>1
  <2> QED BY <2>1, BoundaryAligned
<1> HIDE DEF boundary
<1>3. CASE ~isWhiteSpace(At(i))
  <2>1. getNextNonWhitespaceIdx(i) = [ok |-> TRUE, at |-> i]
    BY <1>3 DEF getNextNonWhitespaceIdx
  <2> QED BY <2>1
<1>4. CASE isWhiteSpace(At(i)) /\ early # {}
  <2>1. getNextNonWhitespaceIdx(i) = [ok |-> TRUE, at |-> Min(early)]
    BY <1>4 DEF getNextNonWhitespaceIdx, boundary
  <2>2. i < buflen
    BY <1>4, SpaceInText
  <2>3. early \in SUBSET Nat
    BY <1>1, <1>2
  <2>4. Min(early) \in early /\ \A y \in early : Min(early) <= y
    BY <1>4, <2>3, MinIsFirst
  <2>5. buflen <= boundary - 1 => buflen \in early
    BY <1>1, <1>2, <2>2, TerminatorStops
  <2>6. Min(early) \in i + 1 .. boundary - 1
    BY <2>4
  <2> HIDE DEF early
  <2>7. Min(early) <= buflen
    BY <1>1, <1>2, <2>4, <2>5, <2>6
  <2> QED BY <1>1, <1>2, <2>1, <2>6, <2>7
<1>5. CASE isWhiteSpace(At(i)) /\ early = {}
  <2>1. i < buflen
    BY <1>5, SpaceInText
  <2>2. boundary <= buflen
    <3>1. ~(buflen \in i + 1 .. boundary - 1)
      BY <1>1, <1>5, TerminatorStops
    <3> QED BY <1>1, <1>2, <2>1, <3>1
  <2>3. stop \in 0 .. buflen
    <3> DEFINE S == {j \in boundary .. buflen : ~isLaneWhiteSpace(At(j))}
    <3>1. boundary \in 0 .. buflen /\ S \in SUBSET (boundary .. buflen) /\ buflen \in S
      BY <1>1, <1>2, <2>2, TerminatorStops
    <3>2. stop = Min(S)
      BY DEF LaneEnd
    <3> HIDE DEF S, stop
    <3> QED BY <3>1, <3>2, SearchEnds
  <2>4. boundary # buflen /\ (buflen - boundary) % Lane = 0 => buflen - Lane \in 0 .. buflen
    <3> SUFFICES ASSUME boundary # buflen, (buflen - boundary) % Lane = 0
                 PROVE  buflen - Lane \in 0 .. buflen
      OBVIOUS
    <3> DEFINE d == buflen - boundary
    <3>1. d \in Nat /\ d > 0 /\ d % Lane = 0
      BY <1>1, <1>2, <2>2
    <3> HIDE DEF d
    <3>2. ~(d < Lane)
      <4> SUFFICES ASSUME d < Lane PROVE FALSE
        OBVIOUS
      <4>1. d \in 0 .. Lane - 1
        BY <1>1, <3>1
      <4>2. (Lane * 0 + d) % Lane = d
        BY <1>1, <4>1, Remainder
      <4>3. Lane * 0 + d = d
        BY <1>1, <3>1
      <4> QED BY <3>1, <4>2, <4>3
    <3>3. buflen - boundary >= Lane
      BY <1>1, <3>1, <3>2 DEF d
    <3> QED BY <1>1, <1>2, <3>3
  <2>5. CASE boundary = buflen
    <3>1. getNextNonWhitespaceIdx(i) = [ok |-> FALSE, at |-> boundary]
      BY <1>5, <2>5 DEF getNextNonWhitespaceIdx, boundary
    <3> QED BY <1>1, <2>5, <3>1
  <2>6. CASE boundary # buflen
    <3>1. getNextNonWhitespaceIdx(i) =
            IF stop = buflen /\ (buflen - boundary) % Lane = 0
            THEN [ok |-> FALSE, at |-> buflen - Lane]
            ELSE [ok |-> TRUE, at |-> stop]
      BY <1>5, <2>6 DEF getNextNonWhitespaceIdx, boundary
    <3> HIDE DEF stop
    <3> QED BY <2>3, <2>4, <2>6, <3>1
  <2> QED BY <2>5, <2>6
<1> QED BY <1>3, <1>4, <1>5

(* White space: what the loops give up on is white to its end.             *)
LEMMA ScanFails ==
  ASSUME CursorAssumption, input \in Inputs, NEW i \in 0 .. buflen,
         ~getNextNonWhitespaceIdx(i).ok
  PROVE  \A j \in i .. buflen - 1 : isWhiteSpace(At(j))
<1> DEFINE boundary == NextBoundary(i + 1)
           early    == {j \in i + 1 .. boundary - 1 : ~isWhiteSpace(At(j))}
           stop     == LaneEnd(boundary)
<1>1. buflen \in Nat
  BY TextFacts
<1>2. boundary \in Nat /\ boundary >= i + 1
  <2>1. i + 1 \in Nat
    BY <1>1
  <2> QED BY <2>1, BoundaryAligned
<1>3. isWhiteSpace(At(i)) /\ early = {}
  BY DEF getNextNonWhitespaceIdx
<1>4. boundary = buflen \/ stop = buflen
  BY <1>3 DEF getNextNonWhitespaceIdx
<1> HIDE DEF boundary
<1>5. i < buflen
  BY <1>3, SpaceInText
<1>6. boundary <= buflen
  <2>1. ~(buflen \in i + 1 .. boundary - 1)
    BY <1>1, <1>3, TextFacts, TerminatorStops
  <2> QED BY <1>1, <1>2, <1>5, <2>1
<1>7. \A j \in boundary .. buflen - 1 : isWhiteSpace(At(j))
  <2>1. CASE boundary = buflen
    BY <1>1, <2>1
  <2>2. CASE stop = buflen
    <3> DEFINE S == {j \in boundary .. buflen : ~isLaneWhiteSpace(At(j))}
    <3>1. S \in SUBSET Nat /\ buflen \in S
      BY <1>1, <1>2, <1>6, TextFacts, TerminatorStops
    <3>2. Min(S) = buflen
      BY <2>2 DEF LaneEnd
    <3>3. \A j \in S : buflen <= j
      BY <3>1, <3>2, MinIsFirst
    <3>4. \A j \in boundary .. buflen - 1 : isLaneWhiteSpace(At(j))
      BY <1>1, <1>2, <3>3
    <3> QED BY <3>4, LaneSpaceIsSpace
  <2> QED BY <1>4, <2>1, <2>2
<1>8. \A j \in i + 1 .. boundary - 1 : isWhiteSpace(At(j))
  BY <1>3
<1> QED BY <1>1, <1>2, <1>3, <1>7, <1>8

(* Skipping white space gives a cursor of the text, found or not.          *)
LEMMA WhitespaceTyped ==
  ASSUME CursorAssumption, input \in Inputs, NEW c \in Cursor
  PROVE  jsonAdvanceWhitespace(c) \in Cursor
<1> DEFINE found == getNextNonWhitespaceIdx(c.offset)
           moved == [c EXCEPT !.offset = found.at]
<1>1. c.offset \in 0 .. buflen
  BY DEF Cursor
<1>2. found.at \in 0 .. buflen
  BY <1>1, ScanEnds
<1> HIDE DEF found
<1>3. moved \in Cursor
  BY <1>2 DEF Cursor
<1>4. SetError(moved, "JSON_UNTERMINATED") \in Cursor
  BY <1>3, SetErrorTyped DEF JSON_ERRNO
<1> QED BY <1>3, <1>4 DEF jsonAdvanceWhitespace, found

(* The search for a terminator: it stops at the last character of the text.*)
LEMMA TerminatorTyped ==
  ASSUME CursorAssumption, input \in Inputs, NEW c \in Cursor, NEW terminator
  PROVE  jsonAdvanceToTerminator(c, terminator) \in Cursor
<1> DEFINE S == {i \in c.offset .. buflen : At(i) = terminator \/ i + 1 >= buflen}
<1>1. buflen \in Nat /\ c.offset \in 0 .. buflen
  BY TextFacts DEF Cursor
<1>2. S \in SUBSET (c.offset .. buflen) /\ buflen \in S
  BY <1>1
<1>3. jsonAdvanceToTerminator(c, terminator) = [c EXCEPT !.offset = Min(S)]
  BY DEF jsonAdvanceToTerminator
<1> HIDE DEF S
<1>4. Min(S) \in 0 .. buflen
  BY <1>1, <1>2, SearchEnds
<1> QED BY <1>3, <1>4 DEF Cursor
-----------------------------------------------------------------------------
(* jsonAdvance moves, or stays on the text's last character with an error. *)
LEMMA AdvanceOrStays ==
  ASSUME CursorAssumption, input \in Inputs, NEW c \in Cursor
  PROVE  \/ jsonAdvance(c).err = c.err /\ c.offset + 1 < buflen
         \/ /\ jsonAdvance(c) = SetError(c, "JSON_EOF") /\ c.offset + 1 >= buflen
            /\ jsonAdvance(c).offset = c.offset
<1>1. buflen \in Nat /\ c.offset \in Nat
  BY TextFacts DEF Cursor
<1>2. CASE jsonCanAdvanceBy(c, 1)
  BY <1>2 DEF jsonAdvance, jsonCanAdvanceBy, jsonUnsafeAdvanceBy, Cursor
<1>3. CASE ~jsonCanAdvanceBy(c, 1)
  BY <1>1, <1>3 DEF jsonAdvance, jsonCanAdvanceBy, SetError, Cursor
<1> QED BY <1>2, <1>3

(* What is no white space is not skipped; a successful skip sets no error. *)
LEMMA SkipsOnlyBlanks ==
  ASSUME NEW c \in Cursor
  PROVE  /\ ~isWhiteSpace(jsonPeek(c)) => WsOk(c) /\ jsonAdvanceWhitespace(c) = c
         /\ WsOk(c) => jsonAdvanceWhitespace(c).err = c.err
<1>1. ~isWhiteSpace(jsonPeek(c)) =>
        getNextNonWhitespaceIdx(c.offset) = [ok |-> TRUE, at |-> c.offset]
  BY DEF getNextNonWhitespaceIdx, jsonPeek
<1>2. [c EXCEPT !.offset = c.offset] = c
  BY DEF Cursor
<1>3. ~isWhiteSpace(jsonPeek(c)) => WsOk(c) /\ jsonAdvanceWhitespace(c) = c
  BY <1>1, <1>2 DEF WsOk, jsonAdvanceWhitespace
<1>4. WsOk(c) => jsonAdvanceWhitespace(c).err = c.err
  BY DEF WsOk, jsonAdvanceWhitespace, Cursor
<1> QED BY <1>3, <1>4

-----------------------------------------------------------------------------
(* The characters of NumberChars are different ones.                       *)
LEMMA CharsDiffer ==
  /\ DOMAIN NumberChars = 1 .. 27 /\ DOMAIN CharMinus0 = 1 .. 27
  /\ \A i, j \in 1 .. 27 : NumberChars[i] = NumberChars[j] => i = j
<1>1. DOMAIN NumberChars = 1 .. 27 /\ DOMAIN CharMinus0 = 1 .. 27
  BY DEF NumberChars, CharMinus0
<1>2. \A i, j \in 1 .. 27 : NumberChars[i] = NumberChars[j] => i = j
  BY SMTT(60) DEF NumberChars
<1> QED BY <1>1, <1>2

(* So toInt finds the one it is given.                                     *)
LEMMA CharValue ==
  ASSUME NEW k \in 1 .. 27
  PROVE  toInt(NumberChars[k]) = CharMinus0[k]
<1>1. \E i \in DOMAIN NumberChars : NumberChars[i] = NumberChars[k]
  BY CharsDiffer
<1>2. (CHOOSE i \in DOMAIN NumberChars : NumberChars[i] = NumberChars[k]) = k
  BY <1>1, CharsDiffer
<1> QED BY <1>1, <1>2 DEF toInt

(* A digit's value; a letter's is what toHex computes.                     *)
LEMMA HexValues ==
  ASSUME NEW ch, isHex(ch)
  PROVE  /\ HexValue(ch) \in 0 .. 15
         /\ ~isNum(ch) => toHex(ch) = HexValue(ch)
<1>1. PICK k \in 4 .. 26 : ch = NumberChars[k] /\ k \notin {20}
  BY DEF isHex, isNum, NumberChars
<1> QED BY <1>1, CharValue DEF HexValue, toHex, isLower, isNum, NumberChars, CharMinus0

(* Four hexadecimal digits name a code point of the basic plane, and       *)
(* parseHex4 finds it when they are letters.                               *)
LEMMA DigitsName ==
  ASSUME NEW digits, \A i \in 1 .. 4 : isHex(digits[i])
  PROVE  /\ Hex4Value(digits) \in Nat /\ Hex4Value(digits) <= 65535
         /\ (\A i \in 1 .. 4 : ~isNum(digits[i])) => parseHex4(digits) = Hex4Value(digits)
<1>1. \A i \in 1 .. 4 : /\ HexValue(digits[i]) \in 0 .. 15
                        /\ ~isNum(digits[i]) => toHex(digits[i]) = HexValue(digits[i])
  BY HexValues
<1>2. /\ HexValue(digits[1]) \in 0 .. 15 /\ HexValue(digits[2]) \in 0 .. 15
      /\ HexValue(digits[3]) \in 0 .. 15 /\ HexValue(digits[4]) \in 0 .. 15
  BY <1>1, SMT
<1>3. Hex4Value(digits) \in Nat /\ Hex4Value(digits) <= 65535
  <2> DEFINE h1 == HexValue(digits[1])
             h2 == HexValue(digits[2])
             h3 == HexValue(digits[3])
             h4 == HexValue(digits[4])
             v  == Hex4Value(digits)
  <2>1. v = 4096 * h1 + 256 * h2 + 16 * h3 + h4
    BY DEF Hex4Value
  <2> HIDE DEF h1, h2, h3, h4, v
  <2>2. h1 \in 0 .. 15 /\ h2 \in 0 .. 15 /\ h3 \in 0 .. 15 /\ h4 \in 0 .. 15
    BY <1>2 DEF h1, h2, h3, h4
  <2>3. v \in Nat /\ v <= 65535
    BY <2>1, <2>2, SMT
  <2> QED BY <2>3, SMT DEF v
<1>4. ASSUME \A i \in 1 .. 4 : ~isNum(digits[i])
      PROVE  parseHex4(digits) = Hex4Value(digits)
  <2>1. /\ toHex(digits[1]) = HexValue(digits[1]) /\ toHex(digits[2]) = HexValue(digits[2])
        /\ toHex(digits[3]) = HexValue(digits[3]) /\ toHex(digits[4]) = HexValue(digits[4])
    BY <1>1, <1>4
  <2> QED BY <2>1, SMT DEF parseHex4, Hex4Value
<1> QED BY <1>3, <1>4
=============================================================================
