-------------------------- MODULE JsonStringProof --------------------------
(***************************************************************************)
(* jsonParseString for every text: where its cursors are, what it writes,  *)
(* which bytes an escape becomes, and what a literal is decoded to.        *)
(***************************************************************************)
EXTENDS JsonString, JsonCursorProof, SequenceTheorems

(* str is the record of the call's locals.                                 *)
IsCall(s) == s = [pc |-> s.pc, start |-> s.start, end |-> s.end, cap |-> s.cap,
                  out |-> s.out, len |-> s.len]

(* The inductive invariant.                                                *)
StringInv ==
  /\ input \in Inputs
  /\ IsCall(str)
  /\ StrTypeOK
  /\ FailureIsReported

-----------------------------------------------------------------------------
(* What jsonParseUTF16 returns on an error.                                *)
LEMMA UTF16ErrorTyped ==
  ASSUME CursorAssumption, input \in Inputs, NEW c \in Cursor, NEW error \in JSON_ERRNO
  PROVE  UTF16Error(c, error).cur \in Cursor
<1>1. buflen \in Nat /\ c.offset \in 0 .. buflen
  BY TextEnds DEF Cursor
<1>2. jsonUnsafeAdvanceBy(c, 0) \in Cursor
  BY <1>1, UnsafeAdvanceTyped
<1> QED BY <1>2, SetErrorTyped DEF UTF16Error, jsonAdvanceToError

(* The characters the two halves of an escape are read from are all in     *)
(* front of the terminator, and so is the cursor behind them.              *)
LEMMA UTF16Typed ==
  ASSUME CursorAssumption, input \in Inputs, NEW c \in Cursor
  PROVE  jsonParseUTF16(c).cur \in Cursor
<1> SUFFICES ASSUME NEW last, NEW codepoint, last = jsonUnsafeAdvanceBy(c, 4),
                    codepoint = parseHex4(Four(c.offset + 1))
             PROVE  jsonParseUTF16(c).cur \in Cursor
  OBVIOUS
<1>1. buflen \in Nat /\ c.offset \in 0 .. buflen
  BY TextEnds DEF Cursor
<1>2. CASE ~jsonCanAdvanceBy(c, 5)
  <2>1. jsonParseUTF16(c) = UTF16Error(c, "JSON_CANNOT_ADVANCE")
    BY <1>2 DEF jsonParseUTF16
  <2> QED BY <2>1, UTF16ErrorTyped DEF JSON_ERRNO
<1>3. CASE jsonCanAdvanceBy(c, 5)
  <2>1. last \in Cursor /\ last.offset = c.offset + 4
    BY <1>1, <1>3, UnsafeAdvanceTyped DEF jsonCanAdvanceBy
  <2>2. UTF16Error(c, "JSON_INVALID_HEX").cur \in Cursor
    BY UTF16ErrorTyped DEF JSON_ERRNO
  <2>3. /\ UTF16Error(last, "JSON_INVALID_UTF16").cur \in Cursor
        /\ UTF16Error(last, "JSON_CANNOT_ADVANCE").cur \in Cursor
    BY <2>1, UTF16ErrorTyped DEF JSON_ERRNO
  <2>4. ASSUME jsonCanAdvanceBy(last, 6)
        PROVE  LowSurrogate(last, codepoint).cur \in Cursor
    <3> DEFINE next == jsonAdvance(last)
               low  == jsonUnsafeAdvanceBy(next, 2)
    <3>1. last.offset + 6 < buflen /\ last.offset \in 0 .. buflen
      BY <2>1, <2>4 DEF jsonCanAdvanceBy, Cursor
    <3>2. jsonCanAdvanceBy(last, 1)
      BY <1>1, <3>1 DEF jsonCanAdvanceBy
    <3>3. next \in Cursor /\ next.offset = last.offset + 1
      <4>1. next = jsonUnsafeAdvanceBy(last, 1)
        BY <3>2 DEF jsonAdvance
      <4>2. last.offset + 1 <= buflen
        BY <1>1, <3>1
      <4> QED BY <2>1, <4>1, <4>2, UnsafeAdvanceTyped
    <3>4. low \in Cursor
      <4>1. next.offset + 2 <= buflen
        BY <1>1, <3>1, <3>3
      <4> QED BY <3>3, <4>1, UnsafeAdvanceTyped
    <3>5. /\ UTF16Error(next, "JSON_INVALID_UTF16").cur \in Cursor
          /\ UTF16Error(low, "JSON_INVALID_HEX").cur \in Cursor
          /\ UTF16Error(low, "JSON_INVALID_UTF16_SURROGATE").cur \in Cursor
      BY <3>3, <3>4, UTF16ErrorTyped DEF JSON_ERRNO
    <3>6. \/ LowSurrogate(last, codepoint) = UTF16Error(next, "JSON_INVALID_UTF16")
          \/ LowSurrogate(last, codepoint) = UTF16Error(low, "JSON_INVALID_HEX")
          \/ LowSurrogate(last, codepoint) = UTF16Error(low, "JSON_INVALID_UTF16_SURROGATE")
          \/ LowSurrogate(last, codepoint).cur = low
      BY SMT DEF LowSurrogate
    <3> HIDE DEF next, low
    <3> QED BY <3>4, <3>5, <3>6
  <2>5. jsonParseUTF16(c) =
          IF codepoint = INT_MAX THEN UTF16Error(c, "JSON_INVALID_HEX")
          ELSE IF codepoint \in 56320 .. 57343 THEN UTF16Error(last, "JSON_INVALID_UTF16")
          ELSE IF codepoint \in 55296 .. 56319
            THEN IF jsonCanAdvanceBy(last, 6) THEN LowSurrogate(last, codepoint)
                 ELSE UTF16Error(last, "JSON_CANNOT_ADVANCE")
          ELSE [cur |-> last, codepoint |-> codepoint]
    BY <1>3, SMT DEF jsonParseUTF16
  <2>6. CASE codepoint = INT_MAX
    BY <2>2, <2>5, <2>6
  <2>7. CASE codepoint # INT_MAX /\ codepoint \in 56320 .. 57343
    BY <2>3, <2>5, <2>7
  <2>8. CASE codepoint # INT_MAX /\ codepoint \notin 56320 .. 57343
    <3>1. CASE codepoint \in 55296 .. 56319 /\ jsonCanAdvanceBy(last, 6)
      BY <2>4, <2>5, <2>8, <3>1
    <3>2. CASE codepoint \in 55296 .. 56319 /\ ~jsonCanAdvanceBy(last, 6)
      BY <2>3, <2>5, <2>8, <3>2
    <3>3. CASE codepoint \notin 55296 .. 56319
      BY <2>1, <2>5, <2>8, <3>3
    <3> QED BY <3>1, <3>2, <3>3
  <2> QED BY <2>6, <2>7, <2>8
<1> QED BY <1>2, <1>3

(* utf8Encode gives a number of bytes.                                     *)
LEMMA EncodedLength ==
  ASSUME NEW codepoint
  PROVE  Len(utf8Encode(codepoint)) \in Nat
BY DEF utf8Encode

-----------------------------------------------------------------------------
(* The call, from any position in the text.                                *)
LEMMA CallTyped ==
  ASSUME CursorAssumption, input \in Inputs, NEW c \in Cursor,
         StringCalledAt(c), UNCHANGED input
  PROVE  StringInv'
<1>1. buflen \in Nat /\ c.offset \in 0 .. buflen /\ buflen' = buflen /\ Cursor' = Cursor
  BY TextEnds DEF Cursor, buflen
<1>2. cur' \in Cursor
  BY AdvanceTyped DEF StringCalledAt
<1> DEFINE e == c.offset + IF jsonPeek(c) = QUOTE THEN 1 ELSE 0
<1>3. e \in c.offset .. buflen
  <2>1. CASE jsonPeek(c) = QUOTE
    <3>1. c.offset < buflen
      <4>1. QUOTE # NUL
        BY DEF QUOTE, NUL
      <4>2. c.offset \in Nat /\ At(c.offset) # NUL
        BY <1>1, <2>1, <4>1 DEF jsonPeek
      <4> QED BY <4>2, TextEnds
    <3> QED BY <1>1, <2>1, <3>1
  <2>2. CASE jsonPeek(c) # QUOTE
    BY <1>1, <2>2
  <2> QED BY <2>1, <2>2
<1>4. str' = [NoString EXCEPT !.pc = "size", !.start = c.offset, !.end = e]
  BY DEF StringCalledAt
<1> HIDE DEF e
<1>5. str' = [pc |-> "size", start |-> c.offset, end |-> e, cap |-> 0, out |-> << >>, len |-> 0]
  BY <1>4 DEF NoString
<1>6. /\ str'.pc = "size" /\ str'.start = c.offset /\ str'.end = e /\ str'.cap = 0
      /\ str'.len = 0 /\ IsCall(str)'
  BY <1>5 DEF IsCall
<1> QED BY <1>1, <1>2, <1>3, <1>6 DEF StringInv, StrTypeOK, FailureIsReported

(* A step of either pass.                                                  *)
LEMMA StepTyped ==
  ASSUME CursorAssumption, StringInv, StringStep
  PROVE  StringInv'
<1>1. /\ input \in Inputs /\ input' = input /\ cur \in Cursor
      /\ str.start \in 0 .. buflen /\ str.end \in str.start .. buflen
      /\ str.cap \in 0 .. buflen /\ str.len \in Nat
      /\ IsCall(str)
  BY DEF StringInv, StrTypeOK, StringStep, SizeStep, SizeEnd, CopyPlain, CopyEscape,
         CopyUnicode, CopyBadEscape, CopyQuote
<1>2. buflen \in Nat /\ buflen' = buflen /\ Cursor' = Cursor
  BY <1>1, TextEnds DEF buflen, Cursor
<1>3. ASSUME NEW error \in JSON_ERRNO, error # "JSON_OK", StringFails(error)
      PROVE  StringInv'
  <2>1. cur' \in Cursor /\ cur'.err = error
    BY <1>1, <1>3, SetErrorTyped DEF StringFails
  <2>2. /\ str' = [str EXCEPT !.pc = "failed"] /\ str'.pc = "failed"
        /\ str'.start = str.start /\ str'.end = str.end /\ str'.cap = str.cap
        /\ str'.len = str.len /\ IsCall(str)'
    BY <1>1, <1>3 DEF StringFails, IsCall
  <2> QED BY <1>1, <1>2, <1>3, <2>1, <2>2 DEF StringInv, StrTypeOK, FailureIsReported
<1>4. ASSUME cur' \in Cursor, cur'.err # "JSON_OK", str' = [str EXCEPT !.pc = "failed"]
      PROVE  StringInv'
  <2>1. /\ str'.pc = "failed"
        /\ str'.start = str.start /\ str'.end = str.end /\ str'.cap = str.cap
        /\ str'.len = str.len /\ IsCall(str)'
    BY <1>1, <1>4 DEF IsCall
  <2> QED BY <1>1, <1>2, <1>4, <2>1 DEF StringInv, StrTypeOK, FailureIsReported
<1>5. ASSUME NEW unit, NEW n \in Nat, NEW c \in Cursor, PutAndAdvance(unit, n, c),
             str.pc = "copy"
      PROVE  StringInv'
  <2>1. cur' \in Cursor
    BY <1>1, <1>5, AdvanceTyped DEF PutAndAdvance
  <2>2. /\ str'.pc = "copy" /\ str'.start = str.start /\ str'.end = str.end
        /\ str'.cap = str.cap /\ str'.len = str.len + n /\ IsCall(str)'
    BY <1>1, <1>5 DEF PutAndAdvance, IsCall
  <2>3. str'.len \in Nat
    BY <1>1, <2>2
  <2> QED BY <1>1, <1>2, <2>1, <2>2, <2>3 DEF StringInv, StrTypeOK, FailureIsReported
<1>6. AfterBackslash \in Cursor
  BY <1>1, AdvanceTyped DEF AfterBackslash
<1>7. CASE SizeStep
  <2> DEFINE e == str.end + IF At(str.end) = BACKSLASH THEN 2 ELSE 1
  <2>1. str.end \in Nat /\ str.end < buflen
    <3>1. str.end \in Nat /\ At(str.end) # NUL
      BY <1>1, <1>7 DEF SizeStep
    <3> QED BY <1>1, <3>1, TextEnds
  <2>2. e \in str.start .. buflen
    <3>1. CASE At(str.end) = BACKSLASH
      <4>1. At(str.end + 1) # NUL
        BY <1>7, <3>1 DEF SizeStep, SizeStops
      <4>2. str.end + 1 < buflen
        BY <1>1, <2>1, <4>1, TextEnds
      <4> QED BY <1>1, <1>2, <2>1, <3>1, <4>2
    <3>2. CASE At(str.end) # BACKSLASH
      BY <1>1, <1>2, <2>1, <3>2
    <3> QED BY <3>1, <3>2
  <2>3. str' = [str EXCEPT !.end = e] /\ UNCHANGED cur /\ str.pc = "size"
    BY <1>1, <1>7 DEF SizeStep, IsCall
  <2> HIDE DEF e
  <2>4. /\ str'.pc = "size" /\ str'.start = str.start /\ str'.end = e
        /\ str'.cap = str.cap /\ str'.len = str.len /\ IsCall(str)'
    BY <1>1, <2>3 DEF IsCall
  <2> QED BY <1>1, <1>2, <2>2, <2>3, <2>4 DEF StringInv, StrTypeOK, FailureIsReported
<1>8. CASE SizeEnd
  <2>1. CASE StringFails("JSON_EOF")
    BY <1>3, <2>1 DEF JSON_ERRNO
  <2>2. CASE str' = [str EXCEPT !.pc = "copy", !.cap = str.end - str.start] /\ UNCHANGED cur
    <3>1. /\ str'.pc = "copy" /\ str'.start = str.start /\ str'.end = str.end
          /\ str'.cap = str.end - str.start /\ str'.len = str.len /\ IsCall(str)'
      BY <1>1, <2>2 DEF IsCall
    <3>2. str.end - str.start \in 0 .. buflen
      BY <1>1, <1>2
    <3> QED BY <1>1, <1>2, <2>2, <3>1, <3>2 DEF StringInv, StrTypeOK, FailureIsReported
  <2> QED BY <1>8, <2>1, <2>2 DEF SizeEnd
<1>9. CASE CopyPlain
  BY <1>1, <1>5, <1>9 DEF CopyPlain, Copying
<1>10. CASE CopyEscape
  BY <1>5, <1>6, <1>10 DEF CopyEscape, Copying
<1>11. CASE CopyUnicode
  <2> DEFINE read  == jsonParseUTF16(AfterBackslash)
             bytes == utf8Encode(read.codepoint)
  <2>1. read.cur \in Cursor /\ Len(bytes) \in Nat
    BY <1>1, <1>6, UTF16Typed, EncodedLength
  <2> HIDE DEF read, bytes
  <2>2. \/ read.cur.err # "JSON_OK" /\ cur' = read.cur /\ str' = [str EXCEPT !.pc = "failed"]
        \/ PutAndAdvance(<<"utf8">> \o bytes, Len(bytes), read.cur)
    BY <1>11, Zenon DEF CopyUnicode, read, bytes
  <2>3. str.pc = "copy"
    BY <1>11 DEF CopyUnicode, Copying
  <2>4. CASE read.cur.err # "JSON_OK" /\ cur' = read.cur /\ str' = [str EXCEPT !.pc = "failed"]
    BY <1>4, <2>1, <2>4
  <2>5. CASE PutAndAdvance(<<"utf8">> \o bytes, Len(bytes), read.cur)
    BY <1>5, <2>1, <2>3, <2>5
  <2> QED BY <2>2, <2>4, <2>5
<1>12. CASE CopyBadEscape
  <2>1. cur' \in Cursor /\ cur'.err = "JSON_INVALID_ESCAPE_CHARACTER"
    BY <1>6, <1>12, SetErrorTyped DEF CopyBadEscape, JSON_ERRNO
  <2> QED BY <1>4, <1>12, <2>1 DEF CopyBadEscape
<1>13. CASE CopyQuote
  <2> DEFINE c == jsonAdvance(cur)
  <2>1. c \in Cursor
    BY <1>1, AdvanceTyped
  <2> HIDE DEF c
  <2>2. \/ /\ cur' = SetError(c, "JSON_INVALID_STRING_NOT_TERMINATED")
           /\ str' = [str EXCEPT !.pc = "failed"]
        \/ cur' = c /\ str' = [str EXCEPT !.pc = "done"]
    BY <1>13 DEF CopyQuote, c
  <2>3. CASE /\ cur' = SetError(c, "JSON_INVALID_STRING_NOT_TERMINATED")
             /\ str' = [str EXCEPT !.pc = "failed"]
    <3>1. cur' \in Cursor /\ cur'.err = "JSON_INVALID_STRING_NOT_TERMINATED"
      BY <2>1, <2>3, SetErrorTyped DEF JSON_ERRNO
    <3> QED BY <1>4, <2>3, <3>1
  <2>4. CASE cur' = c /\ str' = [str EXCEPT !.pc = "done"]
    <3>1. /\ str'.pc = "done" /\ str'.start = str.start /\ str'.end = str.end
          /\ str'.cap = str.cap /\ str'.len = str.len /\ IsCall(str)'
      BY <1>1, <2>4 DEF IsCall
    <3> QED BY <1>1, <1>2, <2>1, <2>4, <3>1 DEF StringInv, StrTypeOK, FailureIsReported
  <2> QED BY <2>2, <2>3, <2>4
<1> QED BY <1>7, <1>8, <1>9, <1>10, <1>11, <1>12, <1>13 DEF StringStep

-----------------------------------------------------------------------------
(* Nothing is called yet, at the first character.                          *)
LEMMA StringBegins ==
  ASSUME CursorAssumption, StringInit
  PROVE  StringInv
<1>1. input \in Inputs /\ buflen \in Nat
  BY TextEnds DEF StringInit
<1>2. cur \in Cursor
  BY <1>1 DEF StringInit, Cursor, JSON_ERRNO
<1>3. /\ str.pc = "idle" /\ str.start = 0 /\ str.end = 0 /\ str.cap = 0 /\ str.len = 0
      /\ IsCall(str)
  BY DEF StringInit, NoString, IsCall
<1> QED BY <1>1, <1>2, <1>3 DEF StringInv, StrTypeOK, FailureIsReported

(* The invariant holds of every text, whatever ends it.                    *)
THEOREM StringInvariant == StringSpec => []StringInv
<1>1. StringInit => StringInv
  BY CursorAssumption, StringBegins
<1>2. StringInv /\ [StringNext]_<<input, strVars>> => StringInv'
  <2> SUFFICES ASSUME StringInv, [StringNext]_<<input, strVars>> PROVE StringInv'
    OBVIOUS
  <2>1. CASE jsonParseString
    <3>1. cur \in Cursor /\ input \in Inputs
      BY DEF StringInv, StrTypeOK
    <3> QED BY <2>1, <3>1, CursorAssumption, CallTyped DEF jsonParseString
  <2>2. CASE StringStep
    BY <2>2, CursorAssumption, StepTyped
  <2>3. CASE UNCHANGED <<input, strVars>>
    BY <2>3 DEF strVars, StringInv, IsCall, StrTypeOK, FailureIsReported, Cursor, buflen
  <2> QED BY <2>1, <2>2, <2>3 DEF StringNext
<1> QED BY <1>1, <1>2, PTL DEF StringSpec

(* Neither pass reads behind the terminator: the first one steps over an   *)
(* escape and the second one over the digits of one or two \uXXXX, and both*)
(* cursors stay in the text for every text.                                *)
THEOREM CursorsInText == StringSpec => []StrTypeOK
<1>1. StringInv => StrTypeOK
  BY DEF StringInv
<1> QED BY <1>1, StringInvariant, PTL

(* jsonParseString never returns NULL without an error in p->errno, which  *)
(* is all its callers look at.                                             *)
THEOREM FailuresReported == StringSpec => []FailureIsReported
<1>1. StringInv => FailureIsReported
  BY DEF StringInv
<1> QED BY <1>1, StringInvariant, PTL

-----------------------------------------------------------------------------
(* An error that the call itself has set and not returned with: jsonAdvance*)
(* stays on the text's last character, whatever it is.                     *)
OnLast(c)  == c.err = "JSON_OK" \/ c.offset + 1 >= buflen
CallSound ==
  \/ cur.err = "JSON_OK"
  \/ str.pc = "failed"
  \/ str.pc \in {"size", "copy"} /\ OnLast(cur)

(* jsonAdvance never leaves the last character once it has failed there.   *)
LEMMA LastStays ==
  ASSUME CursorAssumption, input \in Inputs, NEW c \in Cursor, OnLast(c)
  PROVE  OnLast(jsonAdvance(c))
<1>1. buflen \in Nat /\ c.offset \in Nat
  BY TextFacts DEF Cursor
<1>2. CASE jsonAdvance(c).err = c.err /\ c.offset + 1 < buflen
  BY <1>1, <1>2 DEF OnLast
<1>3. CASE jsonAdvance(c).offset = c.offset /\ c.offset + 1 >= buflen
  BY <1>3 DEF OnLast
<1> QED BY <1>2, <1>3, AdvanceOrStays

(* The call, at a cursor without an error.                                 *)
LEMMA CallIsSound ==
  ASSUME CursorAssumption, input \in Inputs, NEW c \in Cursor, OnLast(c),
         StringCalledAt(c), UNCHANGED input
  PROVE  CallSound'
<1>1. buflen' = buflen
  BY DEF buflen
<1>2. OnLast(cur')
  BY LastStays DEF StringCalledAt
<1>3. str'.pc = "size"
  BY DEF StringCalledAt, NoString
<1> QED BY <1>1, <1>2, <1>3 DEF CallSound, OnLast

(* A step of either pass: the closing quote is left only by an advance     *)
(* that succeeds.                                                          *)
LEMMA StepIsSound ==
  ASSUME CursorAssumption, StringInv, CallSound, StringStep
  PROVE  CallSound'
<1>1. /\ input \in Inputs /\ cur \in Cursor /\ IsCall(str)
      /\ str.pc \in {"size", "copy"} /\ UNCHANGED input
  BY DEF StringInv, StrTypeOK, StringStep, SizeStep, SizeEnd, CopyPlain, CopyEscape,
         CopyUnicode, CopyBadEscape, CopyQuote, Copying
<1>2. OnLast(cur) /\ buflen' = buflen
  BY <1>1 DEF CallSound, OnLast, buflen
<1>3. AfterBackslash \in Cursor /\ OnLast(AfterBackslash)
  BY <1>1, <1>2, AdvanceTyped, LastStays DEF AfterBackslash
<1>4. ASSUME str'.pc = "failed" \/ cur'.err = "JSON_OK"
      PROVE  CallSound'
  BY <1>4 DEF CallSound
<1>5. ASSUME str'.pc \in {"size", "copy"}, OnLast(cur')
      PROVE  CallSound'
  BY <1>2, <1>5 DEF CallSound, OnLast
<1>6. ASSUME NEW unit, NEW n, NEW c \in Cursor, OnLast(c), PutAndAdvance(unit, n, c)
      PROVE  CallSound'
  <2>1. str'.pc = str.pc
    BY <1>1, <1>6 DEF PutAndAdvance, IsCall
  <2>2. OnLast(cur')
    BY <1>1, <1>6, LastStays DEF PutAndAdvance
  <2> QED BY <1>1, <1>5, <2>1, <2>2
<1>7. ASSUME NEW error, StringFails(error)
      PROVE  CallSound'
  BY <1>1, <1>4, <1>7 DEF StringFails, IsCall
<1>8. CASE SizeStep
  BY <1>1, <1>2, <1>5, <1>8 DEF SizeStep, IsCall
<1>9. CASE SizeEnd
  <2>1. \/ \E error : StringFails(error)
        \/ /\ str' = [str EXCEPT !.pc = "copy", !.cap = str.end - str.start]
           /\ UNCHANGED cur
    BY <1>9 DEF SizeEnd
  <2>2. [str EXCEPT !.pc = "copy", !.cap = str.end - str.start].pc = "copy"
    BY <1>1 DEF IsCall
  <2> QED BY <1>2, <1>5, <1>7, <2>1, <2>2
<1>10. CASE CopyPlain
  BY <1>1, <1>2, <1>6, <1>10 DEF CopyPlain
<1>11. CASE CopyEscape
  BY <1>3, <1>6, <1>11 DEF CopyEscape
<1>12. CASE CopyUnicode
  <2> DEFINE read == jsonParseUTF16(AfterBackslash)
  <2>1. read.cur \in Cursor
    BY <1>1, <1>3, UTF16Typed
  <2> HIDE DEF read
  <2>2. \/ str' = [str EXCEPT !.pc = "failed"]
        \/ /\ read.cur.err = "JSON_OK"
           /\ \E unit, n : PutAndAdvance(unit, n, read.cur)
    BY <1>12 DEF CopyUnicode, read
  <2>3. [str EXCEPT !.pc = "failed"].pc = "failed"
    BY <1>1 DEF IsCall
  <2> QED BY <1>4, <1>6, <2>1, <2>2, <2>3 DEF OnLast
<1>13. CASE CopyBadEscape
  BY <1>1, <1>4, <1>13 DEF CopyBadEscape, IsCall
<1>14. CASE CopyQuote
  <2> DEFINE c == jsonAdvance(cur)
  <2>1. \/ c.err = cur.err /\ cur.offset + 1 < buflen
        \/ c.offset = cur.offset
    BY <1>1, AdvanceOrStays
  <2> HIDE DEF c
  <2>2. /\ jsonPeek(cur) = QUOTE
        /\ \/ str' = [str EXCEPT !.pc = "failed"]
           \/ jsonPeek(c) # QUOTE /\ cur' = c
    BY <1>14 DEF CopyQuote, c
  <2>3. [str EXCEPT !.pc = "failed"].pc = "failed"
    BY <1>1 DEF IsCall
  <2>4. CASE jsonPeek(c) # QUOTE /\ cur' = c
    <3>1. c.err = cur.err /\ cur.offset + 1 < buflen
      BY <2>1, <2>2, <2>4 DEF jsonPeek
    <3>2. buflen \in Nat /\ cur.offset \in Nat
      BY <1>1, TextFacts DEF Cursor
    <3>3. cur.err = "JSON_OK"
      BY <1>2, <3>1, <3>2 DEF OnLast
    <3> QED BY <1>4, <2>4, <3>1, <3>3
  <2> QED BY <1>4, <2>2, <2>3, <2>4
<1> QED BY <1>8, <1>9, <1>10, <1>11, <1>12, <1>13, <1>14 DEF StringStep

(* A string that jsonParseString returns has left no error in p->errno: an *)
(* advance that failed on the way is never followed by a closing quote.    *)
SuccessIsNoError == str.pc = "done" => cur.err = "JSON_OK"

(* It is so for every text, with FailureIsReported: NULL and an error are  *)
(* returned together or not at all.                                        *)
THEOREM SuccessesClean == StringSpec => []SuccessIsNoError
<1>1. StringInit => CallSound
  BY DEF StringInit, CallSound
<1>2. StringInv /\ CallSound /\ [StringNext]_<<input, strVars>> => CallSound'
  <2> SUFFICES ASSUME StringInv, CallSound, [StringNext]_<<input, strVars>>
               PROVE  CallSound'
    OBVIOUS
  <2>1. CASE jsonParseString
    <3>1. cur \in Cursor /\ input \in Inputs /\ str.pc = "idle"
      BY <2>1 DEF StringInv, StrTypeOK, jsonParseString
    <3>2. OnLast(cur)
      BY <3>1 DEF CallSound, OnLast
    <3> QED BY <2>1, <3>1, <3>2, CursorAssumption, CallIsSound DEF jsonParseString
  <2>2. CASE StringStep
    BY <2>2, CursorAssumption, StepIsSound
  <2>3. CASE UNCHANGED <<input, strVars>>
    BY <2>3 DEF strVars, CallSound, OnLast, buflen
  <2> QED BY <2>1, <2>2, <2>3 DEF StringNext
<1>3. CallSound => SuccessIsNoError
  BY DEF CallSound, SuccessIsNoError
<1> QED BY <1>1, <1>2, <1>3, StringInvariant, PTL DEF StringSpec

-----------------------------------------------------------------------------
(* Of an activation s with the cursor at c, if the first pass has stopped  *)
(* at a quote: the second has not passed it, and every byte it wrote       *)
(* stands for a character of the literal at least.                         *)
Fits(s, c) ==
  /\ s.pc = "size" =>
       /\ s.start + 1 <= s.end
       /\ s.len = 0
       /\ c.offset = s.start + 1 \/ s.start + 1 = buflen
  /\ s.pc = "copy" /\ At(s.end) # BACKSLASH =>
       /\ s.cap = s.end - s.start
       /\ At(s.end) = QUOTE
       /\ At(s.end - 1) # BACKSLASH
       /\ c.offset \in s.start + 1 .. s.end
       /\ s.len <= c.offset - s.start - 1
  /\ s.pc = "done" /\ At(s.end) # BACKSLASH => s.len + 1 <= s.cap

CopyInv == Fits(str, cur)

(* It is enough to show it of what a step makes of the two.                *)
LEMMA FitsAfter ==
  ASSUME UNCHANGED input, Fits(str', cur')
  PROVE  CopyInv'
BY DEF CopyInv, Fits, At, buflen

(* What has been written then leaves room for the terminator.              *)
LEMMA CopyInvFits ==
  ASSUME CursorAssumption, StringInv, CopyInv
  PROVE  OutputFits
<1>1. buflen \in Nat /\ cur.offset \in Nat
  BY TextFacts DEF StringInv, StrTypeOK, Cursor
<1>2. /\ str.start \in 0 .. buflen /\ str.end \in str.start .. buflen
      /\ str.cap \in 0 .. buflen /\ str.len \in Nat
  BY DEF StringInv, StrTypeOK
<1>3. ASSUME str.pc = "copy", At(str.end) # BACKSLASH PROVE str.len < str.cap
  BY <1>1, <1>2, <1>3 DEF CopyInv, Fits
<1>4. ASSUME str.pc = "done", At(str.end) # BACKSLASH PROVE str.len + 1 <= str.cap
  BY <1>4 DEF CopyInv, Fits
<1> QED BY <1>3, <1>4 DEF OutputFits, CopyFits, OpenEscape

(* jsonAdvance in front of the last character.                             *)
LEMMA AdvanceMoves ==
  ASSUME CursorAssumption, input \in Inputs, NEW c \in Cursor, c.offset + 1 < buflen
  PROVE  jsonAdvance(c) \in Cursor /\ jsonAdvance(c).offset = c.offset + 1
<1>1. jsonAdvance(c) = jsonUnsafeAdvanceBy(c, 1)
  BY DEF jsonAdvance, jsonCanAdvanceBy
<1>2. buflen \in Nat /\ c.offset \in Nat
  BY TextFacts DEF Cursor
<1> QED BY <1>1, <1>2, UnsafeAdvanceTyped

(* Called at a quote, the passes begin behind it.                          *)
LEMMA CopyCalled ==
  ASSUME CursorAssumption, input \in Inputs, NEW c \in Cursor,
         StringCalledAt(c), jsonPeek(c) = QUOTE, UNCHANGED input
  PROVE  CopyInv'
<1>1. buflen \in Nat /\ c.offset \in Nat /\ c.offset < buflen
  <2>1. buflen \in Nat /\ c.offset \in Nat
    BY TextEnds DEF Cursor
  <2>2. At(c.offset) # NUL
    BY DEF jsonPeek, QUOTE, NUL
  <2> QED BY <2>1, <2>2, TextEnds
<1>2. /\ str'.pc = "size" /\ str'.start = c.offset /\ str'.end = c.offset + 1 /\ str'.len = 0
      /\ cur' = jsonAdvance(c)
  BY DEF StringCalledAt, NoString
<1>3. CASE c.offset + 1 < buflen
  <2>1. cur'.offset = c.offset + 1
    BY <1>2, <1>3, AdvanceMoves
  <2>2. Fits(str', cur')
    BY <1>1, <1>2, <2>1 DEF Fits
  <2> QED BY <2>2, FitsAfter
<1>4. CASE ~(c.offset + 1 < buflen)
  <2>1. str'.start + 1 = buflen
    BY <1>1, <1>2, <1>4
  <2>2. Fits(str', cur')
    BY <1>1, <1>2, <2>1 DEF Fits
  <2> QED BY <2>2, FitsAfter
<1> QED BY <1>3, <1>4

(* What parseHex4 reads are digits; a quote is none.                       *)
LEMMA FourDigits ==
  ASSUME NEW i, parseHex4(Four(i)) # INT_MAX
  PROVE  \A k \in 0 .. 3 : isHex(At(i + k)) /\ At(i + k) # QUOTE
<1>1. \A k \in 1 .. 4 : isHex(Four(i)[k])
  BY DEF parseHex4
<1>2. \A k \in 1 .. 4 : isHex(At(i + (k - 1)))
  BY <1>1 DEF Four
<1>3. ~isHex(QUOTE)
  BY DEF isHex, isNum, QUOTE
<1>4. ASSUME NEW k \in 0 .. 3
      PROVE  isHex(At(i + k)) /\ At(i + k) # QUOTE
  <2>1. k + 1 \in 1 .. 4 /\ (k + 1) - 1 = k
    OBVIOUS
  <2>2. isHex(At(i + ((k + 1) - 1)))
    BY <1>2, <2>1
  <2> QED BY <1>3, <2>1, <2>2
<1> QED BY <1>4

(* utf8Encode gives no more than four bytes.                               *)
LEMMA EncodedShort ==
  ASSUME NEW codepoint
  PROVE  Len(utf8Encode(codepoint)) \in 1 .. 4
BY DEF utf8Encode

(* An escape of one or two \uXXXX that is read without an error is read    *)
(* from in front of the quote at e that ends the literal.                  *)
LEMMA UTF16Stops ==
  ASSUME CursorAssumption, input \in Inputs, ~QuoteInPair,
         NEW c \in Cursor, c.offset > 0, NEW e \in 0 .. buflen, c.offset < e,
         At(c.offset - 1) = BACKSLASH, At(c.offset) = "u",
         At(e) = QUOTE, At(e - 1) # BACKSLASH,
         jsonParseUTF16(c).cur.err = "JSON_OK"
  PROVE  /\ jsonParseUTF16(c).cur \in Cursor
         /\ jsonParseUTF16(c).cur.offset \in c.offset + 4 .. e - 1
<1> SUFFICES ASSUME NEW last, NEW codepoint, last = jsonUnsafeAdvanceBy(c, 4),
                    codepoint = parseHex4(Four(c.offset + 1))
             PROVE  jsonParseUTF16(c).cur.offset \in c.offset + 4 .. e - 1
  BY UTF16Typed
<1>1. buflen \in Nat /\ c.offset \in Nat /\ e \in Nat
  BY TextEnds DEF Cursor
<1>2. \A d \in Cursor : \A error \in JSON_ERRNO : UTF16Error(d, error).cur.err = error
  <2> SUFFICES ASSUME NEW d \in Cursor, NEW error \in JSON_ERRNO
               PROVE  UTF16Error(d, error).cur.err = error
    OBVIOUS
  <2>1. d.offset + 0 <= buflen
    BY <1>1 DEF Cursor
  <2>2. jsonUnsafeAdvanceBy(d, 0) \in Cursor
    BY <2>1, UnsafeAdvanceTyped
  <2> QED BY <2>2, SetErrorTyped DEF UTF16Error, jsonAdvanceToError
<1>3. jsonCanAdvanceBy(c, 5)
  <2>1. SUFFICES ASSUME ~jsonCanAdvanceBy(c, 5) PROVE FALSE
    OBVIOUS
  <2>2. jsonParseUTF16(c) = UTF16Error(c, "JSON_CANNOT_ADVANCE")
    BY <2>1 DEF jsonParseUTF16
  <2>3. jsonParseUTF16(c).cur.err = "JSON_CANNOT_ADVANCE"
    BY <1>2, <2>2 DEF JSON_ERRNO
  <2> QED BY <2>3
<1>4. last \in Cursor /\ last.offset = c.offset + 4
  BY <1>1, <1>3, UnsafeAdvanceTyped DEF jsonCanAdvanceBy
<1>5. /\ codepoint # INT_MAX
      /\ \/ jsonParseUTF16(c).cur = last
         \/ jsonCanAdvanceBy(last, 6) /\ jsonParseUTF16(c) = LowSurrogate(last, codepoint)
  <2> DEFINE isLow  == codepoint \in 56320 .. 57343
             isHigh == codepoint \in 55296 .. 56319
             noHex  == codepoint = INT_MAX
             pair   == jsonCanAdvanceBy(last, 6)
  <2>1. jsonParseUTF16(c) =
          IF noHex THEN UTF16Error(c, "JSON_INVALID_HEX")
          ELSE IF isLow THEN UTF16Error(last, "JSON_INVALID_UTF16")
          ELSE IF isHigh THEN IF pair THEN LowSurrogate(last, codepoint)
                              ELSE UTF16Error(last, "JSON_CANNOT_ADVANCE")
          ELSE [cur |-> last, codepoint |-> codepoint]
    BY <1>3, SMT DEF jsonParseUTF16
  <2>2. /\ UTF16Error(c, "JSON_INVALID_HEX").cur.err # "JSON_OK"
        /\ UTF16Error(last, "JSON_INVALID_UTF16").cur.err # "JSON_OK"
        /\ UTF16Error(last, "JSON_CANNOT_ADVANCE").cur.err # "JSON_OK"
    BY <1>2, <1>4 DEF JSON_ERRNO
  <2> HIDE DEF isLow, isHigh, noHex, pair
  <2>3. ~noHex
    <3>1. noHex => jsonParseUTF16(c) = UTF16Error(c, "JSON_INVALID_HEX")
      BY <2>1
    <3> QED BY <2>2, <3>1
  <2>4. ~isLow
    <3>1. isLow => jsonParseUTF16(c) = UTF16Error(last, "JSON_INVALID_UTF16")
      BY <2>1, <2>3
    <3> QED BY <2>2, <3>1
  <2>5. isHigh => pair
    <3>1. isHigh /\ ~pair => jsonParseUTF16(c) = UTF16Error(last, "JSON_CANNOT_ADVANCE")
      BY <2>1, <2>3, <2>4
    <3> QED BY <2>2, <3>1
  <2>6. isHigh => jsonParseUTF16(c) = LowSurrogate(last, codepoint)
    BY <2>1, <2>3, <2>4, <2>5
  <2>7. ~isHigh => jsonParseUTF16(c).cur = last
    <3>1. ~isHigh => jsonParseUTF16(c) = [cur |-> last, codepoint |-> codepoint]
      BY <2>1, <2>3, <2>4
    <3> QED BY <3>1
  <2> QED BY <2>3, <2>5, <2>6, <2>7 DEF noHex, pair
<1>7. e > c.offset + 4
  <2>1. \A k \in 0 .. 3 : At(c.offset + 1 + k) # QUOTE
    BY <1>5, FourDigits
  <2>2. e \notin {c.offset + 1, c.offset + 2, c.offset + 3, c.offset + 4}
    <3>1. /\ At(c.offset + 1 + 0) # QUOTE /\ At(c.offset + 1 + 1) # QUOTE
          /\ At(c.offset + 1 + 2) # QUOTE /\ At(c.offset + 1 + 3) # QUOTE
      BY <2>1
    <3>2. /\ c.offset + 1 + 0 = c.offset + 1 /\ c.offset + 1 + 1 = c.offset + 2
          /\ c.offset + 1 + 2 = c.offset + 3 /\ c.offset + 1 + 3 = c.offset + 4
      BY <1>1
    <3> QED BY <3>1, <3>2
  <2> QED BY <1>1, <2>2
<1>8. CASE jsonParseUTF16(c).cur = last
  BY <1>1, <1>4, <1>7, <1>8
<1>9. CASE jsonCanAdvanceBy(last, 6) /\ jsonParseUTF16(c) = LowSurrogate(last, codepoint)
  <2> DEFINE next == jsonAdvance(last)
             low  == jsonUnsafeAdvanceBy(next, 2)
             codepoint2 == parseHex4(Four(low.offset))
  <2>1. last.offset + 6 < buflen /\ last.offset \in 0 .. buflen
    BY <1>4, <1>9 DEF jsonCanAdvanceBy, Cursor
  <2>2. next \in Cursor /\ next.offset = c.offset + 5
    <3>1. last.offset + 1 < buflen
      BY <1>1, <2>1
    <3>2. next \in Cursor /\ next.offset = last.offset + 1
      BY <1>4, <3>1, AdvanceMoves
    <3> QED BY <1>1, <1>4, <3>2
  <2>3. low \in Cursor /\ low.offset = c.offset + 7
    <3>1. next.offset + 2 <= buflen
      BY <1>1, <1>4, <2>1, <2>2
    <3>2. low \in Cursor /\ low.offset = next.offset + 2
      BY <2>2, <3>1, UnsafeAdvanceTyped
    <3> QED BY <1>1, <2>2, <3>2
  <2>4. /\ jsonPeek(next) = BACKSLASH \/ At(next.offset + 1) = "u"
        /\ codepoint2 # INT_MAX
        /\ jsonParseUTF16(c).cur = low
    <3>1. /\ UTF16Error(next, "JSON_INVALID_UTF16").cur.err # "JSON_OK"
          /\ UTF16Error(low, "JSON_INVALID_HEX").cur.err # "JSON_OK"
          /\ UTF16Error(low, "JSON_INVALID_UTF16_SURROGATE").cur.err # "JSON_OK"
      BY <1>2, <2>2, <2>3 DEF JSON_ERRNO
    <3>2. LowSurrogate(last, codepoint).cur.err = "JSON_OK"
      BY <1>9
    <3> DEFINE unlinked == jsonPeek(next) # BACKSLASH /\ At(next.offset + 1) # "u"
               noHex    == codepoint2 = INT_MAX
               noLow    == codepoint2 \notin 56320 .. 57343
               point    == 65536 + (codepoint % 1024) * 1024 + (codepoint2 % 1024)
    <3>3. LowSurrogate(last, codepoint) =
            IF unlinked THEN UTF16Error(next, "JSON_INVALID_UTF16")
            ELSE IF noHex THEN UTF16Error(low, "JSON_INVALID_HEX")
            ELSE IF noLow THEN UTF16Error(low, "JSON_INVALID_UTF16_SURROGATE")
            ELSE [cur |-> low, codepoint |-> point]
      BY SMT DEF LowSurrogate
    <3> HIDE DEF next, low, codepoint2, unlinked, noHex, noLow, point
    <3>4. ~unlinked
      <4>1. unlinked => LowSurrogate(last, codepoint) = UTF16Error(next, "JSON_INVALID_UTF16")
        BY <3>3
      <4> QED BY <3>1, <3>2, <4>1
    <3>5. ~noHex
      <4>1. noHex => LowSurrogate(last, codepoint) = UTF16Error(low, "JSON_INVALID_HEX")
        BY <3>3, <3>4
      <4> QED BY <3>1, <3>2, <4>1
    <3>6. ~noLow
      <4>1. noLow =>
              LowSurrogate(last, codepoint) = UTF16Error(low, "JSON_INVALID_UTF16_SURROGATE")
        BY <3>3, <3>4, <3>5
      <4> QED BY <3>1, <3>2, <4>1
    <3>7. LowSurrogate(last, codepoint) = [cur |-> low, codepoint |-> point]
      BY <3>3, <3>4, <3>5, <3>6
    <3>8. jsonParseUTF16(c).cur = low
      BY <1>9, <3>7
    <3> QED BY <3>4, <3>5, <3>8 DEF unlinked, noHex
  <2>5. e # c.offset + 5
    <3> SUFFICES ASSUME e = c.offset + 5 PROVE FALSE
      OBVIOUS
    <3>1. At(c.offset + 5) = QUOTE /\ At(c.offset + 6) = "u"
      <4>1. jsonPeek(next) # BACKSLASH
        BY <2>2 DEF jsonPeek, QUOTE, BACKSLASH
      <4>2. next.offset + 1 = c.offset + 6
        BY <1>1, <2>2
      <4> QED BY <2>4, <4>1, <4>2
    <3> DEFINE k == c.offset - 1
    <3>2. /\ k \in 0 .. buflen /\ k + 1 = c.offset /\ k + 6 = c.offset + 5
          /\ k + 7 = c.offset + 6
      BY <1>1
    <3>3. At(k) = BACKSLASH /\ At(k + 1) = "u"
      BY <3>2
    <3>4. ASSUME NEW j \in 2 .. 5
          PROVE  isHex(At(k + j))
      <4>1. j - 2 \in 0 .. 3 /\ c.offset + 1 + (j - 2) = k + j
        BY <1>1
      <4>2. isHex(At(c.offset + 1 + (j - 2)))
        BY <1>5, <4>1, FourDigits
      <4> QED BY <4>1, <4>2
    <3> HIDE DEF k
    <3>5. ~(At(k + 6) = QUOTE /\ At(k + 7) = "u")
      BY <3>2, <3>3, <3>4 DEF QuoteInPair
    <3> QED BY <3>1, <3>2, <3>5
  <2>6. e # c.offset + 6
    <3> SUFFICES ASSUME e = c.offset + 6 PROVE FALSE
      OBVIOUS
    <3>1. e - 1 = c.offset + 5 /\ next.offset + 1 = e
      BY <1>1, <2>2
    <3>2. At(next.offset + 1) # "u"
      BY <3>1 DEF QUOTE
    <3>3. jsonPeek(next) = At(e - 1)
      BY <2>2, <3>1 DEF jsonPeek
    <3> QED BY <2>4, <3>2, <3>3
  <2>7. e # c.offset + 7
    <3> DEFINE i == low.offset
    <3>1. parseHex4(Four(i)) # INT_MAX /\ i = c.offset + 7
      BY <2>3, <2>4
    <3> HIDE DEF i
    <3>2. \A k \in 0 .. 3 : At(i + k) # QUOTE
      BY <3>1, FourDigits
    <3>3. 0 \in 0 .. 3 /\ i + 0 = i
      BY <1>1, <3>1
    <3>4. At(i) # QUOTE
      BY <3>2, <3>3
    <3> QED BY <3>1, <3>4
  <2> HIDE DEF next, low, codepoint2
  <2>8. c.offset + 7 \in c.offset + 4 .. e - 1
    <3> DEFINE x == c.offset
    <3>1. x \in Nat /\ e \in Nat /\ e > x + 4 /\ e # x + 5 /\ e # x + 6 /\ e # x + 7
      BY <1>1, <1>7, <2>5, <2>6, <2>7
    <3> HIDE DEF x
    <3>2. x + 7 <= e - 1 /\ x + 4 <= x + 7
      BY <3>1
    <3>3. x + 7 \in x + 4 .. e - 1
      BY <3>1, <3>2
    <3> QED BY <3>3 DEF x
  <2> QED BY <2>3, <2>4, <2>8
<1> QED BY <1>5, <1>8, <1>9

(* A unit is written that stands for as many characters at least as it has *)
(* bytes, and the cursor moves behind them.                                *)
LEMMA PutFits ==
  ASSUME CursorAssumption, StringInv, CopyInv, UNCHANGED input,
         str.pc = "copy", At(str.end) # BACKSLASH,
         NEW unit, NEW n \in Nat, NEW c \in Cursor, PutAndAdvance(unit, n, c),
         c.offset < str.end, n <= c.offset + 1 - cur.offset
  PROVE  CopyInv'
<1>1. /\ buflen \in Nat /\ cur.offset \in Nat /\ c.offset \in Nat
      /\ str.start \in Nat /\ str.end \in Nat /\ str.len \in Nat /\ str.end <= buflen
      /\ input \in Inputs /\ IsCall(str)
  BY TextFacts DEF StringInv, StrTypeOK, Cursor
<1>2. /\ str.cap = str.end - str.start /\ At(str.end) = QUOTE /\ At(str.end - 1) # BACKSLASH
      /\ cur.offset \in str.start + 1 .. str.end
      /\ str.len <= cur.offset - str.start - 1
  BY DEF CopyInv, Fits
<1>3. str.end < buflen
  BY <1>1, <1>2, TextEnds DEF QUOTE, NUL
<1>4. cur'.offset = c.offset + 1
  <2>1. c.offset + 1 < buflen
    BY <1>1, <1>3
  <2> QED BY <1>1, <2>1, AdvanceMoves DEF PutAndAdvance
<1>5. /\ str'.pc = "copy" /\ str'.start = str.start /\ str'.end = str.end
      /\ str'.cap = str.cap /\ str'.len = str.len + n
  BY <1>1 DEF PutAndAdvance, IsCall
<1>6. /\ cur'.offset \in str.start + 1 .. str.end
      /\ str.len + n <= cur'.offset - str.start - 1
  <2> DEFINE x == cur.offset
             y == c.offset
             b == str.start
             e == str.end
             l == str.len
  <2>1. /\ x \in Nat /\ y \in Nat /\ b \in Nat /\ e \in Nat /\ l \in Nat
        /\ x \in b + 1 .. e /\ l <= x - b - 1 /\ y < e /\ n <= y + 1 - x
    BY <1>1, <1>2
  <2> HIDE DEF x, y, b, e, l
  <2>2. y + 1 \in b + 1 .. e /\ l + n <= (y + 1) - b - 1
    BY <2>1
  <2> QED BY <1>4, <2>2 DEF y, b, e, l
<1>7. Fits(str', cur')
  BY <1>2, <1>5, <1>6 DEF Fits
<1> QED BY <1>7, FitsAfter

(* Of a first pass that stopped at a backslash nothing is claimed.         *)
LEMMA OpenStep ==
  ASSUME StringInv, str.pc = "copy", At(str.end) = BACKSLASH, StringStep
  PROVE  CopyInv'
<1>1. IsCall(str)
  BY DEF StringInv
<1>2. UNCHANGED input
  BY DEF StringStep, SizeStep, SizeEnd, CopyPlain, CopyEscape, CopyUnicode,
         CopyBadEscape, CopyQuote
<1>3. str'.pc \in {"copy", "done", "failed"} /\ str'.end = str.end
  BY <1>1 DEF StringStep, SizeStep, SizeEnd, CopyPlain, CopyEscape, CopyUnicode,
              CopyBadEscape, CopyQuote, PutAndAdvance, IsCall
<1>4. Fits(str', cur')
  BY <1>3 DEF Fits
<1> QED BY <1>2, <1>4, FitsAfter

(* Every step of the others keeps it.                                      *)
LEMMA ClosedStep ==
  ASSUME CursorAssumption, StringInv, ~QuoteInPair, CopyInv, StringStep,
         str.pc = "copy" => At(str.end) # BACKSLASH
  PROVE  CopyInv'
<1>1. /\ buflen \in Nat /\ cur \in Cursor /\ cur.offset \in Nat
      /\ str.start \in Nat /\ str.end \in Nat /\ str.len \in Nat /\ str.end <= buflen
      /\ input \in Inputs /\ IsCall(str)
  BY TextFacts DEF StringInv, StrTypeOK, Cursor
<1>2. UNCHANGED input
  BY DEF StringStep, SizeStep, SizeEnd, CopyPlain, CopyEscape, CopyUnicode,
         CopyBadEscape, CopyQuote
<1>3. ASSUME str' = [str EXCEPT !.pc = "failed"]
      PROVE  CopyInv'
  <2>1. str'.pc = "failed"
    BY <1>1, <1>3 DEF IsCall
  <2>2. Fits(str', cur')
    BY <2>1 DEF Fits
  <2> QED BY <1>2, <2>2, FitsAfter
<1>4. ASSUME str.pc = "copy"
      PROVE  /\ str.end < buflen /\ At(str.end) = QUOTE /\ At(str.end - 1) # BACKSLASH
             /\ cur.offset \in str.start + 1 .. str.end
             /\ jsonPeek(cur) # QUOTE => cur.offset < str.end
             /\ jsonPeek(cur) = BACKSLASH => /\ AfterBackslash.offset = cur.offset + 1
                                             /\ cur.offset + 1 < str.end
  <2>1. /\ At(str.end) = QUOTE /\ At(str.end - 1) # BACKSLASH
        /\ cur.offset \in str.start + 1 .. str.end
    BY <1>4 DEF CopyInv, Fits
  <2>2. str.end < buflen
    BY <1>1, <2>1, TextEnds DEF QUOTE, NUL
  <2>3. jsonPeek(cur) # QUOTE => cur.offset < str.end
    <3>1. cur.offset = str.end => jsonPeek(cur) = QUOTE
      BY <2>1 DEF jsonPeek
    <3> QED BY <1>1, <2>1, <3>1
  <2>4. jsonPeek(cur) = BACKSLASH => cur.offset + 1 < str.end
    <3>1. jsonPeek(cur) = BACKSLASH => cur.offset # str.end - 1
      BY <2>1 DEF jsonPeek
    <3>2. BACKSLASH # QUOTE
      BY DEF BACKSLASH, QUOTE
    <3> QED BY <1>1, <2>3, <3>1, <3>2
  <2>5. cur.offset + 1 < str.end => AfterBackslash.offset = cur.offset + 1
    <3>1. cur.offset + 1 < str.end => cur.offset + 1 < buflen
      BY <1>1, <2>2
    <3> QED BY <1>1, <3>1, AdvanceMoves DEF AfterBackslash
  <2> QED BY <2>1, <2>2, <2>3, <2>4, <2>5
<1>5. AfterBackslash \in Cursor
  BY <1>1, AdvanceTyped DEF AfterBackslash
<1>6. CASE SizeStep
  <2> DEFINE e == str.end + IF At(str.end) = BACKSLASH THEN 2 ELSE 1
  <2>1. str.pc = "size" /\ str' = [str EXCEPT !.end = e] /\ cur' = cur
    BY <1>6 DEF SizeStep
  <2>2. e \in Nat /\ e >= str.end
    BY <1>1
  <2> HIDE DEF e
  <2>3. str'.pc = "size" /\ str'.start = str.start /\ str'.end = e /\ str'.len = str.len
    BY <1>1, <2>1 DEF IsCall
  <2>4. /\ str.start + 1 <= str.end /\ str.len = 0
        /\ cur.offset = str.start + 1 \/ str.start + 1 = buflen
    BY <2>1 DEF CopyInv, Fits
  <2>5. str.start + 1 <= e
    BY <1>1, <2>2, <2>4
  <2>6. Fits(str', cur')
    BY <2>1, <2>3, <2>4, <2>5 DEF Fits
  <2> QED BY <1>2, <2>6, FitsAfter
<1>7. CASE SizeEnd
  <2>1. CASE StringFails("JSON_EOF")
    BY <1>3, <2>1 DEF StringFails
  <2>2. CASE /\ At(str.end) # NUL /\ SizeStops /\ UNCHANGED cur
             /\ str' = [str EXCEPT !.pc = "copy", !.cap = str.end - str.start]
    <3>1. str.end < buflen /\ str.end \in 0 .. buflen
      BY <1>1, <2>2, TextEnds
    <3>2. At(str.end) # BACKSLASH => At(str.end) = QUOTE /\ At(str.end - 1) # BACKSLASH
      BY <2>2 DEF SizeStops
    <3>3. str.pc = "size"
      BY <1>7 DEF SizeEnd
    <3>4. cur.offset = str.start + 1 /\ str.start + 1 <= str.end /\ str.len = 0
      BY <1>1, <3>1, <3>3 DEF CopyInv, Fits
    <3>5. /\ str'.pc = "copy" /\ str'.start = str.start /\ str'.end = str.end
          /\ str'.cap = str.end - str.start /\ str'.len = str.len
      BY <1>1, <2>2 DEF IsCall
    <3>6. cur.offset \in str.start + 1 .. str.end /\ 0 <= cur.offset - str.start - 1
      BY <1>1, <3>4
    <3>7. Fits(str', cur')
      BY <2>2, <3>2, <3>4, <3>5, <3>6 DEF Fits
    <3> QED BY <1>2, <3>7, FitsAfter
  <2> QED BY <1>7, <2>1, <2>2 DEF SizeEnd
<1>8. CASE CopyPlain
  <2>1. /\ str.pc = "copy" /\ jsonPeek(cur) # QUOTE
        /\ PutAndAdvance(<<jsonPeek(cur)>>, 1, cur)
    BY <1>8 DEF CopyPlain, Copying
  <2>2. cur.offset < str.end /\ 1 <= cur.offset + 1 - cur.offset
    BY <1>1, <1>4, <2>1
  <2> QED BY <1>1, <1>2, <2>1, <2>2, PutFits
<1>9. CASE CopyEscape
  <2>1. /\ str.pc = "copy" /\ jsonPeek(cur) = BACKSLASH
        /\ PutAndAdvance(<<Unescape(jsonPeek(AfterBackslash))>>, 1, AfterBackslash)
    BY <1>9 DEF CopyEscape, Copying
  <2>2. /\ AfterBackslash.offset < str.end
        /\ 1 <= AfterBackslash.offset + 1 - cur.offset
    BY <1>1, <1>4, <2>1
  <2> QED BY <1>2, <1>5, <2>1, <2>2, PutFits
<1>10. CASE CopyUnicode
  <2> DEFINE read  == jsonParseUTF16(AfterBackslash)
             bytes == utf8Encode(read.codepoint)
  <2>1. /\ str.pc = "copy" /\ jsonPeek(cur) = BACKSLASH /\ jsonPeek(AfterBackslash) = "u"
        /\ \/ str' = [str EXCEPT !.pc = "failed"]
           \/ /\ read.cur.err = "JSON_OK"
              /\ PutAndAdvance(<<"utf8">> \o bytes, Len(bytes), read.cur)
    BY <1>10, Zenon DEF CopyUnicode, Copying
  <2>2. Len(bytes) \in 1 .. 4
    BY EncodedShort
  <2>3. CASE /\ read.cur.err = "JSON_OK"
             /\ PutAndAdvance(<<"utf8">> \o bytes, Len(bytes), read.cur)
    <3>1. /\ AfterBackslash.offset = cur.offset + 1 /\ cur.offset + 1 < str.end
          /\ At(str.end) = QUOTE /\ At(str.end - 1) # BACKSLASH
      BY <1>4, <2>1
    <3>2. /\ AfterBackslash.offset > 0 /\ AfterBackslash.offset < str.end
          /\ AfterBackslash.offset - 1 = cur.offset /\ str.end \in 0 .. buflen
      BY <1>1, <3>1
    <3>3. At(AfterBackslash.offset - 1) = BACKSLASH /\ At(AfterBackslash.offset) = "u"
      BY <2>1, <3>2 DEF jsonPeek
    <3>4. /\ read.cur \in Cursor
          /\ read.cur.offset \in AfterBackslash.offset + 4 .. str.end - 1
      BY <1>1, <1>5, <2>3, <3>1, <3>2, <3>3, UTF16Stops
    <3> DEFINE n == Len(bytes)
    <3> HIDE DEF read, bytes
    <3>5. /\ read.cur.offset < str.end /\ n \in Nat
          /\ n <= read.cur.offset + 1 - cur.offset
      <4> DEFINE x == cur.offset
                 y == read.cur.offset
                 e == str.end
      <4>1. x \in Nat /\ e \in Nat /\ y \in x + 1 + 4 .. e - 1 /\ n \in 1 .. 4
        BY <1>1, <2>2, <3>1, <3>4 DEF n
      <4> HIDE DEF x, y, e, n
      <4>2. y < e /\ n \in Nat /\ n <= y + 1 - x
        BY <4>1
      <4> QED BY <4>2 DEF x, y, e
    <3> QED BY <1>2, <2>1, <2>3, <3>4, <3>5, PutFits
  <2> QED BY <1>3, <2>1, <2>3
<1>11. CASE CopyBadEscape
  BY <1>3, <1>11 DEF CopyBadEscape
<1>12. CASE CopyQuote
  <2>1. CASE str' = [str EXCEPT !.pc = "failed"]
    BY <1>3, <2>1
  <2>2. CASE str' = [str EXCEPT !.pc = "done"]
    <3>1. str'.pc = "done" /\ str'.cap = str.cap /\ str'.len = str.len
      BY <1>1, <2>2 DEF IsCall
    <3>2. str.pc = "copy"
      BY <1>12 DEF CopyQuote, Copying
    <3>3. /\ str.cap = str.end - str.start /\ cur.offset \in str.start + 1 .. str.end
          /\ str.len <= cur.offset - str.start - 1
      BY <3>2 DEF CopyInv, Fits
    <3>4. str.len + 1 <= str.cap
      BY <1>1, <3>3
    <3>5. Fits(str', cur')
      BY <3>1, <3>4 DEF Fits
    <3> QED BY <1>2, <3>5, FitsAfter
  <2> QED BY <1>12, <2>1, <2>2 DEF CopyQuote
<1> QED BY <1>6, <1>7, <1>8, <1>9, <1>10, <1>11, <1>12 DEF StringStep

(* So does every step, wherever the first pass stopped.                    *)
LEMMA CopyStep ==
  ASSUME CursorAssumption, StringInv, ~QuoteInPair, CopyInv, StringStep
  PROVE  CopyInv'
BY OpenStep, ClosedStep

(* What jsonParseString writes, with its terminator, fits in what it asked *)
(* for, though its two passes look for the end of the literal each in its  *)
(* own way: called at a quote, on every text but those on which the first  *)
(* pass stops at a backslash or a pair swallows a quote (OutputFits).      *)
THEOREM OutputAlwaysFits == StringSpec => [](At(0) = QUOTE => OutputFits)
<1> DEFINE I == StringInv /\ (~QuoteInPair /\ At(0) = QUOTE => CopyInv)
               /\ (str.pc = "idle" => cur.offset = 0)
<1>1. StringInit => I
  <2> SUFFICES ASSUME StringInit PROVE I
    OBVIOUS
  <2>1. str.pc = "idle" /\ cur.offset = 0
    BY DEF StringInit, NoString
  <2> QED BY <2>1, CursorAssumption, StringBegins DEF CopyInv, Fits
<1>2. I /\ [StringNext]_<<input, strVars>> => I'
  <2> SUFFICES ASSUME I, [StringNext]_<<input, strVars>> PROVE I'
    OBVIOUS
  <2>1. StringInv /\ input' = input /\ input \in Inputs /\ cur \in Cursor
    BY DEF StringInv, StrTypeOK, StringNext, jsonParseString, StringStep, SizeStep, SizeEnd,
           CopyPlain, CopyEscape, CopyUnicode, CopyBadEscape, CopyQuote
  <2>2. QuoteInPair' = QuoteInPair /\ At(0)' = At(0)
    BY <2>1 DEF QuoteInPair, At, buflen
  <2>3. CASE jsonParseString
    <3>1. StringInv'
      BY <2>1, <2>3, CursorAssumption, CallTyped DEF jsonParseString
    <3>2. At(0) = QUOTE => CopyInv'
      BY <2>1, <2>3, CursorAssumption, CopyCalled DEF jsonParseString, jsonPeek
    <3>3. str'.pc # "idle"
      BY <2>3 DEF jsonParseString, StringCalledAt, NoString
    <3> QED BY <2>2, <3>1, <3>2, <3>3
  <2>4. CASE StringStep
    <3>1. StringInv'
      BY <2>1, <2>4, CursorAssumption, StepTyped
    <3>2. ~QuoteInPair /\ At(0) = QUOTE => CopyInv'
      BY <2>1, <2>4, CursorAssumption, CopyStep
    <3>3. str'.pc # "idle"
      <4>1. IsCall(str)
        BY <2>1 DEF StringInv
      <4> QED BY <2>4, <4>1 DEF StringStep, SizeStep, SizeEnd, CopyPlain, CopyEscape,
             CopyUnicode, CopyBadEscape, CopyQuote, PutAndAdvance, StringFails, Copying, IsCall
    <3> QED BY <2>2, <3>1, <3>2, <3>3
  <2>5. CASE UNCHANGED <<input, strVars>>
    <3>1. UNCHANGED <<str, cur>>
      BY <2>5 DEF strVars
    <3>2. StringInv' = StringInv /\ CopyInv' = CopyInv
      BY <2>1, <3>1 DEF StringInv, IsCall, StrTypeOK, FailureIsReported, Cursor, buflen,
                        CopyInv, Fits, At
    <3> QED BY <2>2, <3>1, <3>2
  <2> QED BY <2>3, <2>4, <2>5 DEF StringNext
<1>3. I => (At(0) = QUOTE => OutputFits)
  BY CursorAssumption, CopyInvFits DEF OutputFits
<1> QED BY <1>1, <1>2, <1>3, PTL DEF StringSpec

-----------------------------------------------------------------------------
(* What a literal spells.  at lists the places where its pieces begin and, *)
(* last, that of its closing quote.                                        *)
PlainPiece(i, j, unit) ==
  At(i) \notin {NUL, QUOTE, BACKSLASH} /\ j = i + 1 /\ unit = <<At(i)>>

EscapedPiece(i, j, unit) ==
  /\ At(i) = BACKSLASH /\ At(i + 1) \in Escapes
  /\ j = i + 2
  /\ unit = <<Unescape(At(i + 1))>>

Surrogates == 55296 .. 57343

(* Four hexadecimal letters: parseHex4 misreads a decimal digit.           *)
Letters(i) == \A d \in 1 .. 4 : isHex(Four(i)[d]) /\ ~isNum(Four(i)[d])

CodedPiece(i, j, unit) ==
  /\ At(i) = BACKSLASH /\ At(i + 1) = "u"
  /\ Letters(i + 2) /\ Hex4Value(Four(i + 2)) \notin Surrogates
  /\ j = i + 6
  /\ unit = <<"utf8">> \o utf8Encode(Hex4Value(Four(i + 2)))

IsPiece(i, j, unit) ==
  PlainPiece(i, j, unit) \/ EscapedPiece(i, j, unit) \/ CodedPiece(i, j, unit)

Pieces == Len(input.meant.units)

Spells(at) ==
  /\ input.meant.units \in Seq(Seq(STRING \cup Nat))
  /\ at \in [0 .. Pieces -> Nat]
  /\ At(0) = QUOTE /\ at[0] = 1
  /\ \A k \in 0 .. Pieces - 1 : IsPiece(at[k], at[k + 1], input.meant.units[k + 1])
  /\ At(at[Pieces]) = QUOTE
  /\ input.meant.ends = at[Pieces] + 1
  /\ input.meant.accept => /\ At(at[Pieces] + 1) \notin {NUL, QUOTE}
                           /\ At(at[Pieces] - 1) # BACKSLASH

SpelledOut == \E at : Spells(at)

(* A cursor without an error.                                              *)
CursorOn(i) == [offset |-> i, err |-> "JSON_OK"]

(* Where the sizing pass can be: where a piece begins, or at a digit.      *)
Sizing(at, e) ==
  \E k \in 0 .. Pieces :
    \/ e = at[k]
    \/ /\ k < Pieces /\ CodedPiece(at[k], at[k + 1], input.meant.units[k + 1])
       /\ e \in at[k] + 2 .. at[k] + 5

Spelling(at) ==
  /\ str.pc = "idle" => cur = CursorOn(0)
  /\ str.pc = "size" => /\ cur = CursorOn(1) /\ str.out = << >>
                        /\ input.meant.accept => Sizing(at, str.end)
  /\ str.pc = "copy" => \E k \in 0 .. Pieces : /\ cur = CursorOn(at[k])
                                               /\ str.out = SubSeq(input.meant.units, 1, k)
  /\ DecodesMeaning
  /\ AcceptsMeaning

SpellInv == \E at : Spells(at) /\ Spelling(at)

(* One more unit.                                                          *)
LEMMA OneMore ==
  ASSUME NEW S, NEW s \in Seq(S), NEW k \in 0 .. Len(s) - 1
  PROVE  Append(SubSeq(s, 1, k), s[k + 1]) = SubSeq(s, 1, k + 1)
<1>1. Len(s) \in Nat /\ \A i \in 1 .. Len(s) : s[i] \in S
  BY LenProperties, ElementOfSeq
<1>2. /\ SubSeq(s, 1, k) = [i \in 1 .. k |-> s[i]]
      /\ SubSeq(s, 1, k + 1) = [i \in 1 .. k + 1 |-> s[i]]
  BY <1>1, SMT
<1> QED BY <1>1, <1>2, SMT

(* No unit, and all of them.                                               *)
LEMMA NoneAndAll ==
  ASSUME NEW S, NEW s \in Seq(S)
  PROVE  SubSeq(s, 1, 0) = << >> /\ SubSeq(s, 1, Len(s)) = s
BY SMT

(* What a piece begins with.                                               *)
LEMMA PieceBegins ==
  ASSUME NEW i, NEW j, NEW unit, IsPiece(i, j, unit)
  PROVE  At(i) \notin {NUL, QUOTE}
<1>1. PlainPiece(i, j, unit) => At(i) \notin {NUL, QUOTE}
  BY DEF PlainPiece
<1>2. EscapedPiece(i, j, unit) \/ CodedPiece(i, j, unit) => At(i) = BACKSLASH
  BY SMT DEF EscapedPiece, CodedPiece
<1>3. BACKSLASH \notin {NUL, QUOTE}
  BY DEF BACKSLASH, NUL, QUOTE
<1> QED BY <1>1, <1>2, <1>3 DEF IsPiece

(* What a \uXXXX is.                                                       *)
LEMMA CodedIs ==
  ASSUME NEW i, NEW j, NEW unit, CodedPiece(i, j, unit)
  PROVE  /\ At(i) = BACKSLASH /\ At(i + 1) = "u" /\ j = i + 6
         /\ \A d \in 1 .. 4 : isHex(Four(i + 2)[d]) /\ ~isNum(Four(i + 2)[d])
         /\ Hex4Value(Four(i + 2)) \notin Surrogates
         /\ unit = <<"utf8">> \o utf8Encode(Hex4Value(Four(i + 2)))
BY DEF CodedPiece, Letters

(* All the places are in the text.                                         *)
LEMMA PlacesInText ==
  ASSUME CursorAssumption, input \in Inputs, NEW at, Spells(at)
  PROVE  /\ Pieces \in Nat /\ buflen \in Nat
         /\ \A k \in 0 .. Pieces : at[k] \in Nat /\ at[k] < buflen
         /\ \A k \in 0 .. Pieces - 1 :
              /\ k \in 0 .. Pieces /\ k + 1 \in 0 .. Pieces
              /\ IsPiece(at[k], at[k + 1], input.meant.units[k + 1])
<1>1. Pieces \in Nat /\ buflen \in Nat
  BY TextFacts, LenProperties DEF Spells, Pieces
<1>2. ASSUME NEW k \in 0 .. Pieces
      PROVE  at[k] \in Nat /\ At(at[k]) # NUL
  <2>1. at[k] \in Nat
    BY DEF Spells
  <2>2. CASE k = Pieces
    BY <2>1, <2>2 DEF Spells, QUOTE, NUL
  <2>3. CASE k # Pieces
    <3>1. k \in 0 .. Pieces - 1
      BY <1>1, <2>3
    <3>2. IsPiece(at[k], at[k + 1], input.meant.units[k + 1])
      BY <3>1 DEF Spells
    <3> QED BY <2>1, <3>2, PieceBegins
  <2> QED BY <2>2, <2>3
<1>3. \A k \in 0 .. Pieces : at[k] \in Nat /\ at[k] < buflen
  BY <1>2, TextEnds
<1>4. \A k \in 0 .. Pieces - 1 : k \in 0 .. Pieces /\ k + 1 \in 0 .. Pieces
  BY <1>1
<1> QED BY <1>1, <1>3, <1>4 DEF Spells

(* An advance inside the text.                                             *)
LEMMA AdvanceHere ==
  ASSUME buflen \in Nat, NEW i \in Nat, i + 1 < buflen
  PROVE  jsonAdvance(CursorOn(i)) = CursorOn(i + 1)
BY DEF jsonAdvance, jsonCanAdvanceBy, jsonUnsafeAdvanceBy, CursorOn

(* A \uXXXX of letters is read in one go.                                  *)
LEMMA CodedRead ==
  ASSUME buflen \in Nat, NEW i \in Nat, NEW j \in Nat, NEW unit, CodedPiece(i, j, unit), j < buflen
  PROVE  jsonParseUTF16(CursorOn(i + 1)) =
           [cur |-> CursorOn(i + 5), codepoint |-> Hex4Value(Four(i + 2))]
<1> DEFINE c         == CursorOn(i + 1)
           codepoint == parseHex4(Four(c.offset + 1))
           v         == Hex4Value(Four(i + 2))
           last      == jsonUnsafeAdvanceBy(c, 4)
<1>1. c.offset + 1 = i + 2 /\ jsonCanAdvanceBy(c, 5) /\ last = CursorOn(i + 5)
  <2>1. j = i + 6
    BY CodedIs
  <2> QED BY <2>1, SMT DEF CursorOn, jsonCanAdvanceBy, jsonUnsafeAdvanceBy
<1>2. codepoint = v /\ v \in Nat /\ v <= 65535
  <2> DEFINE digits == Four(i + 2)
  <2>1. \A d \in 1 .. 4 : isHex(digits[d]) /\ ~isNum(digits[d])
    BY CodedIs
  <2>2. codepoint = parseHex4(digits) /\ v = Hex4Value(digits)
    BY <1>1
  <2> HIDE DEF digits, v, codepoint
  <2>3. /\ Hex4Value(digits) \in Nat /\ Hex4Value(digits) <= 65535
        /\ parseHex4(digits) = Hex4Value(digits)
    BY <2>1, DigitsName, SMT
  <2> QED BY <2>2, <2>3, SMT
<1> DEFINE noHex  == codepoint = INT_MAX
           isLow  == codepoint \in 56320 .. 57343
           isHigh == codepoint \in 55296 .. 56319
           pair   == jsonCanAdvanceBy(last, 6)
<1>3. ~noHex /\ ~isLow /\ ~isHigh
  <2>1. v \notin Surrogates
    BY CodedIs
  <2> HIDE DEF c, v, codepoint
  <2> QED BY <1>2, <2>1, SMT DEF INT_MAX, Surrogates
<1>4. jsonParseUTF16(c) =
        IF ~jsonCanAdvanceBy(c, 5) THEN UTF16Error(c, "JSON_CANNOT_ADVANCE")
        ELSE IF noHex THEN UTF16Error(c, "JSON_INVALID_HEX")
        ELSE IF isLow THEN UTF16Error(last, "JSON_INVALID_UTF16")
        ELSE IF isHigh THEN IF pair THEN LowSurrogate(last, codepoint)
                            ELSE UTF16Error(last, "JSON_CANNOT_ADVANCE")
        ELSE [cur |-> last, codepoint |-> codepoint]
  BY SMT DEF jsonParseUTF16
<1> HIDE DEF c, codepoint, v, last, noHex, isLow, isHigh, pair
<1>5. jsonParseUTF16(c) = [cur |-> last, codepoint |-> codepoint]
  BY <1>1, <1>3, <1>4
<1>6. jsonParseUTF16(c) = [cur |-> CursorOn(i + 5), codepoint |-> v]
  BY <1>1, <1>2, <1>5
<1> QED BY <1>6 DEF c, v

(* Where the sizing pass goes from where it is: it stops at the closing    *)
(* quote of a literal that is to be accepted, and nowhere before it.       *)
LEMMA SizingGoesOn ==
  ASSUME CursorAssumption, input \in Inputs, NEW at, Spells(at), input.meant.accept,
         Sizing(at, str.end)
  PROVE  /\ At(str.end) # NUL
         /\ ~SizeStops => Sizing(at, str.end + IF At(str.end) = BACKSLASH THEN 2 ELSE 1)
<1> DEFINE e    == str.end
           unit == input.meant.units
<1>0. BACKSLASH \notin {NUL, QUOTE} /\ QUOTE # NUL
  BY DEF BACKSLASH, QUOTE, NUL
<1>1. PICK k \in 0 .. Pieces : \/ e = at[k]
                               \/ /\ k < Pieces /\ CodedPiece(at[k], at[k + 1], unit[k + 1])
                                  /\ e \in at[k] + 2 .. at[k] + 5
  BY DEF Sizing
<1>2. /\ Pieces \in Nat /\ at[k] \in Nat
      /\ k < Pieces => /\ k \in 0 .. Pieces - 1 /\ k + 1 \in 0 .. Pieces
                       /\ IsPiece(at[k], at[k + 1], unit[k + 1])
  <2>1. Pieces \in Nat /\ at[k] \in Nat
    BY PlacesInText
  <2>2. k < Pieces => k \in 0 .. Pieces - 1
    BY <2>1
  <2> QED BY <2>1, <2>2, PlacesInText
<1>3. CASE e = at[k] /\ k = Pieces
  <2>1. At(e) = QUOTE /\ At(e - 1) # BACKSLASH
    BY <1>3 DEF Spells
  <2> QED BY <1>0, <2>1 DEF SizeStops
<1>4. CASE e = at[k] /\ k < Pieces
  <2>1. At(e) # NUL
    BY <1>2, <1>4, PieceBegins
  <2>2. CASE PlainPiece(at[k], at[k + 1], unit[k + 1])
    <3>1. At(e) # BACKSLASH /\ at[k + 1] = e + 1
      BY <1>4, <2>2 DEF PlainPiece
    <3>2. Sizing(at, e + 1)
      BY <1>2, <1>4, <3>1 DEF Sizing
    <3> QED BY <2>1, <3>1, <3>2
  <2>3. CASE EscapedPiece(at[k], at[k + 1], unit[k + 1])
    <3>1. At(e) = BACKSLASH /\ at[k + 1] = e + 2
      BY <1>4, <2>3 DEF EscapedPiece
    <3>2. Sizing(at, e + 2)
      BY <1>2, <1>4, <3>1 DEF Sizing
    <3> QED BY <2>1, <3>1, <3>2
  <2>4. CASE CodedPiece(at[k], at[k + 1], unit[k + 1])
    <3>1. At(e) = BACKSLASH
      BY <1>4, <2>4, CodedIs
    <3>2. e + 2 \in at[k] + 2 .. at[k] + 5
      BY <1>2, <1>4
    <3>3. Sizing(at, e + 2)
      BY <1>2, <1>4, <2>4, <3>2 DEF Sizing
    <3> QED BY <2>1, <3>1, <3>3
  <2> QED BY <1>2, <1>4, <2>2, <2>3, <2>4 DEF IsPiece
<1>5. CASE /\ k < Pieces /\ CodedPiece(at[k], at[k + 1], unit[k + 1])
           /\ e \in at[k] + 2 .. at[k] + 5
  <2>1. at[k + 1] = at[k] + 6 /\ \A d \in 1 .. 4 : isHex(Four(at[k] + 2)[d])
    BY <1>5, CodedIs
  <2>2. isHex(At(e))
    <3> DEFINE p == at[k]
               d == e - p - 1
    <3>0. p \in Nat /\ e \in p + 2 .. p + 5
      BY <1>2, <1>5
    <3>1. d \in 1 .. 4 /\ (p + 2) + (d - 1) = e
      <4> HIDE DEF p, e
      <4> QED BY <3>0
    <3>2. Four(at[k] + 2)[d] = At((at[k] + 2) + (d - 1))
      BY <3>1 DEF Four
    <3>3. isHex(Four(at[k] + 2)[d])
      BY <2>1, <3>1
    <3> QED BY <3>1, <3>2, <3>3
  <2>3. At(e) # NUL /\ At(e) # BACKSLASH
    BY <2>2 DEF isHex, isNum, NUL, BACKSLASH
  <2>4. Sizing(at, e + 1)
    <3>1. e + 1 = at[k + 1] \/ e + 1 \in at[k] + 2 .. at[k] + 5
      <4> DEFINE p == at[k]
                 q == at[k + 1]
      <4>1. p \in Nat /\ q = p + 6 /\ e \in p + 2 .. p + 5
        BY <1>2, <1>5, <2>1
      <4> HIDE DEF p, q, e
      <4>2. e + 1 = q \/ e + 1 \in p + 2 .. p + 5
        BY <4>1
      <4> QED BY <4>2 DEF p, q
    <3> QED BY <1>2, <1>5, <3>1 DEF Sizing
  <2> QED BY <2>3, <2>4
<1>6. k < Pieces \/ k = Pieces
  BY <1>2
<1> QED BY <1>1, <1>3, <1>4, <1>5, <1>6

(* What a step makes of the text: nothing.                                 *)
LEMMA SpellsOn ==
  ASSUME UNCHANGED input, NEW at
  PROVE  /\ Spells(at)' = Spells(at)
         /\ Pieces' = Pieces
         /\ \A e : Sizing(at, e)' = Sizing(at, e)
BY DEF Spells, Pieces, IsPiece, PlainPiece, EscapedPiece, CodedPiece, Letters,
       At, buflen, Four, Sizing

(* The sizing pass.                                                        *)
LEMMA SizeSpells ==
  ASSUME CursorAssumption, StringInv, NEW at, Spells(at), Spelling(at),
         str.pc = "size", StringStep
  PROVE  Spelling(at)'
<1>1. /\ input \in Inputs /\ IsCall(str) /\ cur = CursorOn(1) /\ str.out = << >>
      /\ input.meant.accept => Sizing(at, str.end)
  BY DEF StringInv, Spelling
<1>2. SizeStep \/ SizeEnd
  BY DEF StringStep, CopyPlain, CopyEscape, CopyUnicode, CopyBadEscape, CopyQuote, Copying
<1>3. UNCHANGED input
  BY <1>2 DEF SizeStep, SizeEnd
<1>4. CASE SizeStep
  <2> DEFINE e == str.end + IF At(str.end) = BACKSLASH THEN 2 ELSE 1
  <2>1. /\ ~SizeStops /\ str' = [str EXCEPT !.end = e] /\ cur' = cur
    BY <1>1, <1>4 DEF SizeStep, IsCall
  <2> HIDE DEF e
  <2>2. str'.pc = "size" /\ str'.out = << >> /\ str'.end = e
    BY <1>1, <2>1 DEF IsCall
  <2>3. input.meant.accept => Sizing(at, e)
    BY <1>1, <2>1, SizingGoesOn DEF e
  <2>4. (input.meant.accept => Sizing(at, str.end))'
    BY <1>3, <2>2, <2>3 DEF Sizing, Pieces, CodedPiece, Letters, At, buflen, Four
  <2> QED BY <1>1, <2>1, <2>2, <2>4 DEF Spelling, DecodesMeaning, AcceptsMeaning
<1>5. CASE SizeEnd
  <2>1. CASE At(str.end) = NUL /\ StringFails("JSON_EOF")
    <3>1. str'.pc = "failed"
      BY <1>1, <2>1 DEF StringFails, IsCall
    <3>2. ~input.meant.accept
      BY <1>1, <2>1, SizingGoesOn
    <3> QED BY <1>3, <3>1, <3>2 DEF Spelling, DecodesMeaning, AcceptsMeaning
  <2>2. CASE str' = [str EXCEPT !.pc = "copy", !.cap = str.end - str.start] /\ UNCHANGED cur
    <3>1. str'.pc = "copy" /\ str'.out = << >> /\ cur' = CursorOn(1)
      BY <1>1, <2>2 DEF IsCall
    <3>2. at[0] = 1 /\ 0 \in 0 .. Pieces /\ SubSeq(input.meant.units, 1, 0) = << >>
      <4>1. SubSeq(input.meant.units, 1, 0) = << >>
        <5> DEFINE S == Seq(STRING \cup Nat)
        <5>1. input.meant.units \in Seq(S)
          BY DEF Spells
        <5> HIDE DEF S
        <5> QED BY <5>1, NoneAndAll
      <4>2. Pieces \in Nat
        BY <1>1, PlacesInText
      <4> QED BY <4>1, <4>2 DEF Spells
    <3>3. \E k \in 0 .. Pieces' : /\ cur' = CursorOn(at[k])
                              /\ str'.out = SubSeq(input'.meant.units, 1, k)
      BY <1>3, <3>1, <3>2, SpellsOn
    <3> QED BY <3>1, <3>3 DEF Spelling, DecodesMeaning, AcceptsMeaning, CursorOn
  <2> QED BY <1>5, <2>1, <2>2 DEF SizeEnd
<1> QED BY <1>2, <1>4, <1>5

(* The copying pass, at a piece: the piece's unit is written.              *)
LEMMA PieceCopied ==
  ASSUME CursorAssumption, StringInv, NEW i \in Nat, NEW j \in Nat, NEW unit,
         IsPiece(i, j, unit), j < buflen, str.pc = "copy", cur = CursorOn(i), StringStep
  PROVE  /\ UNCHANGED input /\ str'.pc = "copy" /\ cur' = CursorOn(j)
         /\ str'.out = Append(str.out, unit)
<1>1. input \in Inputs /\ IsCall(str) /\ buflen \in Nat
  BY TextFacts DEF StringInv
<1>2. /\ jsonPeek(cur) = At(i) /\ cur = CursorOn(i)
      /\ i + 1 < buflen => AfterBackslash = CursorOn(i + 1)
  BY <1>1, AdvanceHere DEF jsonPeek, CursorOn, AfterBackslash
<1>3. QUOTE # BACKSLASH /\ "u" \notin Escapes /\ jsonPeek(CursorOn(i + 1)) = At(i + 1)
  BY DEF QUOTE, BACKSLASH, Escapes, jsonPeek, CursorOn
<1>4. ASSUME NEW u, NEW n, NEW c, PutAndAdvance(u, n, c)
      PROVE  str'.pc = "copy" /\ str'.out = Append(str.out, u) /\ cur' = jsonAdvance(c)
  BY <1>1, <1>4 DEF PutAndAdvance, IsCall
<1>5. ~SizeStep /\ ~SizeEnd
  BY DEF SizeStep, SizeEnd
<1>6. CASE PlainPiece(i, j, unit)
  <2>1. At(i) \notin {NUL, QUOTE, BACKSLASH} /\ j = i + 1 /\ unit = <<At(i)>>
    BY <1>6 DEF PlainPiece
  <2>2. CopyPlain
    BY <1>2, <1>5, <2>1 DEF StringStep, CopyEscape, CopyUnicode, CopyBadEscape, CopyQuote
  <2>3. UNCHANGED input /\ PutAndAdvance(unit, 1, CursorOn(i))
    BY <1>2, <2>1, <2>2 DEF CopyPlain
  <2>4. jsonAdvance(CursorOn(i)) = CursorOn(j)
    BY <1>1, <2>1, AdvanceHere
  <2> QED BY <1>4, <2>3, <2>4
<1>7. CASE EscapedPiece(i, j, unit)
  <2>1. /\ At(i) = BACKSLASH /\ At(i + 1) \in Escapes /\ j = i + 2
        /\ unit = <<Unescape(At(i + 1))>>
    BY <1>7 DEF EscapedPiece
  <2>2. i + 1 < buflen /\ AfterBackslash = CursorOn(i + 1)
    BY <1>1, <1>2, <2>1
  <2>3. CopyEscape
    BY <1>2, <1>3, <1>5, <2>1, <2>2
       DEF StringStep, CopyPlain, CopyUnicode, CopyBadEscape, CopyQuote
  <2>4. UNCHANGED input /\ PutAndAdvance(unit, 1, CursorOn(i + 1))
    BY <1>3, <2>1, <2>2, <2>3 DEF CopyEscape
  <2>5. jsonAdvance(CursorOn(i + 1)) = CursorOn(j)
    <3>1. i + 1 \in Nat /\ (i + 1) + 1 < buflen /\ (i + 1) + 1 = j
      BY <1>1, <2>1
    <3> QED BY <1>1, <3>1, AdvanceHere
  <2> QED BY <1>4, <2>4, <2>5
<1>8. CASE CodedPiece(i, j, unit)
  <2> DEFINE v == Hex4Value(Four(i + 2))
  <2>1. At(i) = BACKSLASH /\ At(i + 1) = "u" /\ j = i + 6 /\ unit = <<"utf8">> \o utf8Encode(v)
    BY <1>8, CodedIs
  <2>2. i + 1 < buflen /\ AfterBackslash = CursorOn(i + 1)
    BY <1>1, <1>2, <2>1
  <2>3. CopyUnicode
    BY <1>2, <1>3, <1>5, <2>1, <2>2
       DEF StringStep, CopyPlain, CopyEscape, CopyBadEscape, CopyQuote
  <2>4. jsonParseUTF16(CursorOn(i + 1)) = [cur |-> CursorOn(i + 5), codepoint |-> v]
    BY <1>1, <1>8, CodedRead
  <2> HIDE DEF v
  <2>5. /\ jsonParseUTF16(AfterBackslash).cur = CursorOn(i + 5)
        /\ jsonParseUTF16(AfterBackslash).cur.err = "JSON_OK"
        /\ jsonParseUTF16(AfterBackslash).codepoint = v
    BY <2>2, <2>4 DEF CursorOn
  <2>6. UNCHANGED input /\ PutAndAdvance(unit, Len(utf8Encode(v)), CursorOn(i + 5))
    BY <2>1, <2>3, <2>5 DEF CopyUnicode
  <2>7. jsonAdvance(CursorOn(i + 5)) = CursorOn(j)
    <3>1. i + 5 \in Nat /\ (i + 5) + 1 < buflen /\ (i + 5) + 1 = j
      BY <1>1, <2>1
    <3> QED BY <1>1, <3>1, AdvanceHere
  <2> QED BY <1>4, <2>6, <2>7
<1> QED BY <1>1, <1>6, <1>7, <1>8 DEF IsPiece

(* The copying pass, at the closing quote: all is written.                 *)
LEMMA QuoteClosed ==
  ASSUME CursorAssumption, StringInv, NEW at, Spells(at),
         str.pc = "copy", cur = CursorOn(at[Pieces]), StringStep
  PROVE  /\ UNCHANGED input
         /\ \/ str'.pc = "failed" /\ ~input.meant.accept
            \/ str'.pc = "done" /\ str'.out = str.out /\ cur' = CursorOn(at[Pieces] + 1)
<1> DEFINE e == at[Pieces]
           c == jsonAdvance(cur)
<1>1. /\ input \in Inputs /\ IsCall(str) /\ buflen \in Nat /\ e \in Nat /\ e < buflen
      /\ At(e) = QUOTE /\ cur = CursorOn(e)
      /\ input.meant.accept => At(e + 1) \notin {NUL, QUOTE}
  <2>1. input \in Inputs /\ IsCall(str)
    BY DEF StringInv
  <2>2. Pieces \in Nat /\ Pieces \in 0 .. Pieces
    <3>1. Pieces \in Nat
      BY <2>1, PlacesInText
    <3> QED BY <3>1
  <2> QED BY <2>1, <2>2, PlacesInText DEF Spells
<1>2. jsonPeek(cur) = QUOTE /\ QUOTE # BACKSLASH
  <2>1. cur.offset = e
    BY <1>1 DEF CursorOn
  <2>2. QUOTE # BACKSLASH
    BY DEF QUOTE, BACKSLASH
  <2> HIDE DEF e
  <2> QED BY <1>1, <2>1, <2>2 DEF jsonPeek
<1>3. CopyQuote
  BY <1>2 DEF StringStep, SizeStep, SizeEnd, CopyPlain, CopyEscape, CopyUnicode, CopyBadEscape
<1>4. e + 1 < buflen => c = CursorOn(e + 1) /\ jsonPeek(c) = At(e + 1)
  BY <1>1, AdvanceHere DEF jsonPeek, CursorOn
<1>5. ~(e + 1 < buflen) => jsonPeek(c) = QUOTE
  <2> SUFFICES ASSUME ~(e + 1 < buflen) PROVE jsonPeek(c) = QUOTE
    OBVIOUS
  <2>1. c = SetError(cur, "JSON_EOF")
    BY <1>1 DEF jsonAdvance, jsonCanAdvanceBy, CursorOn
  <2>2. c.offset = e
    BY <1>1, <2>1 DEF SetError, CursorOn
  <2> QED BY <1>1, <2>2 DEF jsonPeek
<1>6. input.meant.accept => e + 1 < buflen
  BY <1>1, TextEnds
<1> HIDE DEF e, c
<1>7. CASE jsonPeek(c) = QUOTE
  <2>1. str' = [str EXCEPT !.pc = "failed"] /\ UNCHANGED input
    BY <1>3, <1>7 DEF CopyQuote, c
  <2>2. ~input.meant.accept
    BY <1>1, <1>4, <1>6, <1>7
  <2> QED BY <1>1, <2>1, <2>2 DEF IsCall
<1>8. CASE jsonPeek(c) # QUOTE
  <2>1. str' = [str EXCEPT !.pc = "done"] /\ cur' = c /\ UNCHANGED input
    BY <1>3, <1>8 DEF CopyQuote, c
  <2>2. c = CursorOn(e + 1)
    BY <1>4, <1>5, <1>8
  <2> QED BY <1>1, <2>1, <2>2 DEF IsCall, e
<1> QED BY <1>7, <1>8

(* The copying pass.                                                       *)
LEMMA CopySpells ==
  ASSUME CursorAssumption, StringInv, NEW at, Spells(at), Spelling(at),
         str.pc = "copy", StringStep
  PROVE  UNCHANGED input /\ Spelling(at)'
<1> DEFINE units == input.meant.units
<1>1. PICK k \in 0 .. Pieces : cur = CursorOn(at[k]) /\ str.out = SubSeq(units, 1, k)
  BY DEF Spelling
<1>2. Pieces \in Nat /\ Pieces = Len(units)
  BY PlacesInText DEF StringInv, Pieces
<1>3. /\ k < Pieces => Append(SubSeq(units, 1, k), units[k + 1]) = SubSeq(units, 1, k + 1)
      /\ SubSeq(units, 1, Pieces) = units
  <2> DEFINE S == Seq(STRING \cup Nat)
  <2>1. units \in Seq(S)
    BY DEF Spells
  <2>2. k < Pieces => k \in 0 .. Len(units) - 1
    BY <1>2
  <2> HIDE DEF S, units
  <2> QED BY <1>2, <2>1, <2>2, OneMore, NoneAndAll
<1>4. CASE k < Pieces
  <2>1. k \in 0 .. Pieces - 1 /\ k + 1 \in 0 .. Pieces
    BY <1>2, <1>4
  <2>2. /\ UNCHANGED input /\ str'.pc = "copy" /\ cur' = CursorOn(at[k + 1])
        /\ str'.out = Append(str.out, units[k + 1])
    <3>1. /\ at[k] \in Nat /\ at[k + 1] \in Nat /\ at[k + 1] < buflen
          /\ IsPiece(at[k], at[k + 1], units[k + 1])
      BY <2>1, PlacesInText DEF StringInv
    <3> QED BY <1>1, <3>1, PieceCopied
  <2>3. str'.out = SubSeq(units, 1, k + 1)
    BY <1>1, <1>3, <1>4, <2>2
  <2>4. Pieces' = Pieces
    BY <2>2, SpellsOn
  <2>5. \E m \in 0 .. Pieces' : /\ cur' = CursorOn(at[m])
                              /\ str'.out = SubSeq(input'.meant.units, 1, m)
    BY <2>1, <2>2, <2>3, <2>4
  <2> QED BY <2>2, <2>5 DEF Spelling, DecodesMeaning, AcceptsMeaning, CursorOn
<1>5. CASE k = Pieces
  <2>1. /\ UNCHANGED input
        /\ \/ str'.pc = "failed" /\ ~input.meant.accept
           \/ str'.pc = "done" /\ str'.out = str.out /\ cur' = CursorOn(at[Pieces] + 1)
    BY <1>1, <1>5, QuoteClosed
  <2>2. CASE str'.pc = "failed" /\ ~input.meant.accept
    BY <2>1, <2>2 DEF Spelling, DecodesMeaning, AcceptsMeaning
  <2>3. CASE str'.pc = "done" /\ str'.out = str.out /\ cur' = CursorOn(at[Pieces] + 1)
    <3>1. str'.out = input'.meant.units
      BY <1>1, <1>3, <1>5, <2>1, <2>3
    <3>2. cur'.offset = input'.meant.ends
      BY <2>1, <2>3 DEF CursorOn, Spells
    <3> QED BY <2>1, <2>3, <3>1, <3>2 DEF Spelling, DecodesMeaning, AcceptsMeaning
  <2> QED BY <2>1, <2>2, <2>3
<1>6. k < Pieces \/ k = Pieces
  BY <1>2
<1> QED BY <1>4, <1>5, <1>6

(* The invariant of a literal: what is written so far is what the pieces   *)
(* in front of the cursor spell, and the sizing pass ends at the quote     *)
(* that closes it.                                                         *)
THEOREM SpellInvariant == StringSpec /\ SpelledOut => []SpellInv
<1>1. StringInit /\ SpelledOut => SpellInv
  <2> SUFFICES ASSUME StringInit, SpelledOut PROVE SpellInv
    OBVIOUS
  <2>1. PICK at : Spells(at)
    BY DEF SpelledOut
  <2>2. Spelling(at)
    BY DEF StringInit, NoString, Spelling, CursorOn, DecodesMeaning, AcceptsMeaning
  <2> QED BY <2>1, <2>2 DEF SpellInv
<1>2. SpellInv /\ StringInv /\ [StringNext]_<<input, strVars>> => SpellInv'
  <2> SUFFICES ASSUME SpellInv, StringInv, [StringNext]_<<input, strVars>> PROVE SpellInv'
    OBVIOUS
  <2>1. PICK at : Spells(at) /\ Spelling(at)
    BY DEF SpellInv
  <2>2. CASE jsonParseString
    <3>1. /\ UNCHANGED input /\ str.pc = "idle" /\ cur = CursorOn(0)
          /\ StringCalledAt(cur)
      BY <2>1, <2>2 DEF jsonParseString, Spelling
    <3>2. Pieces \in Nat /\ buflen \in Nat /\ 1 < buflen /\ At(0) = QUOTE /\ at[0] = 1
      <4>1. Pieces \in Nat /\ buflen \in Nat /\ \A k \in 0 .. Pieces : at[k] < buflen
        BY <2>1, CursorAssumption, PlacesInText DEF StringInv
      <4>2. 0 \in 0 .. Pieces
        BY <4>1
      <4> QED BY <2>1, <4>1, <4>2 DEF Spells
    <3>3. jsonPeek(cur) = QUOTE /\ jsonAdvance(cur) = CursorOn(1)
      <4>1. 0 + 1 = 1
        OBVIOUS
      <4> QED BY <3>1, <3>2, <4>1, AdvanceHere DEF jsonPeek, CursorOn
    <3>4. str'.pc = "size" /\ str'.end = 1 /\ str'.out = << >> /\ cur' = CursorOn(1)
      BY <3>1, <3>3 DEF StringCalledAt, NoString, CursorOn
    <3>5. Sizing(at, 1)
      BY <3>2 DEF Sizing
    <3>6. Sizing(at, str.end)'
      BY <3>1, <3>4, <3>5 DEF Sizing, Pieces, CodedPiece, Letters, At, buflen, Four
    <3>7. Spelling(at)'
      BY <3>4, <3>6 DEF Spelling, DecodesMeaning, AcceptsMeaning, CursorOn
    <3>8. Spells(at)'
      BY <2>1, <3>1, SpellsOn
    <3> QED BY <3>7, <3>8 DEF SpellInv
  <2>3. CASE StringStep
    <3>1. str.pc \in {"size", "copy"}
      BY <2>3 DEF StringStep, SizeStep, SizeEnd, CopyPlain, CopyEscape, CopyUnicode,
                  CopyBadEscape, CopyQuote, Copying
    <3>2. Spelling(at)'
      BY <2>1, <2>3, <3>1, CursorAssumption, SizeSpells, CopySpells
    <3>3. UNCHANGED input
      BY <2>3 DEF StringStep, SizeStep, SizeEnd, CopyPlain, CopyEscape, CopyUnicode,
                  CopyBadEscape, CopyQuote
    <3>4. Spells(at)'
      BY <2>1, <3>3, SpellsOn
    <3> QED BY <3>2, <3>4 DEF SpellInv
  <2>4. CASE UNCHANGED <<input, strVars>>
    <3>1. UNCHANGED <<input, cur, str>>
      BY <2>4 DEF strVars
    <3>2. Spells(at)'
      BY <2>1, <3>1, SpellsOn
    <3>3. Spelling(at)'
      BY <2>1, <3>1 DEF Spelling, Sizing, Pieces, CodedPiece, Letters, At, buflen, Four,
                        DecodesMeaning, AcceptsMeaning
    <3> QED BY <3>2, <3>3 DEF SpellInv
  <2> QED BY <2>2, <2>3, <2>4 DEF StringNext
<1> QED BY <1>1, <1>2, StringInvariant, PTL DEF StringSpec

(* What spells no string: the text ends first, or an escape is none, has    *)
(* not four digits, or is half of a pair without the other half.           *)
NoHex(i)     == \E d \in 1 .. 4 : ~isHex(Four(i)[d])
LowHalf(i)   == Letters(i) /\ Hex4Value(Four(i)) \in 56320 .. 57343
HighHalf(i)  == Letters(i) /\ Hex4Value(Four(i)) \in 55296 .. 56319
NoLowHalf(i) ==
  \/ NoHex(i)
  \/ Letters(i) /\ Hex4Value(Four(i)) \notin 56320 .. 57343

BadCode(i) ==
  \/ NoHex(i + 2)
  \/ LowHalf(i + 2)
  \/ HighHalf(i + 2) /\ NoLowHalf(i + 8)

Broken(i) ==
  \/ At(i) = NUL
  \/ At(i) = BACKSLASH /\ At(i + 1) \notin Escapes \cup {"u"}
  \/ At(i) = BACKSLASH /\ At(i + 1) = "u" /\ BadCode(i)

Misspells(at, n) ==
  /\ n \in Nat /\ at \in [0 .. n -> Nat]
  /\ At(0) = QUOTE /\ at[0] = 1
  /\ \A k \in 0 .. n - 1 : \E unit : IsPiece(at[k], at[k + 1], unit)
  /\ Broken(at[n])

MisspelledOut == \E n, at : Misspells(at, n)

(* The cursor is on the last character, with an error.                     *)
Stuck(c) == c \in Cursor /\ c.err = "JSON_EOF" /\ c.offset + 1 >= buflen

Misspelling(at, n) ==
  /\ str.pc # "done"
  /\ str.pc = "idle" => cur = CursorOn(0)
  /\ str.pc = "size" => cur = CursorOn(1) \/ Stuck(cur)
  /\ str.pc = "copy" => (\E k \in 0 .. n : cur = CursorOn(at[k])) \/ Stuck(cur)

MisspellInv == \E n, at : Misspells(at, n) /\ Misspelling(at, n)

(* Four letters are converted; what is not hexadecimal is found out.       *)
LEMMA Converted ==
  ASSUME NEW i
  PROVE  /\ NoHex(i) => parseHex4(Four(i)) = INT_MAX
         /\ Letters(i) => parseHex4(Four(i)) = Hex4Value(Four(i))
<1>1. NoHex(i) => parseHex4(Four(i)) = INT_MAX
  BY DEF NoHex, parseHex4
<1>2. Letters(i) => parseHex4(Four(i)) = Hex4Value(Four(i))
  <2> DEFINE digits == Four(i)
  <2>1. Letters(i) => \A d \in 1 .. 4 : isHex(digits[d]) /\ ~isNum(digits[d])
    BY DEF Letters
  <2> HIDE DEF digits
  <2>2. Letters(i) => parseHex4(digits) = Hex4Value(digits)
    BY <2>1, DigitsName, SMT
  <2> QED BY <2>2 DEF digits
<1> QED BY <1>1, <1>2

(* A bad \uXXXX is refused.                                                *)
LEMMA BadCodeRefused ==
  ASSUME buflen \in Nat, NEW i \in Nat, BadCode(i)
  PROVE  jsonParseUTF16(CursorOn(i + 1)).cur.err # "JSON_OK"
<1> DEFINE c         == CursorOn(i + 1)
           codepoint == parseHex4(Four(c.offset + 1))
           last      == jsonUnsafeAdvanceBy(c, 4)
           noHex  == codepoint = INT_MAX
           isLow  == codepoint \in 56320 .. 57343
           isHigh == codepoint \in 55296 .. 56319
           pair   == jsonCanAdvanceBy(last, 6)
           far    == jsonCanAdvanceBy(c, 5)
           next   == jsonAdvance(last)
           low    == jsonUnsafeAdvanceBy(next, 2)
           codepoint2 == parseHex4(Four(low.offset))
           unlinked == jsonPeek(next) # BACKSLASH /\ At(next.offset + 1) # "u"
           noHex2 == codepoint2 = INT_MAX
           noLow2 == codepoint2 \notin 56320 .. 57343
           point  == 65536 + (codepoint % 1024) * 1024 + (codepoint2 % 1024)
<1>1. c.offset + 1 = i + 2 /\ last = CursorOn(i + 5)
  BY SMT DEF CursorOn, jsonUnsafeAdvanceBy
<1>2. pair => next = CursorOn(i + 6) /\ low = CursorOn(i + 8) /\ low.offset = i + 8
  <2>1. pair => i + 5 + 6 < buflen
    BY <1>1, SMT DEF jsonCanAdvanceBy, CursorOn
  <2>2. pair => next = CursorOn(i + 6)
    <3>1. pair => jsonAdvance(CursorOn(i + 5)) = CursorOn((i + 5) + 1)
      BY <2>1, AdvanceHere, SMT
    <3>2. (i + 5) + 1 = i + 6
      OBVIOUS
    <3> QED BY <1>1, <3>1, <3>2
  <2>3. jsonUnsafeAdvanceBy(CursorOn(i + 6), 2) = CursorOn(i + 8) /\ CursorOn(i + 8).offset = i + 8
    BY SMT DEF jsonUnsafeAdvanceBy, CursorOn
  <2> QED BY <2>2, <2>3
<1>3. jsonParseUTF16(c) =
        IF ~far THEN UTF16Error(c, "JSON_CANNOT_ADVANCE")
        ELSE IF noHex THEN UTF16Error(c, "JSON_INVALID_HEX")
        ELSE IF isLow THEN UTF16Error(last, "JSON_INVALID_UTF16")
        ELSE IF isHigh THEN IF pair THEN LowSurrogate(last, codepoint)
                            ELSE UTF16Error(last, "JSON_CANNOT_ADVANCE")
        ELSE [cur |-> last, codepoint |-> codepoint]
  BY SMT DEF jsonParseUTF16
<1>4. LowSurrogate(last, codepoint) =
        IF unlinked THEN UTF16Error(next, "JSON_INVALID_UTF16")
        ELSE IF noHex2 THEN UTF16Error(low, "JSON_INVALID_HEX")
        ELSE IF noLow2 THEN UTF16Error(low, "JSON_INVALID_UTF16_SURROGATE")
        ELSE [cur |-> low, codepoint |-> point]
  BY SMT DEF LowSurrogate
<1>5. /\ UTF16Error(c, "JSON_CANNOT_ADVANCE").cur.err # "JSON_OK"
      /\ UTF16Error(c, "JSON_INVALID_HEX").cur.err # "JSON_OK"
      /\ UTF16Error(last, "JSON_INVALID_UTF16").cur.err # "JSON_OK"
      /\ UTF16Error(last, "JSON_CANNOT_ADVANCE").cur.err # "JSON_OK"
      /\ pair => /\ UTF16Error(next, "JSON_INVALID_UTF16").cur.err # "JSON_OK"
                 /\ UTF16Error(low, "JSON_INVALID_HEX").cur.err # "JSON_OK"
                 /\ UTF16Error(low, "JSON_INVALID_UTF16_SURROGATE").cur.err # "JSON_OK"
  <2>1. \A m, error : UTF16Error(CursorOn(m), error).cur.err = error
    BY DEF UTF16Error, jsonAdvanceToError, jsonUnsafeAdvanceBy, SetError, CursorOn
  <2> HIDE DEF c, last, next, low, pair
  <2>2. c = CursorOn(i + 1)
    BY DEF c
  <2> QED BY <1>1, <1>2, <2>1, <2>2
<1>6. noHex \/ isLow \/ (isHigh /\ (pair => noHex2 \/ noLow2))
  <2>1. /\ NoHex(i + 2) => noHex
        /\ LowHalf(i + 2) => isLow
        /\ HighHalf(i + 2) => isHigh
    BY <1>1, Converted DEF LowHalf, HighHalf
  <2>2. pair /\ NoLowHalf(i + 8) => noHex2 \/ noLow2
    BY <1>2, Converted DEF NoLowHalf
  <2> HIDE DEF noHex, isLow, isHigh, pair, noHex2, noLow2
  <2>3. NoHex(i + 2) \/ LowHalf(i + 2) \/ (HighHalf(i + 2) /\ NoLowHalf(i + 8))
    BY DEF BadCode
  <2> QED BY <2>1, <2>2, <2>3
<1> HIDE DEF c, codepoint, last, noHex, isLow, isHigh, pair, far, next, low, codepoint2,
             unlinked, noHex2, noLow2, point
<1>7. jsonParseUTF16(c).cur.err # "JSON_OK"
  <2>1. CASE ~far \/ noHex
    BY <1>3, <1>5, <2>1
  <2>2. CASE far /\ ~noHex /\ isLow
    BY <1>3, <1>5, <2>2
  <2>3. CASE far /\ ~noHex /\ ~isLow
    <3>1. isHigh /\ (pair => noHex2 \/ noLow2)
      BY <1>6, <2>3
    <3>2. CASE ~pair
      BY <1>3, <1>5, <2>3, <3>1, <3>2
    <3>3. CASE pair
      <4>1. jsonParseUTF16(c) = LowSurrogate(last, codepoint)
        BY <1>3, <2>3, <3>1, <3>3
      <4>2. \/ LowSurrogate(last, codepoint) = UTF16Error(next, "JSON_INVALID_UTF16")
            \/ LowSurrogate(last, codepoint) = UTF16Error(low, "JSON_INVALID_HEX")
            \/ LowSurrogate(last, codepoint) = UTF16Error(low, "JSON_INVALID_UTF16_SURROGATE")
        BY <1>4, <3>1, <3>3
      <4> QED BY <1>5, <3>3, <4>1, <4>2
    <3> QED BY <3>2, <3>3
  <2> QED BY <2>1, <2>2, <2>3
<1> QED BY <1>7 DEF c

(* What a copying step can be, by the character under the cursor.          *)
LEMMA CopyCases ==
  ASSUME str.pc = "copy", StringStep
  PROVE  /\ jsonPeek(cur) # NUL /\ UNCHANGED input
         /\ jsonPeek(cur) = QUOTE => CopyQuote
         /\ jsonPeek(cur) = BACKSLASH =>
              /\ jsonPeek(AfterBackslash) \in Escapes => CopyEscape
              /\ jsonPeek(AfterBackslash) = "u" => CopyUnicode
              /\ jsonPeek(AfterBackslash) \notin Escapes \cup {"u"} => CopyBadEscape
         /\ jsonPeek(cur) \notin {QUOTE, BACKSLASH} => CopyPlain
<1>1. "u" \notin Escapes /\ BACKSLASH # QUOTE /\ NUL # QUOTE /\ NUL # BACKSLASH
  BY DEF Escapes, BACKSLASH, QUOTE, NUL
<1>2. CopyPlain \/ CopyEscape \/ CopyUnicode \/ CopyBadEscape \/ CopyQuote
  BY DEF StringStep, SizeStep, SizeEnd
<1> QED BY <1>1, <1>2 DEF CopyPlain, CopyEscape, CopyUnicode, CopyBadEscape, CopyQuote

(* A cursor that has failed to advance never leaves the last character, and *)
(* the quote it may stand on closes nothing.                               *)
LEMMA StuckStays ==
  ASSUME CursorAssumption, StringInv, str.pc = "copy", Stuck(cur), StringStep
  PROVE  str'.pc # "done" /\ (str'.pc = "copy" => Stuck(cur)')
<1>1. /\ input \in Inputs /\ IsCall(str) /\ buflen \in Nat
      /\ cur \in Cursor /\ cur.err = "JSON_EOF" /\ cur.offset + 1 >= buflen
  BY TextFacts DEF StringInv, Stuck
<1>2. jsonAdvance(cur) = cur
  <2>1. ~jsonCanAdvanceBy(cur, 1)
    BY <1>1 DEF jsonCanAdvanceBy, Cursor
  <2> QED BY <1>1, <2>1 DEF jsonAdvance, SetError, Cursor
<1>3. BACKSLASH # "u" /\ BACKSLASH \in Escapes
  BY DEF BACKSLASH, Escapes
<1>4. UNCHANGED input
  BY CopyCases
<1>5. CASE UNCHANGED cur /\ str'.pc # "done"
  BY <1>1, <1>4, <1>5 DEF Stuck, Cursor, buflen
<1>6. CASE jsonPeek(cur) = QUOTE
  <2>1. CopyQuote
    BY <1>6, CopyCases
  <2>2. str' = [str EXCEPT !.pc = "failed"]
    BY <1>2, <1>6, <2>1 DEF CopyQuote
  <2> QED BY <1>1, <2>2 DEF IsCall
<1>7. CASE jsonPeek(cur) = BACKSLASH
  <2>1. CopyEscape
    BY <1>2, <1>3, <1>7, CopyCases DEF AfterBackslash
  <2>2. UNCHANGED cur /\ str'.pc = "copy"
    BY <1>1, <1>2, <2>1 DEF CopyEscape, PutAndAdvance, AfterBackslash, IsCall
  <2> QED BY <1>5, <2>2
<1>8. CASE jsonPeek(cur) \notin {QUOTE, BACKSLASH}
  <2>1. CopyPlain
    BY <1>8, CopyCases
  <2>2. UNCHANGED cur /\ str'.pc = "copy"
    BY <1>1, <1>2, <2>1 DEF CopyPlain, PutAndAdvance, IsCall
  <2> QED BY <1>5, <2>2
<1> QED BY <1>6, <1>7, <1>8

(* Once the copying pass is on the text's last character with a failed     *)
(* jsonAdvance behind it, and that is no quote, it never leaves it: it     *)
(* tests no errno (json.c:1166), writes for ever, and neither returns nor  *)
(* fails.  Such calls are the exception of StringReturns.                  *)
THEOREM NeverUnstuck == StringSpec => StuckForEver
<1>1. StringInv /\ [StringNext]_<<input, strVars>>
        => [StuckOnLast => StuckOnLast']_<<input, strVars>>
  <2> SUFFICES ASSUME StringInv, StuckOnLast, [StringNext]_<<input, strVars>>
               PROVE  StuckOnLast'
    OBVIOUS
  <2>1. /\ str.pc = "copy" /\ Stuck(cur) /\ IsCall(str) /\ jsonPeek(cur) # QUOTE
        /\ buflen \in Nat /\ cur \in Cursor
    BY CursorAssumption, TextFacts DEF StuckOnLast, StringInv, StrTypeOK, Stuck
  <2>2. ASSUME UNCHANGED <<input, cur>>, str'.pc = "copy"
        PROVE  StuckOnLast'
    BY <2>2 DEF StuckOnLast, jsonPeek, At, buflen
  <2>3. CASE StringStep
    <3>1. jsonAdvance(cur) = cur
      <4>1. ~jsonCanAdvanceBy(cur, 1)
        BY <2>1 DEF jsonCanAdvanceBy, Cursor, Stuck
      <4> QED BY <2>1, <4>1 DEF jsonAdvance, SetError, Cursor, Stuck
    <3>2. UNCHANGED input
      BY <2>1, <2>3, CopyCases
    <3>3. CASE jsonPeek(cur) = BACKSLASH
      <4>1. BACKSLASH \in Escapes
        BY DEF BACKSLASH, Escapes
      <4>2. CopyEscape
        BY <2>1, <2>3, <3>1, <3>3, <4>1, CopyCases DEF AfterBackslash
      <4>3. UNCHANGED cur /\ str'.pc = "copy"
        BY <2>1, <3>1, <4>2 DEF CopyEscape, PutAndAdvance, AfterBackslash, IsCall
      <4> QED BY <2>2, <3>2, <4>3
    <3>4. CASE jsonPeek(cur) # BACKSLASH
      <4>1. CopyPlain
        BY <2>1, <2>3, <3>4, CopyCases
      <4>2. UNCHANGED cur /\ str'.pc = "copy"
        BY <2>1, <3>1, <4>1 DEF CopyPlain, PutAndAdvance, IsCall
      <4> QED BY <2>2, <3>2, <4>2
    <3> QED BY <3>3, <3>4
  <2>4. CASE jsonParseString
    BY <2>1, <2>4 DEF jsonParseString
  <2>5. CASE UNCHANGED <<input, strVars>>
    BY <2>1, <2>2, <2>5 DEF strVars
  <2> QED BY <2>3, <2>4, <2>5 DEF StringNext
<1> QED BY <1>1, StringInvariant, PTL DEF StringSpec, StuckForEver

(* A piece that the text does not go beyond: the copying pass fails, or is *)
(* stuck behind it.                                                        *)
LEMMA LastPiece ==
  ASSUME CursorAssumption, StringInv, NEW i \in Nat, NEW j \in Nat, NEW unit,
         IsPiece(i, j, unit), j >= buflen, str.pc = "copy", cur = CursorOn(i), StringStep
  PROVE  str'.pc # "done" /\ (str'.pc = "copy" => Stuck(cur)')
<1>1. input \in Inputs /\ IsCall(str) /\ buflen \in Nat /\ buflen' = buflen
  BY TextFacts, CopyCases DEF StringInv, buflen
<1>2. i < buflen /\ jsonPeek(cur) = At(i)
  BY PieceBegins, TextEnds, <1>1 DEF jsonPeek, CursorOn
<1>3. ASSUME NEW m \in Nat, m < buflen, m + 1 >= buflen, NEW u, NEW n,
             PutAndAdvance(u, n, CursorOn(m))
      PROVE  str'.pc = "copy" /\ Stuck(cur)'
  <2>1. jsonAdvance(CursorOn(m)) = [offset |-> m, err |-> "JSON_EOF"]
    BY <1>1, <1>3 DEF jsonAdvance, jsonCanAdvanceBy, CursorOn, SetError
  <2>2. cur' = [offset |-> m, err |-> "JSON_EOF"] /\ str'.pc = "copy"
    BY <1>1, <1>3, <2>1 DEF PutAndAdvance, IsCall
  <2>3. "JSON_EOF" \in JSON_ERRNO
    BY DEF JSON_ERRNO
  <2>4. m \in 0 .. buflen
    BY <1>1, <1>3
  <2> QED BY <1>1, <1>3, <2>2, <2>3, <2>4 DEF Stuck, Cursor
<1>4. CASE PlainPiece(i, j, unit)
  <2>1. At(i) \notin {NUL, QUOTE, BACKSLASH} /\ j = i + 1
    BY <1>4 DEF PlainPiece
  <2>2. CopyPlain
    BY <1>2, <2>1, CopyCases
  <2>3. PutAndAdvance(<<At(i)>>, 1, CursorOn(i))
    BY <1>2, <2>2 DEF CopyPlain
  <2> QED BY <1>2, <1>3, <2>1, <2>3
<1>5. ASSUME At(i) = BACKSLASH, At(i + 1) # NUL
      PROVE  /\ i + 1 < buflen /\ AfterBackslash = CursorOn(i + 1)
             /\ jsonPeek(AfterBackslash) = At(i + 1)
  <2>1. i + 1 < buflen
    BY <1>1, <1>5, TextEnds
  <2>2. AfterBackslash = CursorOn(i + 1)
    BY <1>1, <2>1, AdvanceHere DEF AfterBackslash
  <2> QED BY <2>1, <2>2 DEF jsonPeek, CursorOn
<1>6. NUL \notin Escapes /\ NUL # "u"
  BY DEF NUL, Escapes, BACKSLASH, QUOTE
<1>7. CASE EscapedPiece(i, j, unit)
  <2>1. At(i) = BACKSLASH /\ At(i + 1) \in Escapes /\ j = i + 2
    BY <1>7 DEF EscapedPiece
  <2>2. i + 1 < buflen /\ AfterBackslash = CursorOn(i + 1) /\ CopyEscape
    BY <1>2, <1>5, <1>6, <2>1, CopyCases
  <2>3. \E u : PutAndAdvance(u, 1, CursorOn(i + 1))
    BY <2>2 DEF CopyEscape
  <2>4. i + 1 \in Nat /\ (i + 1) + 1 >= buflen
    BY <1>1, <2>1
  <2> QED BY <1>3, <2>2, <2>3, <2>4
<1>8. CASE CodedPiece(i, j, unit)
  <2>1. At(i) = BACKSLASH /\ At(i + 1) = "u" /\ j = i + 6
    BY <1>8, CodedIs
  <2>2. i + 1 < buflen /\ AfterBackslash = CursorOn(i + 1) /\ CopyUnicode
    BY <1>2, <1>5, <1>6, <2>1, CopyCases
  <2>3. ~jsonCanAdvanceBy(CursorOn(i + 1), 5)
    BY <1>1, <2>1, SMT DEF jsonCanAdvanceBy, CursorOn
  <2>4. jsonParseUTF16(CursorOn(i + 1)) = UTF16Error(CursorOn(i + 1), "JSON_CANNOT_ADVANCE")
    BY <2>3, SMT DEF jsonParseUTF16
  <2>5. UTF16Error(CursorOn(i + 1), "JSON_CANNOT_ADVANCE").cur.err = "JSON_CANNOT_ADVANCE"
    BY DEF UTF16Error, jsonAdvanceToError, jsonUnsafeAdvanceBy, SetError, CursorOn
  <2>6. jsonParseUTF16(AfterBackslash).cur.err # "JSON_OK"
    BY <2>2, <2>4, <2>5
  <2>7. str' = [str EXCEPT !.pc = "failed"]
    BY <2>2, <2>6 DEF CopyUnicode
  <2> QED BY <1>1, <2>7 DEF IsCall
<1> QED BY <1>4, <1>7, <1>8 DEF IsPiece

(* Where a literal goes wrong, the copying pass fails, stops or is stuck.  *)
LEMMA BrokenRefused ==
  ASSUME CursorAssumption, StringInv, NEW i \in Nat, Broken(i),
         str.pc = "copy", cur = CursorOn(i), StringStep
  PROVE  str'.pc # "done" /\ (str'.pc = "copy" => Stuck(cur)')
<1>1. input \in Inputs /\ IsCall(str) /\ buflen \in Nat /\ buflen' = buflen
  BY TextFacts, CopyCases DEF StringInv, buflen
<1>2. At(i) # NUL /\ jsonPeek(cur) = At(i) /\ i < buflen
  BY CopyCases, TextEnds, <1>1 DEF jsonPeek, CursorOn
<1>3. At(i) = BACKSLASH
  BY <1>2 DEF Broken
<1>4. i + 1 < buflen => AfterBackslash = CursorOn(i + 1) /\ jsonPeek(AfterBackslash) = At(i + 1)
  BY <1>1, AdvanceHere DEF AfterBackslash, jsonPeek, CursorOn
<1>5. CASE i + 1 >= buflen
  <2>1. AfterBackslash = [offset |-> i, err |-> "JSON_EOF"]
    BY <1>1, <1>5 DEF AfterBackslash, jsonAdvance, jsonCanAdvanceBy, CursorOn, SetError
  <2>2. jsonPeek(AfterBackslash) = BACKSLASH /\ BACKSLASH \in Escapes
    BY <1>3, <2>1 DEF jsonPeek, Escapes
  <2>3. CopyEscape
    BY <1>2, <1>3, <2>2, CopyCases
  <2>4. cur' = jsonAdvance(AfterBackslash) /\ str'.pc = "copy"
    BY <1>1, <2>3 DEF CopyEscape, PutAndAdvance, IsCall
  <2>5. jsonAdvance(AfterBackslash) = [offset |-> i, err |-> "JSON_EOF"]
    BY <1>1, <1>5, <2>1 DEF jsonAdvance, jsonCanAdvanceBy, SetError
  <2>6. "JSON_EOF" \in JSON_ERRNO /\ i \in 0 .. buflen
    BY <1>1, <1>2 DEF JSON_ERRNO
  <2> QED BY <1>1, <1>5, <2>4, <2>5, <2>6 DEF Stuck, Cursor
<1>6. CASE i + 1 < buflen /\ At(i + 1) \notin Escapes \cup {"u"}
  <2>1. CopyBadEscape
    BY <1>2, <1>3, <1>4, <1>6, CopyCases
  <2> QED BY <1>1, <2>1 DEF CopyBadEscape, IsCall
<1>7. CASE i + 1 < buflen /\ At(i + 1) \in Escapes \cup {"u"}
  <2>1. At(i + 1) = "u" /\ BadCode(i)
    BY <1>2, <1>7 DEF Broken
  <2>2. CopyUnicode
    BY <1>2, <1>3, <1>4, <1>7, <2>1, CopyCases
  <2>3. jsonParseUTF16(AfterBackslash).cur.err # "JSON_OK"
    BY <1>1, <1>4, <1>7, <2>1, BadCodeRefused
  <2>4. str' = [str EXCEPT !.pc = "failed"]
    BY <2>2, <2>3 DEF CopyUnicode
  <2> QED BY <1>1, <2>4 DEF IsCall
<1> QED BY <1>1, <1>5, <1>6, <1>7

(* The places and what goes wrong at the last depend on the text alone.    *)
LEMMA MisspellsOn ==
  ASSUME NEW at, NEW n, Misspells(at, n), UNCHANGED input
  PROVE  Misspells(at, n)'
<1>1. ASSUME NEW i
      PROVE  /\ At(i)' = At(i) /\ Four(i)' = Four(i) /\ Letters(i)' = Letters(i)
             /\ \A j, unit : IsPiece(i, j, unit)' = IsPiece(i, j, unit)
  BY DEF IsPiece, PlainPiece, EscapedPiece, CodedPiece, Letters, At, buflen, Four
<1>2. ASSUME NEW i
      PROVE  NoHex(i)' = NoHex(i) /\ LowHalf(i)' = LowHalf(i) /\ HighHalf(i)' = HighHalf(i)
             /\ NoLowHalf(i)' = NoLowHalf(i)
  BY <1>1 DEF NoHex, LowHalf, HighHalf, NoLowHalf
<1>3. ASSUME NEW i
      PROVE  Broken(i)' = Broken(i)
  <2>1. /\ At(i)' = At(i) /\ At(i + 1)' = At(i + 1)
        /\ NoHex(i + 2)' = NoHex(i + 2) /\ LowHalf(i + 2)' = LowHalf(i + 2)
        /\ HighHalf(i + 2)' = HighHalf(i + 2) /\ NoLowHalf(i + 8)' = NoLowHalf(i + 8)
    BY <1>1, <1>2
  <2>2. BadCode(i)' = BadCode(i)
    BY <2>1 DEF BadCode
  <2> QED BY <2>1, <2>2 DEF Broken
<1>4. At(0)' = At(0) /\ Broken(at[n])' = Broken(at[n])
  BY <1>1, <1>3
<1>5. ASSUME NEW k \in 0 .. n - 1
      PROVE  \E unit : IsPiece(at[k], at[k + 1], unit)'
  <2>1. PICK unit : IsPiece(at[k], at[k + 1], unit)
    BY DEF Misspells
  <2>2. IsPiece(at[k], at[k + 1], unit)' = IsPiece(at[k], at[k + 1], unit)
    BY <1>1
  <2> QED BY <2>1, <2>2
<1> QED BY <1>4, <1>5 DEF Misspells

(* The copying pass of a text that spells no string.                       *)
LEMMA CopyMisspells ==
  ASSUME CursorAssumption, StringInv, NEW at, NEW n, Misspells(at, n), Misspelling(at, n),
         str.pc = "copy", StringStep
  PROVE  Misspelling(at, n)'
<1>1. buflen \in Nat /\ IsCall(str) /\ n \in Nat /\ UNCHANGED input
  BY TextFacts, CopyCases DEF StringInv, Misspells
<1>2. str'.pc \in {"copy", "failed", "done"}
  BY <1>1 DEF StringStep, SizeStep, SizeEnd, CopyPlain, CopyEscape, CopyUnicode,
              CopyBadEscape, CopyQuote, PutAndAdvance, IsCall
<1>3. CASE str'.pc # "done" /\ (str'.pc = "copy" => Stuck(cur)')
  BY <1>2, <1>3 DEF Misspelling
<1>4. CASE Stuck(cur)
  BY <1>3, <1>4, StuckStays
<1>5. ASSUME NEW k \in 0 .. n, cur = CursorOn(at[k])
      PROVE  Misspelling(at, n)'
  <2>1. at[k] \in Nat
    BY DEF Misspells
  <2>2. CASE k = n
    <3>1. Broken(at[k])
      BY <2>2 DEF Misspells
    <3> QED BY <1>3, <1>5, <2>1, <3>1, BrokenRefused
  <2>3. CASE k # n
    <3>1. k \in 0 .. n - 1 /\ k + 1 \in 0 .. n
      BY <1>1, <2>3
    <3>2. PICK unit : IsPiece(at[k], at[k + 1], unit)
      BY <3>1 DEF Misspells
    <3>3. at[k + 1] \in Nat
      BY <3>1 DEF Misspells
    <3>4. CASE at[k + 1] < buflen
      <4>1. str'.pc = "copy" /\ cur' = CursorOn(at[k + 1])
        BY <1>5, <2>1, <3>2, <3>3, <3>4, PieceCopied
      <4>2. \E m \in 0 .. n : cur' = CursorOn(at[m])
        BY <3>1, <4>1
      <4> QED BY <4>1, <4>2 DEF Misspelling, CursorOn
    <3>5. CASE at[k + 1] >= buflen
      BY <1>3, <1>5, <2>1, <3>2, <3>3, <3>5, LastPiece
    <3> QED BY <1>1, <3>3, <3>4, <3>5
  <2> QED BY <2>2, <2>3
<1> QED BY <1>4, <1>5 DEF Misspelling

(* The invariant of a text that spells no string: the copying pass walks   *)
(* its good pieces and never leaves the one that is bad.                   *)
THEOREM MisspellInvariant == StringSpec /\ MisspelledOut => []MisspellInv
<1>1. StringInit /\ MisspelledOut => MisspellInv
  BY DEF StringInit, NoString, MisspelledOut, MisspellInv, Misspelling, CursorOn
<1>2. MisspellInv /\ StringInv /\ [StringNext]_<<input, strVars>> => MisspellInv'
  <2> SUFFICES ASSUME MisspellInv, StringInv, [StringNext]_<<input, strVars>>
               PROVE  MisspellInv'
    OBVIOUS
  <2>1. PICK n, at : Misspells(at, n) /\ Misspelling(at, n)
    BY DEF MisspellInv
  <2>2. UNCHANGED input
    BY DEF strVars, StringNext, jsonParseString, StringStep, SizeStep, SizeEnd, CopyPlain,
           CopyEscape, CopyUnicode, CopyBadEscape, CopyQuote
  <2>3. Misspells(at, n)' /\ n \in Nat /\ buflen \in Nat /\ IsCall(str) /\ UNCHANGED buflen
    BY <2>1, <2>2, MisspellsOn, CursorAssumption, TextFacts DEF StringInv, Misspells, buflen
  <2>4. CASE jsonParseString
    <3>1. str.pc = "idle" /\ cur = CursorOn(0) /\ StringCalledAt(cur) /\ At(0) = QUOTE
      BY <2>1, <2>4 DEF jsonParseString, Misspelling, Misspells
    <3>2. jsonPeek(cur) = QUOTE
      BY <3>1 DEF jsonPeek, CursorOn
    <3>3. cur' = jsonAdvance(cur) /\ str'.pc = "size"
      BY <3>1, <3>2 DEF StringCalledAt, NoString
    <3>4. 0 < buflen
      BY <3>1, CursorAssumption, TextEnds DEF StringInv, QUOTE, NUL
    <3>5. CASE 1 < buflen
      <4>1. jsonAdvance(CursorOn(0)) = CursorOn(0 + 1) /\ 0 + 1 = 1
        BY <2>3, <3>5, AdvanceHere
      <4>2. cur' = CursorOn(1)
        BY <3>1, <3>3, <4>1
      <4>3. Misspelling(at, n)'
        BY <3>3, <4>2 DEF Misspelling, CursorOn
      <4> QED BY <2>3, <4>3 DEF MisspellInv
    <3>6. CASE ~(1 < buflen)
      <4>1. cur' = [offset |-> 0, err |-> "JSON_EOF"]
        BY <2>3, <3>1, <3>3, <3>6 DEF jsonAdvance, jsonCanAdvanceBy, SetError, CursorOn
      <4>2. Stuck(cur)'
        BY <2>3, <3>6, <4>1 DEF Stuck, Cursor, JSON_ERRNO
      <4>3. Misspelling(at, n)'
        BY <3>3, <4>2 DEF Misspelling
      <4> QED BY <2>3, <4>3 DEF MisspellInv
    <3> QED BY <3>5, <3>6
  <2>5. CASE SizeStep \/ SizeEnd
    <3>1. str.pc = "size" /\ (cur = CursorOn(1) \/ Stuck(cur)) /\ at[0] = 1 /\ 0 \in 0 .. n
      BY <2>1, <2>3, <2>5 DEF SizeStep, SizeEnd, Misspelling, Misspells
    <3>2. \/ str'.pc = "failed"
          \/ str'.pc \in {"size", "copy"} /\ UNCHANGED cur
      BY <2>3, <2>5 DEF SizeStep, SizeEnd, StringFails, IsCall
    <3>3. UNCHANGED cur => /\ cur' = CursorOn(1) \/ Stuck(cur)'
                           /\ (\E k \in 0 .. n : cur' = CursorOn(at[k])) \/ Stuck(cur)'
      BY <2>3, <3>1 DEF Stuck, Cursor
    <3>4. Misspelling(at, n)'
      BY <3>2, <3>3 DEF Misspelling, CursorOn
    <3> QED BY <2>3, <3>4 DEF MisspellInv
  <2>6. CASE StringStep /\ ~SizeStep /\ ~SizeEnd
    <3>1. str.pc = "copy"
      BY <2>6 DEF StringStep, CopyPlain, CopyEscape, CopyUnicode, CopyBadEscape, CopyQuote, Copying
    <3>2. Misspelling(at, n)'
      BY <2>1, <2>6, <3>1, CursorAssumption, CopyMisspells
    <3> QED BY <2>3, <3>2 DEF MisspellInv
  <2>7. CASE UNCHANGED <<input, strVars>>
    <3>1. Misspelling(at, n)'
      BY <2>1, <2>3, <2>7 DEF strVars, Misspelling, Stuck, Cursor, CursorOn
    <3> QED BY <2>3, <3>1 DEF MisspellInv
  <2> QED BY <2>4, <2>5, <2>6, <2>7 DEF StringNext
<1> QED BY <1>1, <1>2, StringInvariant, PTL DEF StringSpec

(* A literal of any length, made of plain characters, escapes of one       *)
(* character and \uXXXX of letters, is decoded to what its pieces spell,   *)
(* with the cursor behind its quote; a text that spells no string, because *)
(* it ends first or an escape is none or half of one, is never taken for   *)
(* one.                                                                    *)
THEOREM LiteralsDecoded ==
  StringSpec /\ (SpelledOut \/ MisspelledOut) => []DecodesMeaning
<1>1. SpellInv \/ MisspellInv => DecodesMeaning
  BY DEF SpellInv, Spelling, MisspellInv, Misspelling, DecodesMeaning
<1> QED BY <1>1, SpellInvariant, MisspellInvariant, PTL

(* A literal is not refused when something other than a quote follows it   *)
(* and no backslash is in front of its quote.                              *)
THEOREM LiteralsAccepted == StringSpec /\ SpelledOut => []AcceptsMeaning
<1>1. SpellInv => AcceptsMeaning
  BY DEF SpellInv, Spelling
<1> QED BY <1>1, SpellInvariant, PTL
=============================================================================
