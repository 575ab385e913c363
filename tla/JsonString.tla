---------------------------- MODULE JsonString ----------------------------
(***************************************************************************)
(* jsonParseString: a first pass finds how many bytes the string can need, *)
(* jsonAlloc provides them, a second pass copies and decodes.  The passes  *)
(* decide on their own where the string ends.                              *)
(*                                                                         *)
(* out holds one unit per character written: <<ch>> for a byte copied as   *)
(* it is or through an escape, <<"utf8", b1, .., bn>> for what utf8Encode  *)
(* appends.  len is `len', the number of bytes written.                    *)
(***************************************************************************)
EXTENDS JsonCursor, JsonUnicode

CONSTANT MaxLen   (* bound: bytes written by one call                      *)

VARIABLES
  cur,    (* p->offset and p->errno                                        *)
  str     (* the locals of the call: [pc, start, end, cap, out, len]       *)

strVars == <<cur, str>>

QUOTE     == "\""
BACKSLASH == "\\"

NoString ==
  [pc |-> "idle", start |-> 0, end |-> 0, cap |-> 0, out |-> << >>, len |-> 0]

StringRunning  == str.pc \in {"size", "copy"}
StringReturned == str.pc \in {"done", "failed"}

(* NULL on every error path, else the bytes written, NUL-terminated.       *)
StringResult == IF str.pc = "done" THEN str.out ELSE "NULL"

-----------------------------------------------------------------------------
(* The call: at a quote both cursors move past it.                         *)
StringCalledAt(c) ==
  LET quoted == jsonPeek(c) = QUOTE
  IN  /\ cur' = IF quoted THEN jsonAdvance(c) ELSE c
      /\ str' = [NoString EXCEPT
                   !.pc = "size",
                   !.start = c.offset,
                   !.end = c.offset + IF quoted THEN 1 ELSE 0]

StringFails(error) ==
  /\ cur' = SetError(cur, error)
  /\ str' = [str EXCEPT !.pc = "failed"]

-----------------------------------------------------------------------------
(* First pass: "approximate string length".                                *)

(* An unescaped quote, judged by the character before it alone, ends it;   *)
(* so does a backslash that is the last character of the text.             *)
SizeStops ==
  \/ At(str.end) = QUOTE /\ At(str.end - 1) # BACKSLASH
  \/ At(str.end) = BACKSLASH /\ At(str.end + 1) = NUL

(* Mutants of SizeStep: every escape is taken for a \uXXXX, or the loop     *)
(* turns on a plain character without passing it.                          *)
SizeStepSix ==
  /\ str.pc = "size"
  /\ At(str.end) # NUL
  /\ ~SizeStops
  /\ str' = [str EXCEPT !.end = @ + IF At(@) = BACKSLASH THEN 6 ELSE 1]
  /\ UNCHANGED <<input, cur>>
SizeStepStays ==
  /\ str.pc = "size"
  /\ At(str.end) # NUL
  /\ ~SizeStops
  /\ str' = [str EXCEPT !.end = @ + IF At(@) = BACKSLASH THEN 2 ELSE 0]
  /\ UNCHANGED <<input, cur>>

SizeStep ==
  /\ str.pc = "size"
  /\ At(str.end) # NUL
  /\ ~SizeStops
  /\ str' = [str EXCEPT !.end = @ + IF At(@) = BACKSLASH THEN 2 ELSE 1]
  /\ UNCHANGED <<input, cur>>

(* Mutant of SizeEnd: no room for the terminating NUL.                     *)
SizeEndShort ==
  /\ str.pc = "size"
  /\ \/ At(str.end) = NUL /\ StringFails("JSON_EOF")
     \/ /\ At(str.end) # NUL
        /\ SizeStops
        /\ str' = [str EXCEPT !.pc = "copy", !.cap = str.end - str.start - 1]
        /\ UNCHANGED cur
  /\ UNCHANGED input

SizeEnd ==
  /\ str.pc = "size"
  /\ \/ At(str.end) = NUL /\ StringFails("JSON_EOF")
     \/ /\ At(str.end) # NUL
        /\ SizeStops
        /\ str' = [str EXCEPT !.pc = "copy", !.cap = str.end - str.start]
        /\ UNCHANGED cur
  /\ UNCHANGED input

-----------------------------------------------------------------------------
(* jsonParseUTF16, called at the `u': the cursor after it and the code     *)
(* point.  A pair leaves the cursor on the first digit of its second half: *)
(* its last call asks whether it can advance and does not.                 *)

Four(i) == [k \in 1 .. 4 |-> At(i + (k - 1))]

UTF16Error(c, error) == [cur |-> jsonAdvanceToError(c, 0, error), codepoint |-> 0]

(* The low half, read behind the two characters that should be `\u'.       *)
LowSurrogate(c, high) ==
  LET next == jsonAdvance(c)
      low  == jsonUnsafeAdvanceBy(next, 2)
      codepoint2 == parseHex4(Four(low.offset))
  IN  IF jsonPeek(next) # BACKSLASH /\ At(next.offset + 1) # "u"
        THEN UTF16Error(next, "JSON_INVALID_UTF16")
      ELSE IF codepoint2 = INT_MAX
        THEN UTF16Error(low, "JSON_INVALID_HEX")
      ELSE IF codepoint2 \notin 56320 .. 57343
        THEN UTF16Error(low, "JSON_INVALID_UTF16_SURROGATE")
      ELSE [cur |-> low,
            codepoint |-> 65536 + (high % 1024) * 1024 + (codepoint2 % 1024)]

jsonParseUTF16(c) ==
  LET codepoint == parseHex4(Four(c.offset + 1))
      last      == jsonUnsafeAdvanceBy(c, 4)
  IN  IF ~jsonCanAdvanceBy(c, 5)
        THEN UTF16Error(c, "JSON_CANNOT_ADVANCE")
      ELSE IF codepoint = INT_MAX
        THEN UTF16Error(c, "JSON_INVALID_HEX")
      ELSE IF codepoint \in 56320 .. 57343
        THEN UTF16Error(last, "JSON_INVALID_UTF16")
      ELSE IF codepoint \in 55296 .. 56319
        THEN IF jsonCanAdvanceBy(last, 6)
             THEN LowSurrogate(last, codepoint)
             ELSE UTF16Error(last, "JSON_CANNOT_ADVANCE")
      ELSE [cur |-> last, codepoint |-> codepoint]

-----------------------------------------------------------------------------
(* Second pass, one action per case of the switch.                         *)

Copying == str.pc = "copy" /\ str.len < MaxLen

(* A unit of n bytes is written, then the loop advances from c.            *)
PutAndAdvance(unit, n, c) ==
  /\ str' = [str EXCEPT !.out = Append(@, unit), !.len = @ + n]
  /\ cur' = jsonAdvance(c)

CopyPlain ==
  /\ Copying
  /\ jsonPeek(cur) \notin {NUL, QUOTE, BACKSLASH}
  /\ PutAndAdvance(<<jsonPeek(cur)>>, 1, cur)
  /\ UNCHANGED input

(* Mutants of Escapes: one case of the switch is missing; of Unescape: the *)
(* letter is copied.                                                       *)
EscapesButQuote == {BACKSLASH, "/", "b", "f", "n", "r", "t"}
UnescapeNot(ch) == ch

(* What the escapes of one character stand for; \b has no letter of its    *)
(* own, and is its name.                                                   *)
Escapes == {BACKSLASH, QUOTE, "/", "b", "f", "n", "r", "t"}
Unescape(ch) ==
  CASE ch = "b" -> "BS" [] ch = "f" -> "\f" [] ch = "n" -> "\n"
    [] ch = "r" -> "\r" [] ch = "t" -> "\t" [] OTHER -> ch

(* The backslash has been passed, or it is the text's last character and   *)
(* jsonAdvance has left the cursor on it.                                  *)
AfterBackslash == jsonAdvance(cur)

CopyEscape ==
  /\ Copying
  /\ jsonPeek(cur) = BACKSLASH
  /\ jsonPeek(AfterBackslash) \in Escapes
  /\ PutAndAdvance(<<Unescape(jsonPeek(AfterBackslash))>>, 1, AfterBackslash)
  /\ UNCHANGED input

CopyUnicode ==
  /\ Copying
  /\ jsonPeek(cur) = BACKSLASH
  /\ jsonPeek(AfterBackslash) = "u"
  /\ LET read  == jsonParseUTF16(AfterBackslash)
         bytes == utf8Encode(read.codepoint)
     IN  \/ /\ read.cur.err # "JSON_OK"
            /\ cur' = read.cur
            /\ str' = [str EXCEPT !.pc = "failed"]
         \/ /\ read.cur.err = "JSON_OK"
            /\ PutAndAdvance(<<"utf8">> \o bytes, Len(bytes), read.cur)
  /\ UNCHANGED input

(* Mutant of CopyBadEscape: NULL is returned and no error set.             *)
CopyBadEscapeSilent ==
  /\ Copying
  /\ jsonPeek(cur) = BACKSLASH
  /\ jsonPeek(AfterBackslash) \notin Escapes \cup {"u"}
  /\ cur' = AfterBackslash
  /\ str' = [str EXCEPT !.pc = "failed"]
  /\ UNCHANGED input

CopyBadEscape ==
  /\ Copying
  /\ jsonPeek(cur) = BACKSLASH
  /\ jsonPeek(AfterBackslash) \notin Escapes \cup {"u"}
  /\ cur' = SetError(AfterBackslash, "JSON_INVALID_ESCAPE_CHARACTER")
  /\ str' = [str EXCEPT !.pc = "failed"]
  /\ UNCHANGED input

(* The closing quote ends the loop after a last jsonAdvance; a quote under *)
(* the cursor then is an error, its own when the text ends with it.        *)
CopyQuote ==
  /\ Copying
  /\ jsonPeek(cur) = QUOTE
  /\ LET c == jsonAdvance(cur)
     IN  \/ /\ jsonPeek(c) = QUOTE
            /\ cur' = SetError(c, "JSON_INVALID_STRING_NOT_TERMINATED")
            /\ str' = [str EXCEPT !.pc = "failed"]
         \/ /\ jsonPeek(c) # QUOTE
            /\ cur' = c
            /\ str' = [str EXCEPT !.pc = "done"]
  /\ UNCHANGED input

StringStep ==
  \/ SizeStep \/ SizeEnd
  \/ CopyPlain \/ CopyEscape \/ CopyUnicode \/ CopyBadEscape \/ CopyQuote

-----------------------------------------------------------------------------
(* The function on its own: called once, on the first character.           *)

StringInit ==
  /\ input \in Inputs
  /\ cur = [offset |-> 0, err |-> "JSON_OK"]
  /\ str = NoString

jsonParseString ==
  /\ str.pc = "idle"
  /\ StringCalledAt(cur)
  /\ UNCHANGED input

StringNext == jsonParseString \/ StringStep

StringSpec ==
  /\ StringInit
  /\ [][StringNext]_<<input, strVars>>
  /\ WF_<<input, strVars>>(StringNext)

-----------------------------------------------------------------------------
(* The parser never looks beyond the NUL: both cursors stay in the text.   *)
StrTypeOK ==
  /\ cur \in Cursor
  /\ str.pc \in {"idle", "size", "copy", "done", "failed"}
  /\ str.start \in 0 .. buflen
  /\ str.end \in str.start .. buflen
  /\ str.cap \in 0 .. buflen
  /\ str.len \in Nat

(* The two ways the second pass goes beyond the place where the first one   *)
(* stopped.  That was a backslash, the text's last character (json.c:1150). *)
(* Or a quote in front of a `u' is taken for the backslash of the second    *)
(* half of a pair: json.c:1098 refuses only if both are missing.            *)
OpenEscape == str.pc \in {"copy", "done"} /\ At(str.end) = BACKSLASH
QuoteInPair ==
  \E k \in 0 .. buflen :
    /\ At(k) = BACKSLASH /\ At(k + 1) = "u"
    /\ \A j \in 2 .. 5 : isHex(At(k + j))
    /\ At(k + 6) = QUOTE /\ At(k + 7) = "u"

(* What the second pass writes, with its NUL, fits in what was allocated    *)
(* from the first pass's estimate, though the two scan on their own; on     *)
(* every text but those two, of which MCJsonStringOverrun shows that it     *)
(* does not fit.                                                            *)
CopyFits ==
  /\ str.pc = "copy" => str.len < str.cap
  /\ str.pc = "done" => str.len + 1 <= str.cap
OutputFits == CopyFits \/ OpenEscape \/ QuoteInPair

(* A failed string always leaves an error behind, so that jsonParseValue,  *)
(* which looks at errno only, cannot take NULL for a value.                *)
FailureIsReported == str.pc = "failed" => cur.err # "JSON_OK"

(* The decoded string is what the text was written to mean, the cursor     *)
(* stands behind its closing quote, and a text that is no string fails.    *)
DecodesMeaning ==
  str.pc = "done" =>
    /\ str.out = input.meant.units
    /\ cur.offset = input.meant.ends

(* A string that the text closes, and follows with more, is not refused.   *)
AcceptsMeaning == str.pc = "failed" => ~input.meant.accept

(* The copying loop does not look at errno (json.c:1166).  Once it is on    *)
(* the text's last character jsonAdvance fails, the cursor stays, and       *)
(* unless that character is a quote it is written again for ever, or up to  *)
(* MaxLen here.                                                             *)
StuckOnLast ==
  /\ str.pc = "copy"
  /\ cur.err = "JSON_EOF" /\ cur.offset + 1 >= buflen
  /\ jsonPeek(cur) # QUOTE

(* Both passes end on every text, but for a copy that gets stuck on its     *)
(* last character; such a one never ends.                                   *)
StringReturns  == <>(StringReturned \/ StuckOnLast)
StuckForEver   == [][StuckOnLast => StuckOnLast']_<<input, strVars>>

(* Without the exception: the call returns.                                 *)
EveryCallReturns == <>StringReturned
=============================================================================
