----------------------------- MODULE JsonNumber -----------------------------
(***************************************************************************)
(* jsonParseNumber and the functions it calls.  Each reads forward from    *)
(* the cursor, so each is an operator: the positions where its loops stop, *)
(* then the cursor and the value it leaves.                                *)
(*                                                                         *)
(* A float is kept as the code has it before the last operation:           *)
(* fraction, divided or multiplied by I64Pow10(exponent).                  *)
(***************************************************************************)
EXTENDS JsonCursor, SequencesExt

CONSTANTS
  MantissaLimit,   (* 18: digits of a float that are read                  *)
  MaxPow10         (* 308: the last entry of powers_of_10                  *)

JSON_MAX_EXPONENT == 511
EXPONENT_CAP == 2147483647 \div 100

isE(ch) == ch \in {"e", "E"}
isX(ch) == ch \in {"x", "X"}

(* The characters of the text from first up to but not including end.      *)
Slice(first, end) == [k \in 1 .. end - first |-> At(first + (k - 1))]

(* Mutant of NotNumFrom: a loop that stops one character late.             *)
NotNumLate(i)     == 1 + Min({j \in i .. buflen : ~isNum(At(j))})

(* Where a loop that starts at i and stops on Stops(ch) stops.             *)
NotNumFrom(i)     == Min({j \in i .. buflen : ~isNum(At(j))})
TerminatorFrom(i) == Min({j \in i .. buflen : isNumTerminator(At(j))})

Decimal(digits) == FoldLeft(LAMBDA r, ch : r * 10 + toInt(ch), 0, digits)
Hexadecimal(digits) ==
  FoldLeft(LAMBDA r, ch : r * 16 + (IF isNum(ch) THEN toInt(ch) ELSE toHex(ch)),
           0, digits)

(* Digits stop counting once the exponent has reached EXPONENT_CAP.        *)
ExponentValue(digits) ==
  FoldLeft(LAMBDA r, ch : IF r < EXPONENT_CAP THEN r * 10 + toInt(ch) ELSE r,
           0, digits)

(* Mutant of I64Pow10: the last entry of the table is not used.            *)
I64Pow10Short(idx) ==
  IF idx >= MaxPow10 THEN idx ELSE IF idx < -MaxPow10 THEN 0 ELSE 10^idx

I64Pow10(idx) ==
  IF idx > MaxPow10 THEN idx ELSE IF idx < -MaxPow10 THEN 0 ELSE 10^idx

(* Conversion of a quotient to an integer drops the fraction.              *)
TruncDiv(a, b) == IF a >= 0 THEN a \div b ELSE -((-a) \div b)

(* An exponent at i: [sign, value, end].                                   *)
Exponent(i) ==
  LET signed == At(i + 1) \in {"-", "+"}
      first  == i + IF signed THEN 2 ELSE 1
      end    == NotNumFrom(first)
  IN  [negative |-> signed /\ At(i + 1) = "-",
       value |-> ExponentValue(Slice(first, end)), end |-> end]

-----------------------------------------------------------------------------
(* countNumberLen: the length up to a terminator, or 0 and an error.       *)

Repeats(i, from) ==
  \E j \in from .. i - 1 : \/ isE(At(i)) /\ isE(At(j))
                           \/ isX(At(i)) /\ isX(At(j))
                           \/ At(i) = "." /\ At(j) = "."

NotInNumber(ch) == ~(isHex(ch) \/ isX(ch) \/ ch \in {"-", "+", "."})

countNumberLen(c) ==
  LET from == c.offset
      end  == TerminatorFrom(from)
      bad  == {i \in from .. end - 1 : NotInNumber(At(i)) \/ Repeats(i, from)}
      Seen(Kind(_)) == \E i \in from .. end - 1 : Kind(At(i))
      isDot(ch) == ch = "."
      Fail(i) == [cur |-> jsonAdvanceToError(c, i - from, "JSON_INVALID_NUMBER"),
                  len |-> 0]
  IN  IF bad # {} THEN Fail(Min(bad))
      ELSE IF Seen(isX) /\ (Seen(isDot) \/ Seen(isE)) THEN Fail(end)
      ELSE [cur |-> c, len |-> end - from]

(* countMantissa: digits and the first point; decidx is -1 without one.    *)
countMantissa(ptr) ==
  LET first == NotNumFrom(ptr)
  IN  IF At(first) = "."
      THEN [mantissa |-> NotNumFrom(first + 1) - ptr, decidx |-> first - ptr]
      ELSE [mantissa |-> first - ptr, decidx |-> -1]

-----------------------------------------------------------------------------
stringToHex(c) ==
  LET stop == Min({i \in c.offset .. buflen : ~isHex(At(i))})
      moved == [c EXCEPT !.offset = stop]
  IN  [cur |-> IF isNumTerminator(At(stop)) THEN moved
               ELSE SetError(moved, "JSON_INVALID_HEX"),
       value |-> Hexadecimal(Slice(c.offset, stop))]

(* A leading zero must begin a hexadecimal number, whose sign is dropped.  *)
LeadingZero(c) ==
  IF isX(At(c.offset + 1))
  THEN stringToHex(jsonUnsafeAdvanceBy(c, 2))
  ELSE [cur |-> jsonAdvanceToError(c, 1, "JSON_INVALID_NUMBER"), value |-> 0]

Scaled(value, exponent) ==
  IF exponent.value = 0 THEN value
  ELSE IF exponent.negative THEN TruncDiv(value, I64Pow10(exponent.value))
  ELSE value * I64Pow10(exponent.value)

DecimalInteger(c, neg) ==
  LET stop == Min({i \in c.offset .. buflen : isE(At(i)) \/ isNumTerminator(At(i))})
      digits == Decimal(Slice(c.offset, stop))
      exponent == Exponent(stop)
      end   == IF isE(At(stop)) THEN exponent.end ELSE stop
      value == IF isE(At(stop)) THEN Scaled(digits, exponent) ELSE digits
  IN  [cur |-> [c EXCEPT !.offset = end], value |-> IF neg THEN -value ELSE value]

stringToI64(c, neg) ==
  IF jsonPeek(c) = "0" THEN LeadingZero(c) ELSE DecimalInteger(c, neg)

-----------------------------------------------------------------------------
(* jsonParseFloat: it reads at most MantissaLimit digits and looks for the *)
(* exponent where it stopped reading.                                      *)

Clamped(e) ==
  [divide |-> e < 0,
   exponent |-> IF e < -JSON_MAX_EXPONENT \/ e > JSON_MAX_EXPONENT
                THEN JSON_MAX_EXPONENT ELSE IF e < 0 THEN -e ELSE e]

jsonParseFloat(c, ptr, neg, num_len, dec_idx, mantissa) ==
  LET digits == mantissa - 1
      read   == IF digits > MantissaLimit THEN MantissaLimit ELSE digits
      chars  == SelectSeq(Slice(ptr, ptr + mantissa), LAMBDA ch : ch # ".")
      after  == ptr + read + IF dec_idx < read THEN 1 ELSE 0
      e      == Exponent(after)
      shift  == IF isE(At(after)) THEN IF e.negative THEN -e.value ELSE e.value
                                  ELSE 0
      scale  == Clamped((dec_idx - read) + shift)
  IN  [cur |-> jsonUnsafeAdvanceBy(c, num_len),
       value |-> [neg |-> neg, fraction |-> Decimal(SubSeq(chars, 1, read)),
                  divide |-> scale.divide, exponent |-> scale.exponent]]

-----------------------------------------------------------------------------
(* jsonParseNumber: the cursor after it and the node's type and value; on  *)
(* the path that returns early, the type is left as it was.                *)
IntOf(r)   == [cur |-> r.cur, type |-> "JSON_INT", value |-> <<"int", r.value>>]
FloatOf(r) == [cur |-> r.cur, type |-> "JSON_FLOAT", value |-> <<"float", r.value>>]

jsonParseNumber(c) ==
  LET n      == countNumberLen(c)
      first  == At(c.offset)
      signed == first \in {"-", "+"}
      neg    == first = "-"
      ptr    == c.offset + IF signed THEN 1 ELSE 0
      count  == countMantissa(ptr)
  IN  IF ~signed /\ n.len = 0
        THEN [cur |-> jsonAdvanceToError(n.cur, 0, "JSON_INVALID_NUMBER"),
              type |-> "JSON_NULL", value |-> <<"uninit">>]
      ELSE IF n.len = 1
        THEN IntOf([cur |-> jsonAdvance(n.cur), value |-> toInt(first)])
      ELSE IF count.decidx = -1
        THEN IntOf(stringToI64(IF neg THEN jsonAdvance(n.cur) ELSE n.cur, neg))
      ELSE FloatOf(jsonParseFloat(n.cur, ptr, neg, n.len, count.decidx, count.mantissa))

-----------------------------------------------------------------------------
(* A call at c that sets no error leaves the cursor at the first number    *)
(* terminator from c on or before it.                                      *)
StaysInNumber(c) ==
  LET r == jsonParseNumber(c).cur
  IN  r.err = "JSON_OK" => r.offset <= TerminatorFrom(c.offset)

(* An accepted number is read from its own characters, wherever in the     *)
(* text jsonParseNumber is called: no loop of countMantissa, stringToHex,  *)
(* stringToI64 or the exponent has run past the terminator.                *)
AcceptedStaysInNumber ==
  \A o \in 0 .. buflen - 1 :
    numStart(At(o)) => StaysInNumber([offset |-> o, err |-> "JSON_OK"])
=============================================================================
