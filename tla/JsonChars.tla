----------------------------- MODULE JsonChars -----------------------------
(***************************************************************************)
(* The characters and error codes of json.c.  A character is a string; two *)
(* of them have no one-letter form: "NUL" is the terminating '\0' and "VT" *)
(* the vertical tab.                                                       *)
(***************************************************************************)
EXTENDS Integers, Sequences, FiniteSets

NUL == "NUL"

isWhiteSpace(ch) == ch \in {" ", "\t", "\n", "VT", "\f", "\r"}

(* The four the SSE2 and NEON versions compare a lane with.                *)
isLaneWhiteSpace(ch) == ch \in {" ", "\n", "\r", "\t"}

isNum(ch) == ch \in {"0", "1", "2", "3", "4", "5", "6", "7", "8", "9"}
isHex(ch) ==
  isNum(ch) \/ ch \in {"a", "b", "c", "d", "e", "f",
                       "A", "B", "C", "D", "E", "F"}

(* ch - '0' for the characters a number may hold.  Any other one is read   *)
(* only after an error is set, when nobody looks at the value.             *)
NumberChars == <<"+", "-", ".", "0", "1", "2", "3", "4", "5", "6", "7", "8", "9",
                 "A", "B", "C", "D", "E", "F", "X",
                 "a", "b", "c", "d", "e", "f", "x">>
CharMinus0 == <<-5, -3, -2, 0, 1, 2, 3, 4, 5, 6, 7, 8, 9,
                17, 18, 19, 20, 21, 22, 40,
                49, 50, 51, 52, 53, 54, 72>>

toInt(ch) ==
  IF \E i \in DOMAIN NumberChars : NumberChars[i] = ch
  THEN CharMinus0[CHOOSE i \in DOMAIN NumberChars : NumberChars[i] = ch]
  ELSE 0

(* toUpper(ch) - 'A' + 10: the value of a letter, and 7 less than that of  *)
(* a digit.                                                                *)
isLower(ch) == ch \in {"a", "b", "c", "d", "e", "f"}
toHex(ch) == toInt(ch) - IF isLower(ch) THEN 39 ELSE 7

(* "%d" and "%ld" of a number with no more digits than there are powers.   *)
PowersOfTen == <<1, 10, 100, 1000, 10000, 100000, 1000000, 10000000, 100000000, 1000000000>>
Digits(n) ==
  LET width == Cardinality({i \in DOMAIN PowersOfTen : i = 1 \/ PowersOfTen[i] <= n})
  IN  [k \in 1 .. width |->
         NumberChars[4 + ((n \div PowersOfTen[width - k + 1]) % 10)]]
Printed(n) == IF n < 0 THEN <<"-">> \o Digits(-n) ELSE Digits(n)

isNumTerminator(ch) == ch \in {",", "]", NUL, "\n"}
numStart(ch) == isNum(ch) \/ ch \in {"-", "+", "."}

JSON_ERRNO ==
  {"JSON_OK", "JSON_INVALID_UTF16", "JSON_INVALID_UTF16_SURROGATE",
   "JSON_INVALID_HEX", "JSON_INVALID_STRING_NOT_TERMINATED",
   "JSON_INVALID_NUMBER", "JSON_INVALID_JSON_TYPE_CHAR",
   "JSON_CANNOT_ADVANCE", "JSON_CANNOT_START_PARSE",
   "JSON_INVALID_KEY_TERMINATOR_CHARACTER", "JSON_INVALID_ARRAY_CHARACTER",
   "JSON_INVALID_ESCAPE_CHARACTER", "JSON_UNTERMINATED", "JSON_EOF"}
=============================================================================
