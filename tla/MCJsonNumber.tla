---------------------------- MODULE MCJsonNumber ----------------------------
(* jsonParseNumber called once, at the start of a text that is a number and *)
(* what follows it.  meant is the number the text spells, by RFC 8259 or    *)
(* as the tests spell them (0x1F, 123., .123): an integer or a float, with  *)
(* the value m * 10^e, and exp if an exponent is written.  cut is the       *)
(* number of digits beyond MantissaLimit, which the value of a float does   *)
(* not have.                                                                *)
EXTENDS JsonNumber, MCJsonText

VARIABLES
  cur,    (* p->offset and p->errno                                        *)
  num     (* what the call left: "none" before it, else its result         *)

vars == <<input, cur, num>>

Init ==
  /\ input \in Inputs
  /\ cur = [offset |-> 0, err |-> "JSON_OK"]
  /\ num = [type |-> "none", value |-> <<"uninit">>]

ParseNumber ==
  /\ num.type = "none"
  /\ LET r == jsonParseNumber(cur)
     IN  cur' = r.cur /\ num' = [type |-> r.type, value |-> r.value]
  /\ UNCHANGED input

Spec == Init /\ [][ParseNumber]_vars

-----------------------------------------------------------------------------
Parsed == num.type # "none"

(* A decimal with m1 * 10^e1 = m2 * 10^e2.                                 *)
SameDecimal(m1, e1, m2, e2) ==
  IF e1 >= e2 THEN m1 * 10^(e1 - e2) = m2 ELSE m1 = m2 * 10^(e2 - e1)

FloatIs(v, neg, m, e) ==
  /\ v.neg = neg
  /\ v.exponent <= MaxPow10
  /\ SameDecimal(v.fraction, IF v.divide THEN -v.exponent ELSE v.exponent, m, e)

LeadingDigits(meant) == meant.m \div 10^meant.cut

Means(result, meant) ==
  CASE meant.type = "JSON_INT" ->
         /\ result.type = "JSON_INT"
         /\ SameDecimal(IF meant.neg THEN -result.value[2] ELSE result.value[2], 0,
                        meant.m, meant.e)
    [] meant.type = "JSON_FLOAT" ->
         /\ result.type = "JSON_FLOAT"
         /\ FloatIs(result.value[2], meant.neg, LeadingDigits(meant),
                    meant.e + meant.cut)
    [] OTHER -> FALSE

(* The numbers whose value the code does not give.  The exponent is not    *)
(* found behind digits that are not read (json.c:908); the power of ten is *)
(* not in the table, and I64Pow10 gives its index (json.c:406); an int has *)
(* an exponent by which it does not divide (json.c:872).                   *)
ExponentUnread(meant) == meant.type = "JSON_FLOAT" /\ meant.cut > 0 /\ meant.exp
BeyondTable(meant)    == meant.e + meant.cut \notin -MaxPow10 .. MaxPow10
NotWhole(meant) ==
  meant.type = "JSON_INT" /\ meant.e < 0 /\ meant.m % 10^(-meant.e) # 0

Lost(meant) == ExponentUnread(meant) \/ BeyondTable(meant) \/ NotWhole(meant)

Accepted == cur.err = "JSON_OK" /\ isNumTerminator(jsonPeek(cur))

(* A number of the JSON grammar is accepted, becomes an int or a float as  *)
(* it is written, leaves the cursor on its terminator and has its value,   *)
(* but for the three kinds of numbers whose value is lost.                 *)
NumberMeaning ==
  Parsed /\ input.meant.type # "malformed" =>
    Accepted /\ (Lost(input.meant) \/ Means(num, input.meant))

(* The same without the exceptions.                                        *)
EveryValueMeant ==
  Parsed /\ input.meant.type # "malformed" => Accepted /\ Means(num, input.meant)

-----------------------------------------------------------------------------
IntParts  == {<<Chars("0"), 0>>, <<Chars("7"), 7>>, <<Chars("10"), 10>>,
              <<Chars("956"), 956>>}
FracParts == {<<Chars(".0"), 0, 1>>, <<Chars(".5"), 5, 1>>, <<Chars(".05"), 5, 2>>,
              <<Chars(".250"), 250, 3>>}
NoInt     == <<<< >>, 0>>
NoFrac    == <<Chars("."), 0, 0>>
ExpParts  == {<<Chars("e1"), 1>>, <<Chars("E2"), 2>>, <<Chars("e+0"), 0>>,
              <<Chars("e+01"), 1>>, <<Chars("e-2"), -2>>, <<Chars("E-01"), -1>>}

(* On both sides of where the table of powers ends, beyond the clamp of    *)
(* floats, and with more digits than an exponent counts.                   *)
LargeExps == {<<Chars("e7"), 7>>, <<Chars("e+8"), 8>>, <<Chars("E9"), 9>>,
              <<Chars("e10"), 10>>, <<Chars("e-6"), -6>>, <<Chars("e-7"), -7>>,
              <<Chars("e-8"), -8>>, <<Chars("e-9"), -9>>,
              <<Chars("e999"), 999>>, <<Chars("E-999"), -999>>,
              <<Chars("e123456789"), 123456789>>, <<Chars("e-123456789"), -123456789>>}
NoExp     == <<<< >>, 0>>
Tails     == {<< >>, Chars(","), Chars("]"), Chars("\n"), Chars(",[1]")}

Text(text, meant) ==
  [text |-> text, base |-> 0, strnum |-> FALSE, meant |-> meant]

Sign(neg) == IF neg THEN Chars("-") ELSE << >>

(* A leading zero stands alone and unsigned; before a large exponent there *)
(* are one or two digits, so that TLC can hold the product.                *)
IntText(neg, i, exp, tail) ==
  Text(Sign(neg) \o i[1] \o exp[1] \o tail,
       [type |-> "JSON_INT", neg |-> neg, m |-> i[2], e |-> exp[2], cut |-> 0,
        exp |-> exp # NoExp])

PlainInts ==
  {IntText(neg, i, exp, tail) :
     neg \in BOOLEAN, i \in {p \in IntParts : p[2] > 0},
     exp \in ExpParts \cup {NoExp}, tail \in Tails \ {<< >>}}
  \cup {IntText(neg, i, exp, Chars(",")) :
          neg \in BOOLEAN, i \in {p \in IntParts : p[2] \in 1 .. 10}, exp \in LargeExps}
  \cup {IntText(FALSE, <<Chars("0"), 0>>, NoExp, tail) : tail \in Tails \ {<< >>}}

Beyond(digits) == IF digits > MantissaLimit THEN digits - MantissaLimit ELSE 0

FloatText(neg, i, f, exp, tail) ==
  Text(Sign(neg) \o i[1] \o f[1] \o exp[1] \o tail,
       [type |-> "JSON_FLOAT", neg |-> neg, m |-> i[2] * 10^f[3] + f[2],
        e |-> exp[2] - f[3], cut |-> Beyond(Len(i[1]) + f[3]),
        exp |-> exp # NoExp])

Floats ==
  {FloatText(neg, i, f, exp, tail) :
     neg \in BOOLEAN, i \in IntParts, f \in FracParts,
     exp \in ExpParts \cup {NoExp}, tail \in Tails \ {<< >>}}
  \cup {FloatText(neg, i, f, exp, Chars(",")) :
          neg \in BOOLEAN, i \in IntParts, f \in {p \in FracParts : p[2] < 10},
          exp \in LargeExps}
  \cup {FloatText(neg, NoInt, f, exp, Chars(",")) :
          neg \in BOOLEAN, f \in FracParts, exp \in ExpParts \cup {NoExp}}
  \cup {FloatText(neg, i, NoFrac, NoExp, Chars(",")) :
          neg \in BOOLEAN, i \in IntParts}

Hexes ==
  {IntText(FALSE, <<Chars("0x1F"), 31>>, NoExp, Chars("]")),
   IntText(FALSE, <<Chars("0XaC"), 172>>, NoExp, Chars(","))}

(* Any short text that may begin a number.                                 *)
Alphabet == ToSet(Chars("01-+.exa,]y"))
AnyText ==
  {Text(t, [type |-> "malformed"]) :
     t \in {s \in BoundedSeq(Alphabet, 4) : s # << >> /\ numStart(s[1])}}

MCInputs == PlainInts \cup Floats \cup Hexes \cup AnyText

(* A float of more digits than are read, with an exponent; an integer with *)
(* an exponent that divides; a float and an integer that need a power the  *)
(* table has not.                                                          *)
MCLostValues ==
  {FloatText(FALSE, <<Chars("956"), 956>>, <<Chars(".250"), 250, 3>>,
             <<Chars("e1"), 1>>, Chars(",")),
   IntText(FALSE, <<Chars("7"), 7>>, <<Chars("e-2"), -2>>, Chars(",")),
   FloatText(FALSE, <<Chars("7"), 7>>, <<Chars(".5"), 5, 1>>,
             <<Chars("e10"), 10>>, Chars(",")),
   IntText(FALSE, <<Chars("1"), 1>>, <<Chars("e9"), 9>>, Chars(","))}
=============================================================================
