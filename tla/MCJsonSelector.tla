--------------------------- MODULE MCJsonSelector ---------------------------
(* Selections in two small trees.  A format is put together from segments;  *)
(* meant holds the steps the segments stand for, or NoMeaning for a format  *)
(* that stands for nothing.                                                 *)
EXTENDS JsonSelector, MCJsonText

(* {"a": ["", {"b": [{}], "a": ""}, 0, true], "b": {"a": 0.5, "aB": "",     *)
(*  "a": 0}, "m": null, "long": []}                                         *)
N(key, type, value, after) ==
  [key |-> IF key = "" THEN NoKey ELSE Chars(key), type |-> "JSON_" \o type,
   value |-> value, next |-> after]

Tree ==
  <<N("", "OBJECT", 2, 0),
    N("a", "ARRAY", 6, 3), N("b", "OBJECT", 13, 4), N("m", "NULL", 0, 5),
    N("long", "ARRAY", 0, 0),
    N("", "STRING", 0, 7), N("", "OBJECT", 10, 8), N("", "INT", 0, 9),
    N("", "BOOL", 0, 0),
    N("b", "ARRAY", 12, 11), N("a", "STRING", 0, 0), N("", "OBJECT", 0, 0),
    N("a", "FLOAT", 0, 14), N("aB", "STRING", 0, 15), N("a", "INT", 0, 0)>>

(* What the parser leaves of {"a": 0, when the text ends there.             *)
CutTree == <<N("", "OBJECT", 2, 0), N("a", "INT", 0, 3), N("", "NULL", 0, 0)>>

-----------------------------------------------------------------------------
(* The value a step leads to: the k-th element, the first member of that    *)
(* name, the value itself if it has the type; NULL from NULL.               *)
Element(n, k) ==
  LET Nth[i \in 0 .. k] == IF i = 0 THEN Node(n).value
                           ELSE IF Nth[i - 1] = NULL THEN NULL ELSE Node(Nth[i - 1]).next
  IN  Nth[k]

NamedMembers(n, Named(_)) ==
  {k \in 0 .. Len(call.nodes) : Element(n, k) # NULL /\ Named(Node(Element(n, k)).key)}
FirstOf(n, places) ==
  IF places = {} THEN NULL
  ELSE Element(n, CHOOSE k \in places : \A l \in places : k <= l)

Step(n, step) ==
  CASE n = NULL          -> NULL
    [] step[1] = "index" -> IF Is(n, "JSON_ARRAY") /\ step[2] >= 0
                            THEN Element(n, step[2]) ELSE NULL
    [] step[1] = "key"   -> IF Is(n, "JSON_OBJECT")
                            THEN FirstOf(n, NamedMembers(n, LAMBDA k : k = Chars(step[2])))
                            ELSE NULL
    [] step[1] = "keys"  -> IF Is(n, "JSON_OBJECT")
                            THEN FirstOf(n, NamedMembers(n, LAMBDA k : k \in step[2]))
                            ELSE NULL
    [] step[1] = "type"  -> IF Is(n, step[2]) THEN n ELSE NULL
    [] OTHER             -> NULL

NoMeaning == <<<<"any">>>>

(* A selection returns the value that the steps its format spells lead to   *)
(* from the root, and NULL where one of them leads nowhere.                 *)
SelectsMeaning ==
  pc = "done" /\ call.meant # NoMeaning => j = FoldLeft(Step, Root, call.meant)

(* Any format is read only up to its terminator.                            *)
AnyFormatIsRead == pc = "loop" => ptr <= Len(call.fmt)

-----------------------------------------------------------------------------
AnInt(n)  == [type |-> "int", int |-> n]
String(s) == [type |-> "string", string |-> Chars(s)]

Seg(text, given, step) == [text |-> Chars(text), args |-> given, steps |-> <<step>>]
Key(k)      == Seg("." \o k, << >>, <<"key", k>>)
Index(t, n) == Seg("[" \o t \o "]", << >>, <<"index", n>>)
Wild(t, arg, n) == Seg("[" \o t \o "]", <<AnInt(arg)>>, <<"index", n>>)
TypeIs(t)   == Seg(":" \o t, << >>,
                   IF t = "!" THEN <<"type", "JSON_NULL">>
                   ELSE IF t \in DOMAIN TypeOf THEN <<"type", TypeOf[t]>> ELSE <<"none">>)

Keys == {Key(k) : k \in {"a", "b", "m", "aB", "long", "x", "longs"}}
Segments ==
  Keys \cup {Index("0", 0), Index("1", 1), Index("3", 3), Index("4", 4), Index("-1", -1),
             Index("02", 2), Index(" 1", 1), Index("x", -1),
             Wild("*", 1, 1), Wild("*", 10, 10), Wild("*", -2, -2), Wild("0*", 3, 3),
             Wild("123*", 45, -1)}
       \cup {TypeIs(t) : t \in {"s", "i", "f", "o", "a", "b", "!", "z", "string"}}

Select(tree, segs) ==
  [fn |-> "jsonSelect", nodes |-> tree,
   fmt |-> FlattenSeq([i \in DOMAIN segs |-> segs[i].text]),
   args |-> FlattenSeq([i \in DOMAIN segs |-> segs[i].args]),
   meant |-> FlattenSeq([i \in DOMAIN segs |-> segs[i].steps])]

Format(text, given, meant) ==
  [fn |-> "jsonSelect", nodes |-> Tree, fmt |-> Chars(text), args |-> given, meant |-> meant]
LookupOf(fn, arg, steps) ==
  [fn |-> fn, nodes |-> Tree, fmt |-> << >>, args |-> <<arg>>, meant |-> steps]

Nothing == <<<<"none">>>>

(* The selections test.c:319 and test.c:323 say to be invalid, formats that *)
(* stand for nothing, and wildcards for a key.                              *)
Others ==
  {Format("foo", << >>, Nothing), Format(".[12][21][21][21]", << >>, Nothing),
   Format("", << >>, Nothing), Format(".a]", << >>, NoMeaning), Format(".a]x", << >>, NoMeaning),
   Format("..a", << >>, NoMeaning), Format(".a[]", << >>, NoMeaning), Format(".a[1x]", << >>, NoMeaning),
   Format(".a:*", << >>, NoMeaning), Format(".a[[1]]", << >>, NoMeaning), Format(".a::s", << >>, NoMeaning),
   Format(".a[", << >>, NoMeaning), Format(".a.", << >>, NoMeaning), Format(".*", <<String("")>>, NoMeaning),
   Format(".a[*]", << >>, NoMeaning), Format(".*", <<AnInt(0)>>, NoMeaning),
   Format(".*", <<String("b")>>, NoMeaning), Format(".lo*", <<String("ng")>>, NoMeaning),
   Format(".lo*", <<String("ngs")>>, NoMeaning), Format(".a[*].*b", <<AnInt(1), String("b")>>, NoMeaning),
   Format(".a[*][*].*", <<AnInt(12), AnInt(3), String("long")>>, NoMeaning)}

Lookups ==
  {LookupOf("jsonArrayAt", AnInt(n), <<<<"index", n>>>>) : n \in {0, -1}}
  \cup {LookupOf("jsonObjectAtCaseSensitive", String(k), <<<<"key", k>>>>) : k \in {"b", "B"}}
  \cup {LookupOf("jsonObjectAtCaseInSensitive", String(k), <<<<"keys", {Chars("b"), Chars("B")}>>>>) :
          k \in {"b", "B"}}

MCCalls ==
  {Select(Tree, <<k>>) : k \in Keys}
  \cup {Select(Tree, <<k, s>>) : k \in Keys, s \in Segments}
  \cup {Select(Tree, <<k, s, t>>) : k \in {Key("a"), Key("b")}, s, t \in Segments}
  \cup {Select(CutTree, <<k>>) : k \in Keys}
  \cup {Select(Tree, <<Key("a"), Wild("*", 1, 1), Key("b"), Wild("*", 0, 0), t>>) :
          t \in {TypeIs("o"), TypeIs("a")}}
  \cup Others \cup Lookups

MCGarbage == {NUL, "b"}

-----------------------------------------------------------------------------
(* One selection each for what the code does and its documentation does not *)
(* say.                                                                     *)

(* ".tv.type[4].*", "name"                                                  *)
MCWildcard ==
  {Format(".a[1].*", <<String("b")>>, <<<<"key", "a">>, <<"index", 1>>, <<"key", "b">>>>)}
(* 2^32 as an index, with ints of 8 bits.                                   *)
MCWideIndex == {Select(Tree, <<Key("a"), Index("256", 256)>>)}
(* A key that is the empty string, from a wildcard.                         *)
MCOpenSegment == {Format(".b.*", <<String("")>>, Nothing)}
MCUnread == MCWideIndex \cup MCOpenSegment
=============================================================================
