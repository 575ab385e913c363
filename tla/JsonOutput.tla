----------------------------- MODULE JsonOutput -----------------------------
(***************************************************************************)
(* jsonToString and jsonPrint: the two walks over the nodes the parser     *)
(* left, as text in a JsonBuffer and as text on stdout.                    *)
(*                                                                         *)
(* walk has the node each activation of _jsonToString or __json_print is   *)
(* at.  A turn of their loop makes several calls that append; pending has  *)
(* what those still to be made append.                                     *)
(***************************************************************************)
EXTENDS JsonParser, JsonBuffer

VARIABLES
  style,    (* "jsonToString" or "jsonPrint"                               *)
  walk,
  pending,
  stdout    (* what printf has written                                     *)

outputVars == <<js, overrun, style, walk, pending, stdout>>

-----------------------------------------------------------------------------
(* escapeString: what a "%s" then prints of the result.  A control         *)
(* character without a letter of its own counts for seven bytes and has    *)
(* six, so that as many bytes before the terminator are never written,     *)
(* unless the last six are followed by the NUL that snprintf appends.      *)

ShortEscapes == [ch \in {"BS", "\f", "\n", "\r", "\t", QUOTE, BACKSLASH} |->
  CASE ch = "BS" -> "b" [] ch = "\f" -> "f" [] ch = "\n" -> "n"
    [] ch = "\r" -> "r" [] ch = "\t" -> "t" [] OTHER -> ch]
isShort(ch)   == ch \in DOMAIN ShortEscapes
isControl(ch) == ch = "VT"

(* Mutant of EscapeOf: the backslash of an escape is forgotten.            *)
EscapeOfBare(ch) ==
  IF isShort(ch) THEN <<ShortEscapes[ch]>>
  ELSE IF isControl(ch) THEN <<BACKSLASH, "u", "0", "0", "0", "b">> ELSE <<ch>>

EscapeOf(ch) ==
  IF isShort(ch) THEN <<BACKSLASH, ShortEscapes[ch]>>
  ELSE IF isControl(ch) THEN <<BACKSLASH, "u", "0", "0", "0", "b">> ELSE <<ch>>

escapeString(s) ==
  LET controls == Len(SelectSeq(s, isControl))
      unwritten == IF s # << >> /\ isControl(Last(s)) THEN 0 ELSE controls
  IN  FlattenSeq([i \in DOMAIN s |-> EscapeOf(s[i])])
        \o [i \in 1 .. unwritten |-> Unwritten]

-----------------------------------------------------------------------------
(* What a node is printed as.                                              *)

Null == <<"n", "u", "l", "l">>
CharsOf(text) ==
  IF text = NullText THEN <<"(">> \o Null \o <<")">> ELSE FlattenSeq(text[2])
Quoting(chars) == <<QUOTE>> \o chars \o <<QUOTE>>

(* "%1.17g" of a double that has the decimal value of v exactly, of a size *)
(* that is printed without an exponent: no zeros at the end.               *)
FloatText(v) ==
  LET scale == IF v.divide THEN 10^v.exponent ELSE 1
      value == IF v.divide THEN v.fraction ELSE v.fraction * 10^v.exponent
      tail  == SubSeq(Digits(scale + (value % scale)), 2, IF v.divide THEN v.exponent + 1 ELSE 1)
      used  == {i \in DOMAIN tail : tail[i] # "0"}
  IN  (IF v.neg THEN <<"-">> ELSE << >>) \o Digits(value \div scale)
        \o IF used = {} THEN << >> ELSE <<".">> \o SubSeq(tail, 1, Max(used))

isContainer(n) == nodes[n].type \in {"JSON_OBJECT", "JSON_ARRAY"}

ScalarText(n) ==
  LET value == nodes[n].value IN
  CASE nodes[n].type = "JSON_INT"    -> Printed(value[2])
    [] nodes[n].type = "JSON_FLOAT"  -> FloatText(value[2])
    [] nodes[n].type = "JSON_STRNUM" -> CharsOf(value)
    [] nodes[n].type = "JSON_STRING" ->
         Quoting(IF value = NullText THEN CharsOf(value) ELSE escapeString(CharsOf(value)))
    [] nodes[n].type = "JSON_BOOL"   ->
         IF value[2] = 1 THEN <<"t", "r", "u", "e">> ELSE <<"f", "a", "l", "s", "e">>
    [] nodes[n].type = "JSON_NULL"   -> Null

Prints == style = "jsonPrint"

(* jsonConcatKey escapes the key and prints the raw one; printJsonKey      *)
(* prints the escaped one.                                                 *)
KeyText(n) ==
  LET key == nodes[n].key
  IN  IF key = NullText THEN << >>
      ELSE IF Prints THEN Quoting(escapeString(CharsOf(key))) \o <<":", " ">>
      ELSE Quoting(CharsOf(key)) \o <<":">>

Indent(depth)  == IF Prints THEN [i \in 1 .. 2 * (depth - 1) |-> " "] ELSE << >>
Newline        == IF Prints THEN <<"\n">> ELSE << >>
Opening(n)     == <<IF nodes[n].type = "JSON_OBJECT" THEN "{" ELSE "[">> \o Newline
Closing(n, depth) ==
  Indent(depth) \o <<IF nodes[n].type = "JSON_OBJECT" THEN "}" ELSE "]">>
After(n)       == (IF nodes[n].next # NULL THEN <<",">> ELSE << >>) \o Newline

(* The recursive call for an empty container returns at once: jsonToString *)
(* makes it an object, whatever it is.                                     *)
Empty == IF Prints THEN << >> ELSE <<"{", "}">>

-----------------------------------------------------------------------------
Depth == Len(walk)
Here  == Last(walk)

(* The activation at the given depth moves on to the next node.            *)
Moved(depth) == Append(SubSeq(walk, 1, depth - 1), nodes[walk[depth]].next)

Turn == walk # << >> /\ pending = << >> /\ UNCHANGED <<js, overrun, style, stdout>>

VisitScalar ==
  /\ Turn
  /\ Here # NULL /\ ~isContainer(Here)
  /\ pending' = <<Indent(Depth), KeyText(Here), ScalarText(Here), After(Here)>>
  /\ walk' = Moved(Depth)

(* Mutant of VisitContainer: an empty container is passed by with a         *)
(* continue, in front of the line that moves on to the next node.           *)
VisitContainerStays ==
  /\ Turn
  /\ Here # NULL /\ isContainer(Here)
  /\ LET first == nodes[Here].value[2]
     IN  \/ /\ first # NULL
            /\ pending' = <<Indent(Depth), KeyText(Here), Opening(Here)>>
            /\ walk' = Append(walk, first)
         \/ first = NULL /\ UNCHANGED <<pending, walk>>

VisitContainer ==
  /\ Turn
  /\ Here # NULL /\ isContainer(Here)
  /\ LET first == nodes[Here].value[2]
         begin == <<Indent(Depth), KeyText(Here), Opening(Here)>>
     IN  \/ /\ first # NULL
            /\ pending' = begin
            /\ walk' = Append(walk, first)
         \/ /\ first = NULL
            /\ pending' = begin \o <<Empty, Closing(Here, Depth), After(Here)>>
            /\ walk' = Moved(Depth)

(* The loop of an inner activation has ended.                              *)
ReturnFromWalk ==
  /\ Turn
  /\ Here = NULL /\ Depth > 1
  /\ LET n == walk[Depth - 1]
     IN  pending' = <<Closing(n, Depth - 1), After(n)>>
  /\ walk' = Moved(Depth - 1)

WalkEnds ==
  /\ Turn
  /\ walk = <<NULL>>
  /\ walk' = << >>
  /\ UNCHANGED pending

(* One append, of a constant or a formatted piece; an empty piece stands   *)
(* for a call that is not made.                                            *)
Put ==
  /\ pending # << >>
  /\ pending' = Tail(pending)
  /\ LET d == Head(pending)
     IN  \/ d = << >> /\ UNCHANGED <<js, overrun, stdout>>
         \/ /\ d # << >> /\ Prints
            /\ stdout' = stdout \o d
            /\ UNCHANGED <<js, overrun>>
         \/ /\ d # << >> /\ ~Prints
            /\ jsonStringCatLen(d) \/ jsonStringCatf(d)
            /\ UNCHANGED stdout
  /\ UNCHANGED <<style, walk>>

OutputStep == VisitScalar \/ VisitContainer \/ ReturnFromWalk \/ WalkEnds \/ Put

OutputInit ==
  /\ BufferInit
  /\ style \in {"jsonToString", "jsonPrint"}
  /\ walk = << >>
  /\ pending = << >>
  /\ stdout = << >>

(* A call for the tree of the parser.                                      *)
jsonOutput ==
  /\ walk' = <<Root>>
  /\ UNCHANGED <<js, overrun, style, pending, stdout>>

OutputText == IF Prints THEN stdout ELSE BufferText
=============================================================================
