---------------------------- MODULE JsonSelector ----------------------------
(***************************************************************************)
(* jsonSelect and the functions that look a value up in a tree.            *)
(*                                                                         *)
(* call is one call and never changes: the function, the tree (nodes as    *)
(* the parser leaves them: the first is the root, 0 is NULL, a key is a    *)
(* sequence of characters or NoKey), the characters of fmt without the     *)
(* NUL, the variable arguments, and in meant what the caller means.        *)
(***************************************************************************)
EXTENDS JsonChars, SequencesExt

CONSTANTS
  Calls,       (* the calls                                                *)
  MaxBuf,      (* JSON_SEL_MAX_BUF                                         *)
  IntRange,    (* 2^31: an int is at least -IntRange and below IntRange    *)
  LongMax,     (* LONG_MAX, where strtol stops                             *)
  Garbage      (* what a byte nobody has written may hold                  *)

(* Of a call only its types are assumed: its arguments may be too few or of *)
(* another type than fmt says.                                              *)
Arguments == [type : {"int"}, int : Int] \cup [type : {"string"}, string : Seq(STRING)]

ASSUME SelectorAssumption ==
  /\ MaxBuf \in Nat \ {0}
  /\ IntRange \in Nat \ {0}
  /\ LongMax \in Nat
  /\ Garbage \subseteq STRING
  /\ \A c \in Calls : c.fmt \in Seq(STRING) /\ c.args \in Seq(Arguments)

VARIABLES
  call,
  pc,       (* "start", "loop" or "done"                                   *)
  j,        (* the value reached; the result when pc is "done"             *)
  ptr,      (* the offset of ptr in fmt                                    *)
  next,     (* the kind of the segment being read                          *)
  path,     (* path[0 .. path_len - 1]                                     *)
  buf,      (* the bytes of buf that have been written                     *)
  args      (* the arguments va_arg has not returned yet                   *)

vars == <<call, pc, j, ptr, next, path, buf, args>>

NULL == 0
Root == 1
NoKey == <<"none">>

At(i) == IF i < Len(call.fmt) THEN call.fmt[i + 1] ELSE NUL

(* A string in a buffer ends at its first NUL.                             *)
CString(bytes) ==
  LET end == SelectInSeq(bytes, LAMBDA b : b = NUL)
  IN  IF end = 0 THEN bytes ELSE SubSeq(bytes, 1, end - 1)

-----------------------------------------------------------------------------
(* Lookups.  List[n] is n and the nodes after it.                          *)

Node(n) == call.nodes[n]
Is(n, type) == n # NULL /\ Node(n).type = type

List[n \in 0 .. Len(call.nodes)] ==
  IF n = NULL THEN << >> ELSE <<n>> \o List[Node(n).next]
Children(n) == List[Node(n).value]

(* Mutant of jsonArrayAt: elements are counted from one.                   *)
jsonArrayAtFromOne(n, idx) ==
  IF Is(n, "JSON_ARRAY") /\ idx \in 1 .. Len(Children(n)) THEN Children(n)[idx] ELSE NULL

jsonArrayAt(n, idx) ==
  IF Is(n, "JSON_ARRAY") /\ idx \in 0 .. Len(Children(n)) - 1
  THEN Children(n)[idx + 1]
  ELSE NULL

(* The first of the nodes whose key is the name; the search ends at a      *)
(* member without a key.                                                   *)
jsonObjectAt(n, named) ==
  LET stop == SelectInSeq(Children(n), LAMBDA el : Node(el).key = NoKey \/ el \in named)
  IN  IF ~Is(n, "JSON_OBJECT") \/ stop = 0 THEN NULL
      ELSE IF Node(Children(n)[stop]).key = NoKey THEN NULL ELSE Children(n)[stop]

strcmp(s, t) == s = t
Lower == [ch \in {"A", "B", "C", "D", "E", "F"} |->
            CHOOSE lower \in {"a", "b", "c", "d", "e", "f"} : toHex(lower) = toHex(ch)]
strcasecmp(s, t) ==
  LET Fold(u) == [i \in DOMAIN u |-> IF u[i] \in DOMAIN Lower THEN Lower[u[i]] ELSE u[i]]
  IN  Fold(s) = Fold(t)

jsonObjectAtCaseSensitive(n, name) ==
  jsonObjectAt(n, {el \in DOMAIN call.nodes : strcmp(name, Node(el).key)})
jsonObjectAtCaseInSensitive(n, name) ==
  jsonObjectAt(n, {el \in DOMAIN call.nodes : strcasecmp(name, Node(el).key)})

TypeOf == [s |-> "JSON_STRING", i |-> "JSON_INT", f |-> "JSON_FLOAT",
           o |-> "JSON_OBJECT", a |-> "JSON_ARRAY", b |-> "JSON_BOOL"]
jsonTypeCheck(n, tk) ==
  \/ tk = "!" /\ Is(n, "JSON_NULL")
  \/ tk \in DOMAIN TypeOf /\ Is(n, TypeOf[tk])

(* A direct call of a lookup.                                              *)
Lookup ==
  /\ pc = "start"
  /\ call.fn # "jsonSelect"
  /\ j' = CASE call.fn = "jsonArrayAt" -> jsonArrayAt(Root, args[1].int)
            [] call.fn = "jsonObjectAtCaseSensitive" ->
                 jsonObjectAtCaseSensitive(Root, args[1].string)
            [] call.fn = "jsonObjectAtCaseInSensitive" ->
                 jsonObjectAtCaseInSensitive(Root, args[1].string)
  /\ pc' = "done"
  /\ UNCHANGED <<call, ptr, next, path, buf, args>>

-----------------------------------------------------------------------------
(* (int)strtol(path, &end, 10): the value and whether end is at the NUL.   *)
(* Without digits end is path.                                             *)

strtol(s) ==
  LET blank  == SelectInSeq(s \o <<NUL>>, LAMBDA ch : ~isWhiteSpace(ch))
      signed == blank <= Len(s) /\ s[blank] \in {"-", "+"}
      first  == IF signed THEN blank + 1 ELSE blank
      rest   == SubSeq(s, first, Len(s))
      end    == SelectInSeq(rest \o <<NUL>>, LAMBDA ch : ~isNum(ch))
      neg    == signed /\ s[blank] = "-"
      most   == IF neg THEN LongMax + 1 ELSE LongMax
      value  == FoldLeft(LAMBDA r, ch : IF r * 10 + toInt(ch) > most THEN most
                                        ELSE r * 10 + toInt(ch),
                         0, SubSeq(rest, 1, end - 1))
      long   == IF neg THEN -value ELSE value
  IN  [int |-> ((long + IntRange) % (2 * IntRange)) - IntRange,
       atEnd |-> s = << >> \/ (end > 1 /\ end = Len(rest) + 1)]

-----------------------------------------------------------------------------
(* jsonSelect.  An action is one turn of its loop.                         *)

Separator == [ch \in {".", "[", ":"} |->
                CASE ch = "." -> "OBJ" [] ch = "[" -> "ARRAY" [] ch = ":" -> "TYPECHECK"]

Init ==
  /\ call \in Calls
  /\ pc = "start"
  /\ j = Root
  /\ ptr = 0
  /\ next = "INVALID"
  /\ path = << >>
  /\ buf = << >>
  /\ args = call.args

Returns(n) == pc' = "done" /\ j' = n /\ UNCHANGED <<call, ptr, next, path, buf, args>>

Start ==
  /\ pc = "start"
  /\ call.fn = "jsonSelect"
  /\ \/ At(0) # "." /\ Returns(NULL)
     \/ At(0) = "." /\ pc' = "loop" /\ UNCHANGED <<call, j, ptr, next, path, buf, args>>

(* The tail of a turn, with n selected: past a closing bracket the format  *)
(* ends, or the separator of the next segment follows.                     *)
NextSegment(n) ==
  LET at == IF At(ptr) = "]" THEN ptr + 1 ELSE ptr
  IN  \/ At(at) = NUL /\ Returns(n)
      \/ At(at) \notin DOMAIN Separator \cup {NUL} /\ Returns(NULL)
      \/ /\ At(at) \in DOMAIN Separator
         /\ next' = Separator[At(at)]
         /\ path' = << >>
         /\ ptr' = at + 1
         /\ j' = n
         /\ UNCHANGED <<call, pc, buf, args>>

(* Mutant of EndsSegment: the end of fmt does not end its last segment.    *)
EndsSegmentButLast(ch) == ch \in {".", "[", "]", ":"}

EndsSegment(ch) == ch \in {NUL, ".", "[", "]", ":"}
InSegment       == pc = "loop" /\ ptr <= Len(call.fmt)
Reading == /\ InSegment /\ next # "INVALID"
           /\ path = << >> \/ ~EndsSegment(At(ptr))
Given(type) == args # << >> /\ args[1].type = type

First == InSegment /\ next = "INVALID" /\ NextSegment(j)

Selected ==
  LET name == CString(path)
      idx  == strtol(name)
  IN  CASE next = "ARRAY"     -> IF idx.int = 0 /\ ~idx.atEnd THEN NULL ELSE jsonArrayAt(j, idx.int)
        [] next = "OBJ"       -> jsonObjectAtCaseSensitive(j, name)
        [] next = "TYPECHECK" -> IF jsonTypeCheck(j, path[1]) THEN j ELSE NULL

Segment ==
  /\ InSegment /\ path # << >> /\ EndsSegment(At(ptr))
  /\ IF Selected = NULL THEN Returns(NULL) ELSE NextSegment(Selected)

(* Mutant of Character: the test of the length is one too late.            *)
CharacterLate ==
  /\ Reading /\ At(ptr) # "*"
  /\ path' = Append(path, At(ptr))
  /\ ptr' = ptr + 1
  /\ \/ Len(path) > MaxBuf /\ pc' = "done" /\ j' = NULL
     \/ Len(path) <= MaxBuf /\ UNCHANGED <<pc, j>>
  /\ UNCHANGED <<call, next, buf, args>>

Character ==
  /\ Reading /\ At(ptr) # "*"
  /\ path' = Append(path, At(ptr))
  /\ ptr' = ptr + 1
  /\ \/ Len(path') > MaxBuf /\ pc' = "done" /\ j' = NULL
     \/ Len(path') <= MaxBuf /\ UNCHANGED <<pc, j>>
  /\ UNCHANGED <<call, next, buf, args>>

(* memcpy(path + path_len, buf, len), unless path would overflow.          *)
CopyFromBuf(bytes, len) ==
  /\ buf' = bytes
  /\ args' = Tail(args)
  /\ \/ /\ Len(path) + len > MaxBuf
        /\ pc' = "done" /\ j' = NULL
        /\ UNCHANGED <<ptr, path>>
     \/ /\ Len(path) + len <= MaxBuf
        /\ \E unwritten \in [Len(bytes) + 1 .. len -> Garbage] :
             path' = path \o [i \in 1 .. len |-> IF i <= Len(bytes) THEN bytes[i]
                                                ELSE unwritten[i]]
        /\ ptr' = ptr + 1
        /\ UNCHANGED <<pc, j>>
  /\ UNCHANGED <<call, next>>

WildIndex ==
  /\ Reading /\ At(ptr) = "*" /\ next = "ARRAY" /\ Given("int")
  /\ LET digits  == Printed(args[1].int)
         written == digits \o <<NUL>>
     IN  CopyFromBuf(written \o SubSeq(buf, Len(written) + 1, Len(buf)), Len(digits))

(* The argument is in s and the bytes are copied from buf all the same.    *)
WildKey ==
  /\ Reading /\ At(ptr) = "*" /\ next = "OBJ" /\ Given("string")
  /\ CopyFromBuf(buf, Len(args[1].string))

WildType == Reading /\ At(ptr) = "*" /\ next = "TYPECHECK" /\ Returns(NULL)

(* What C leaves undefined, an argument that was not passed or a character *)
(* behind the NUL of fmt, may give any result.                             *)
Undefined ==
  /\ pc = "loop"
  /\ \/ ptr > Len(call.fmt)
     \/ Reading /\ At(ptr) = "*" /\ next = "ARRAY" /\ ~Given("int")
     \/ Reading /\ At(ptr) = "*" /\ next = "OBJ" /\ ~Given("string")
  /\ \E n \in 0 .. Len(call.nodes) : Returns(n)

Next ==
  \/ Lookup \/ Start \/ First \/ Segment \/ Character
  \/ WildIndex \/ WildKey \/ WildType \/ Undefined

Spec == Init /\ [][Next]_vars

-----------------------------------------------------------------------------
(* jsonSelect writes inside path[MaxBuf + 1]: whatever order characters and *)
(* wildcards come in, room for the terminator is left while the loop runs.  *)
PathFits == /\ Len(path) <= MaxBuf + 1
            /\ pc = "loop" => Len(path) <= MaxBuf

(* fmt does not end behind a separator, and no key that was passed for a   *)
(* wildcard is empty: the last segment has a character.                    *)
EndsInSegment ==
  /\ call.fmt # << >> => Last(call.fmt) \notin DOMAIN Separator
  /\ \A i \in DOMAIN call.args : call.args[i].type = "string" => call.args[i].string # << >>

(* Such a format, whether or not it spells steps, is read only up to its   *)
(* terminator, though a segment takes its first character unseen, and is   *)
(* continued only from a value of the tree.                                *)
FormatIsRead ==
  pc = "loop" /\ EndsInSegment => ptr <= Len(call.fmt) /\ j # NULL
=============================================================================
