----------------------------- MODULE JsonParser -----------------------------
(***************************************************************************)
(* jsonParseWithLenAndFlags and the mutually recursive functions below it. *)
(*                                                                         *)
(* A frame of stack is one activation of jsonParseObject or jsonParseArray *)
(* with its locals val and J.  nodes is every json struct in the order     *)
(* jsonNew made them; a pointer is an index, NULL is 0, Root is 1.  value  *)
(* is the union of a node, tagged with the field last written: nothing has *)
(* been written to it when jsonNew returns.                                *)
(***************************************************************************)
EXTENDS JsonString, JsonNumber

CONSTANT MaxDepth   (* bound: nesting of containers                        *)

VARIABLES
  pc,       (* where the innermost activation is                           *)
  stack,    (* the activations, outermost first                            *)
  nodes,    (* the json structs                                            *)
  ptr,      (* p->ptr                                                      *)
  ptype,    (* p->type                                                     *)
  state     (* J->state of the root; NoState until there is one            *)

parserVars == <<pc, stack, nodes, ptr, ptype, state>>
vars == <<input, cur, str, parserVars>>

NULL == 0
Root == 1

Uninit    == <<"uninit">>
Child(n)  == <<"child", n>>
NoState   == [error |-> "none", ch |-> NUL, offset |-> 0]
NullText  == <<"null">>
Text(out) == <<"text", out>>
ReturnedText == IF str.pc = "done" THEN Text(str.out) ELSE NullText

NewNode == [type |-> "JSON_NULL", key |-> NullText, next |-> NULL, value |-> Uninit]
Frame(fn) == [fn |-> fn, val |-> NULL, J |-> NULL]

Top == stack[Len(stack)]

Closer == IF Top.fn = "object" THEN "}" ELSE "]"

Init ==
  /\ StringInit
  /\ pc = "start"
  /\ stack = << >>
  /\ nodes = << >>
  /\ ptr = NULL
  /\ ptype = "none"
  /\ state = NoState

-----------------------------------------------------------------------------
(* jsonParseWithLenAndFlags up to the call of the outermost container; the *)
(* result is NULL, with no errno to ask for, when there is no text.        *)

BeginWith(fn, type, c) ==
  /\ nodes' = <<[NewNode EXCEPT !.type = type]>>
  /\ stack' = <<Frame(fn)>>
  /\ pc' = "enter"
  /\ cur' = c

Begin ==
  /\ pc = "start"
  /\ LET c == jsonAdvanceWhitespace(cur)
     IN  \/ /\ ~WsOk(cur)
            /\ cur' = c
            /\ pc' = "done"
            /\ UNCHANGED <<stack, nodes>>
         \/ WsOk(cur) /\ jsonPeek(c) = "{" /\ BeginWith("object", "JSON_OBJECT", c)
         \/ WsOk(cur) /\ jsonPeek(c) = "[" /\ BeginWith("array", "JSON_ARRAY", c)
         \/ /\ WsOk(cur)
            /\ jsonPeek(c) \notin {"{", "["}
            /\ cur' = SetError(c, "JSON_CANNOT_START_PARSE")
            /\ nodes' = <<NewNode>>
            /\ pc' = "finish"
            /\ UNCHANGED stack
  /\ UNCHANGED <<input, str, ptr, ptype, state>>

(* Mutants of Return: the result goes to p->ptr and not to the caller's    *)
(* node, or is not stored when it is NULL.                                 *)
ReturnToPtr(c, ret, ns) ==
  /\ cur' = c
  /\ nodes' = [ns EXCEPT ![ptr].value = Child(ret)]
  /\ stack' = Front(stack)
  /\ pc' = IF Len(stack) = 1 THEN "finish" ELSE "after"
ReturnIfAny(c, ret, ns) ==
  LET caller == IF Len(stack) = 1 THEN Root ELSE stack[Len(stack) - 1].J
  IN  /\ cur' = c
      /\ nodes' = IF ret = NULL THEN ns ELSE [ns EXCEPT ![caller].value = Child(ret)]
      /\ stack' = Front(stack)
      /\ pc' = IF Len(stack) = 1 THEN "finish" ELSE "after"

(* The innermost activation returns ret, which its caller stores in the    *)
(* node it called for.                                                     *)
Return(c, ret, ns) ==
  LET caller == IF Len(stack) = 1 THEN Root ELSE stack[Len(stack) - 1].J
  IN  /\ cur' = c
      /\ nodes' = [ns EXCEPT ![caller].value = Child(ret)]
      /\ stack' = Front(stack)
      /\ pc' = IF Len(stack) = 1 THEN "finish" ELSE "after"

(* The loop of an activation ends with its list: an array sets p->ptr.     *)
ReturnList(c, ns) ==
  /\ Return(c, Top.val, ns)
  /\ ptr' = IF Top.fn = "array" THEN Top.val ELSE ptr

(* Past the opening bracket: an empty container is NULL, any other gets    *)
(* its first node.                                                         *)
Enter ==
  /\ pc = "enter"
  /\ LET c1  == jsonAdvance(cur)
         c2  == jsonAdvanceWhitespace(c1)
         new == Len(nodes) + 1
     IN  \/ ~WsOk(c1) /\ Return(c2, NULL, nodes) /\ UNCHANGED ptr
         \/ /\ WsOk(c1)
            /\ jsonPeek(c2) = Closer
            /\ Return(jsonAdvance(c2), NULL, nodes)
            /\ UNCHANGED ptr
         \/ /\ WsOk(c1)
            /\ jsonPeek(c2) # Closer
            /\ cur' = c2
            /\ nodes' = Append(nodes, NewNode)
            /\ ptr' = new
            /\ stack' = [stack EXCEPT ![Len(stack)].val = new]
            /\ pc' = "loop"
  /\ UNCHANGED <<input, str, ptype, state>>

-----------------------------------------------------------------------------
(* jsonSetExpectedType, then jsonParseValue; a character that begins no    *)
(* value ends the loop of the activation with what it has.                 *)

(* Mutant of ExpectedType: a case label is missing.                        *)
ExpectedTypeButFalse(ch) ==
  CASE ch = "{" -> "JSON_PARSER_OBJECT"
    [] ch = "[" -> "JSON_PARSER_ARRAY"
    [] ch = "n" -> "JSON_PARSER_NULL"
    [] ch = "t" -> "JSON_PARSER_BOOL"
    [] ch = QUOTE -> "JSON_PARSER_STRING"
    [] numStart(ch) -> "JSON_PARSER_NUMERIC"
    [] OTHER -> "none"

ExpectedType(ch) ==
  CASE ch = "{" -> "JSON_PARSER_OBJECT"
    [] ch = "[" -> "JSON_PARSER_ARRAY"
    [] ch = "n" -> "JSON_PARSER_NULL"
    [] ch \in {"t", "f"} -> "JSON_PARSER_BOOL"
    [] ch = QUOTE -> "JSON_PARSER_STRING"
    [] numStart(ch) -> "JSON_PARSER_NUMERIC"
    [] OTHER -> "none"

(* Mutant of ExpectValue: the result of jsonSetExpectedType is not looked  *)
(* at.                                                                     *)
ExpectValueAnyway(c, ns) ==
  LET type == ExpectedType(jsonPeek(c))
  IN  /\ cur' = IF type = "none" THEN SetError(c, "JSON_INVALID_JSON_TYPE_CHAR") ELSE c
      /\ nodes' = ns
      /\ ptype' = IF type = "none" THEN ptype ELSE type
      /\ pc' = "value"
      /\ stack' = [stack EXCEPT ![Len(stack)].J = ptr]
      /\ UNCHANGED ptr

ExpectValue(c, ns) ==
  LET type == ExpectedType(jsonPeek(c))
  IN  \/ /\ type = "none"
         /\ ReturnList(SetError(c, "JSON_INVALID_JSON_TYPE_CHAR"), ns)
         /\ UNCHANGED ptype
      \/ /\ type # "none"
         /\ cur' = c
         /\ nodes' = ns
         /\ ptype' = type
         /\ pc' = "value"
         /\ stack' = [stack EXCEPT ![Len(stack)].J = ptr]
         /\ UNCHANGED ptr

(* The loop of jsonParseArray, up to the value.                            *)
Element ==
  /\ pc = "loop"
  /\ Top.fn = "array"
  /\ LET c == jsonAdvanceWhitespace(cur)
     IN  \/ ~WsOk(cur) /\ Return(c, NULL, nodes) /\ UNCHANGED <<ptr, ptype>>
         \/ WsOk(cur) /\ ExpectValue(c, nodes)
  /\ UNCHANGED <<input, str, state>>

(* The loop of jsonParseObject, up to the key.                             *)
Member ==
  /\ pc = "loop"
  /\ Top.fn = "object"
  /\ LET c == jsonAdvanceWhitespace(cur)
     IN  \/ /\ ~WsOk(cur)
            /\ Return(c, NULL, nodes)
            /\ UNCHANGED str
         \/ /\ WsOk(cur)
            /\ jsonPeek(c) # QUOTE
            /\ Return(SetError(c, "JSON_INVALID_KEY_TERMINATOR_CHARACTER"), NULL, nodes)
            /\ UNCHANGED str
         \/ /\ WsOk(cur)
            /\ jsonPeek(c) = QUOTE
            /\ StringCalledAt(c)
            /\ pc' = "key"
            /\ UNCHANGED <<stack, nodes>>
  /\ UNCHANGED <<input, ptr, ptype, state>>

(* The key, whether or not it could be parsed, and everything up to the    *)
(* value: what stands between the key and the next colon is skipped.       *)
Key ==
  /\ pc = "key"
  /\ StringReturned
  /\ LET ns == [nodes EXCEPT ![ptr].key = ReturnedText]
         c1 == jsonAdvanceToTerminator(cur, ":")
         c2 == jsonAdvance(c1)
         c3 == jsonAdvanceWhitespace(c2)
     IN  \/ /\ jsonPeek(c1) # ":"
            /\ Return(SetError(c1, "JSON_INVALID_KEY_TERMINATOR_CHARACTER"), NULL, ns)
            /\ UNCHANGED <<ptr, ptype>>
         \/ /\ jsonPeek(c1) = ":"
            /\ ~WsOk(c2)
            /\ Return(c3, NULL, ns)
            /\ UNCHANGED <<ptr, ptype>>
         \/ jsonPeek(c1) = ":" /\ WsOk(c2) /\ ExpectValue(c3, ns)
  /\ str' = NoString
  /\ UNCHANGED <<input, state>>

-----------------------------------------------------------------------------
(* jsonParseValue, on the node at p->ptr.                                  *)

SetNode(type, value) ==
  nodes' = [nodes EXCEPT ![ptr].type = type, ![ptr].value = value]

ParseNumber ==
  /\ ptype = "JSON_PARSER_NUMERIC"
  /\ ~input.strnum
  /\ LET r == jsonParseNumber(cur)
     IN  cur' = r.cur /\ SetNode(r.type, r.value)
  /\ pc' = "after"
  /\ UNCHANGED <<str, stack>>

ParseText(type) ==
  /\ StringCalledAt(cur)
  /\ SetNode(type, nodes[ptr].value)
  /\ pc' = "text"
  /\ UNCHANGED stack

(* With JSON_STRNUM_FLAG a number goes through jsonParseString as it is.   *)
ParseStrnum ==
  /\ ptype = "JSON_PARSER_NUMERIC"
  /\ input.strnum
  /\ ParseText("JSON_STRNUM")

ParseString == ptype = "JSON_PARSER_STRING" /\ ParseText("JSON_STRING")

Reads(c, n, word) == \A i \in DOMAIN word : At(c.offset + (n + i - 1)) = word[i]

(* Neither result of jsonParseNull is 0, so a word that only begins with n *)
(* and is not null is no error.                                            *)
ParseNull ==
  /\ ptype = "JSON_PARSER_NULL"
  /\ cur' = IF jsonCanAdvanceBy(cur, 4) THEN jsonUnsafeAdvanceBy(cur, 4)
            ELSE SetError(cur, "JSON_CANNOT_ADVANCE")
  /\ SetNode("JSON_NULL", nodes[ptr].value)
  /\ pc' = "after"
  /\ UNCHANGED <<str, stack>>

(* jsonParseBool on the word that the first character promises.            *)
BoolWord(length, rest, bool) ==
  LET moved == jsonUnsafeAdvanceBy(cur, length)
  IN  IF jsonCanAdvanceBy(cur, length) /\ Reads(cur, 1, rest)
      THEN [cur |-> moved, bool |-> bool]
      ELSE [cur |-> SetError(IF jsonCanAdvanceBy(cur, length) THEN moved ELSE cur,
                             "JSON_CANNOT_ADVANCE"),
            bool |-> -1]

jsonParseBool ==
  IF jsonPeek(cur) = "t" THEN BoolWord(4, <<"r", "u", "e">>, 1)
                         ELSE BoolWord(5, <<"a", "l", "s", "e">>, 0)

ParseBool ==
  /\ ptype = "JSON_PARSER_BOOL"
  /\ cur' = jsonParseBool.cur
  /\ SetNode("JSON_BOOL", <<"bool", jsonParseBool.bool>>)
  /\ pc' = "after"
  /\ UNCHANGED <<str, stack>>

ParseContainer(fn, type) ==
  /\ Len(stack) < MaxDepth
  /\ SetNode(type, nodes[ptr].value)
  /\ stack' = Append(stack, Frame(fn))
  /\ pc' = "enter"
  /\ UNCHANGED <<cur, str>>

ParseObject == ptype = "JSON_PARSER_OBJECT" /\ ParseContainer("object", "JSON_OBJECT")
ParseArray  == ptype = "JSON_PARSER_ARRAY" /\ ParseContainer("array", "JSON_ARRAY")

Value ==
  /\ pc = "value"
  /\ \/ ParseNumber \/ ParseStrnum \/ ParseString \/ ParseNull \/ ParseBool
     \/ ParseObject \/ ParseArray
  /\ UNCHANGED <<input, ptr, ptype, state>>

TextValue ==
  /\ pc = "text"
  /\ StringReturned
  /\ SetNode(nodes[ptr].type, ReturnedText)
  /\ str' = NoString
  /\ pc' = "after"
  /\ UNCHANGED <<input, cur, stack, ptr, ptype, state>>

-----------------------------------------------------------------------------
(* Behind a value: an error ends the loop with what it has, a comma begins *)
(* the next node, the closing bracket ends the list.  A bracket that is    *)
(* the last character of the text is not moved past.                       *)

(* Mutant of UnexpectedCharacter: an object reports the error of an array. *)
UnexpectedInArray == "JSON_INVALID_ARRAY_CHARACTER"

UnexpectedCharacter ==
  IF Top.fn = "object" THEN "JSON_INVALID_JSON_TYPE_CHAR" ELSE "JSON_INVALID_ARRAY_CHARACTER"

(* Mutant of AfterComma: the new node is not linked to the one before it.  *)
AfterCommaUnlinked(c) ==
  LET new == Len(nodes) + 1
  IN  /\ cur' = jsonAdvance(c)
      /\ nodes' = Append(nodes, NewNode)
      /\ ptr' = new
      /\ pc' = "loop"
      /\ UNCHANGED stack

AfterComma(c) ==
  LET new == Len(nodes) + 1
  IN  /\ cur' = jsonAdvance(c)
      /\ nodes' = Append([nodes EXCEPT ![Top.J].next = new], NewNode)
      /\ ptr' = new
      /\ pc' = "loop"
      /\ UNCHANGED stack

AfterValue ==
  /\ pc = "after"
  /\ LET c == jsonAdvanceWhitespace(cur)
     IN  \/ cur.err # "JSON_OK" /\ ReturnList(cur, nodes)
         \/ /\ cur.err = "JSON_OK"
            /\ ~WsOk(cur)
            /\ Return(c, NULL, nodes)
            /\ UNCHANGED ptr
         \/ cur.err = "JSON_OK" /\ WsOk(cur) /\ jsonPeek(c) = "," /\ AfterComma(c)
         \/ /\ cur.err = "JSON_OK"
            /\ WsOk(cur)
            /\ jsonPeek(c) = Closer
            /\ ReturnList(IF jsonCanAdvanceBy(c, 1) THEN jsonAdvance(c) ELSE c, nodes)
         \/ /\ cur.err = "JSON_OK"
            /\ WsOk(cur)
            /\ jsonPeek(c) \notin {",", Closer}
            /\ Return(SetError(c, UnexpectedCharacter), NULL, nodes)
            /\ UNCHANGED ptr
  /\ UNCHANGED <<input, str, ptype, state>>

(* jsonStateNew, with errno and where the cursor is.                       *)
Finish ==
  /\ pc = "finish"
  /\ pc' = "done"
  /\ state' = [error |-> cur.err, ch |-> jsonPeek(cur), offset |-> cur.offset]
  /\ UNCHANGED <<input, cur, str, stack, nodes, ptr, ptype>>

StringRuns == StringStep /\ UNCHANGED parserVars

Next ==
  \/ Begin \/ Enter \/ Element \/ Member \/ Key \/ Value \/ TextValue
  \/ AfterValue \/ Finish \/ StringRuns

(* The caller waits in the call: the one thread there is takes every step. *)
Spec == Init /\ [][Next]_vars /\ WF_vars(Next)

-----------------------------------------------------------------------------
NodeIds == 1 .. Len(nodes)

(* The nodes a node points to: its next one, its first child.              *)
PointsTo(n) ==
  ({nodes[n].next} \cup IF nodes[n].value[1] = "child" THEN {nodes[n].value[2]} ELSE {})
    \ {NULL}

Finished == pc = "done" /\ state # NoState
Ok       == Finished /\ state.error = "JSON_OK"

Pcs == {"start", "enter", "loop", "key", "value", "text", "after", "finish", "done"}
ParserTypes ==
  {"none", "JSON_PARSER_OBJECT", "JSON_PARSER_ARRAY", "JSON_PARSER_NULL",
   "JSON_PARSER_BOOL", "JSON_PARSER_STRING", "JSON_PARSER_NUMERIC"}

(* The control state: cursors in the text, p->ptr and the locals of every  *)
(* activation on nodes that exist, an activation wherever one is needed.   *)
TypeOK ==
  /\ StrTypeOK
  /\ pc \in Pcs
  /\ ptype \in ParserTypes
  /\ ptr \in {NULL} \cup NodeIds
  /\ \A i \in DOMAIN stack :
       /\ stack[i].fn \in {"object", "array"}
       /\ stack[i].val \in {NULL} \cup NodeIds
       /\ stack[i].J \in {NULL} \cup NodeIds
  /\ stack = << >> <=> pc \in {"start", "finish", "done"}

(* The pointers of the nodes only lead to nodes made later, and no node is *)
(* pointed to twice: what hangs below the root is a tree, at every moment, *)
(* so that a walk over it ends and meets every node once.  Without an      *)
(* error it meets every node that was made, none is lost.                  *)
TreeShaped ==
  /\ \A n \in NodeIds : \A m \in PointsTo(n) : m > n /\ m \in NodeIds
  /\ \A n, m \in NodeIds : n # m => PointsTo(n) \cap PointsTo(m) = {}
  /\ \A n \in NodeIds : nodes[n].next # NULL => nodes[n].value # Child(nodes[n].next)
  /\ Ok => \A m \in NodeIds \ {Root} : \E n \in NodeIds : m \in PointsTo(n)

(* The field of the union a node's type promises to a reader is the one    *)
(* that was written, in every node that was made, also when parsing        *)
(* failed: jsonPrint is called on such results.                            *)
Written(type) ==
  CASE type \in {"JSON_OBJECT", "JSON_ARRAY"} -> {"child"}
    [] type \in {"JSON_STRING", "JSON_STRNUM"} -> {"text", "null"}
    [] type = "JSON_INT" -> {"int"}
    [] type = "JSON_FLOAT" -> {"float"}
    [] type = "JSON_BOOL" -> {"bool"}
    [] OTHER -> {"uninit"}

UnionMatchesType ==
  Finished => \A n \in NodeIds : nodes[n].value[1] \in Written(nodes[n].type)

(* "Repeat until either out of characters or there is an error which is    *)
(* set": once errno is set the parser enters no container.                 *)
StopsAtError == [][cur.err # "JSON_OK" => Len(stack') <= Len(stack)]_vars

(* Every call returns, unless a string copies its last character for ever. *)
ParseReturns == <>(pc = "done" \/ StuckOnLast)
=============================================================================
