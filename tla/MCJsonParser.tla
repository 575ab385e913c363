---------------------------- MODULE MCJsonParser ----------------------------
(* The parser on texts put together from pieces.  meant holds the tokens a  *)
(* text was put together from, the place behind each, and whether the text  *)
(* is a document the parser must accept.  A token is a tuple: <<"[">>,      *)
(* <<"key", units>>, <<"int", 7>> and so on.                                *)
EXTENDS JsonParser, MCJsonText

(* The tokens of the tree below the root: what a node and the nodes after  *)
(* it in its list stand for, found from the last node to the first.        *)
Tokens ==
  LET ValueTokens(n, Below(_)) ==
        CASE nodes[n].type = "JSON_OBJECT" ->
               <<<<"{">>>> \o Below(nodes[n].value[2]) \o <<<<"}">>>>
          [] nodes[n].type = "JSON_ARRAY" ->
               <<<<"[">>>> \o Below(nodes[n].value[2]) \o <<<<"]">>>>
          [] nodes[n].type = "JSON_NULL" -> <<<<"null">>>>
          [] OTHER -> <<nodes[n].value>>
      KeyTokens(n) ==
        IF nodes[n].key = NullText THEN << >> ELSE <<<<"key", nodes[n].key[2]>>>>
      From[n \in 0 .. Len(nodes)] ==
        IF n = NULL THEN << >>
        ELSE KeyTokens(n) \o ValueTokens(n, LAMBDA m : From[m])
               \o IF nodes[n].next = NULL THEN << >>
                  ELSE <<<<",">>>> \o From[nodes[n].next]
  IN  From[Root]

(* The tokens of the text up to the cursor.                                *)
TokensBefore(i) ==
  SubSeq(input.meant.tokens, 1, Cardinality({k \in DOMAIN input.meant.ends :
                                               input.meant.ends[k] <= i}))

Copies(token, n) == [i \in 1 .. n |-> token]

(* A result without error is the tree that the text up to its offset       *)
(* spells.  A closing bracket at the very end of the text is not moved     *)
(* past, so that it may have closed more than one container.               *)
OkMeansMeant ==
  Ok =>
    \/ Tokens = TokensBefore(state.offset)
    \/ /\ state.offset = buflen - 1
       /\ \E n \in 0 .. MaxDepth :
            Tokens = TokensBefore(buflen) \o Copies(Last(input.meant.tokens), n)

(* jsonOk: "Is the json valid".  Every container entered is closed by a    *)
(* bracket of its own.                                                     *)
OkMeansClosed ==
  Ok => \/ Tokens = TokensBefore(state.offset)
        \/ state.offset = buflen - 1 /\ Tokens = TokensBefore(buflen)

(* A document is accepted.                                                 *)
AcceptsDocuments == Finished /\ input.meant.accept => state.error = "JSON_OK"

(* The six texts that the library's test expects to be rejected (test.c:211 *)
(* to test.c:221) are, each with the error the test names.                  *)
RejectsAsTested ==
  Finished /\ input.meant.error # "any" => state.error = input.meant.error

-----------------------------------------------------------------------------
Piece(text, token)  == [text |-> Chars(text), tokens |-> <<token>>]
Blank(text)         == [text |-> Chars(text), tokens |-> << >>]

KeyPiece(name) ==
  [text |-> Quoted(Chars(name)) \o Chars(":"), tokens |-> <<<<"key", <<<<name>>>>>>>>]
TextPiece(name) ==
  [text |-> Quoted(Chars(name)), tokens |-> <<<<"text", <<<<name>>>>>>>>]

Open(b)  == Piece(b, <<b>>)

(* The text of a sequence of pieces, its tokens and where they end.        *)
TextOf(pieces)   == FlattenSeq([i \in DOMAIN pieces |-> pieces[i].text])
TokensOf(pieces) == FlattenSeq([i \in DOMAIN pieces |-> pieces[i].tokens])
EndsOf(pieces) ==
  FlattenSeq([i \in DOMAIN pieces |->
    IF pieces[i].tokens = << >> THEN << >>
    ELSE <<Len(TextOf(SubSeq(pieces, 1, i)))>>])

InputOf(pieces, accept, base) ==
  [text |-> TextOf(pieces), base |-> base, strnum |-> FALSE,
   meant |-> [tokens |-> TokensOf(pieces), ends |-> EndsOf(pieces),
              accept |-> accept, error |-> "any"]]

(* Every sequence of N pieces that begins with a bracket, whether or not   *)
(* it is a document, except those on which the parser does not return:     *)
(* see MCOpenBracket.                                                      *)
Pieces == {Open("["), Open("]"), Open("{"), Open("}"), Open(","),
           KeyPiece("k"), Piece("null", <<"null">>), Piece("0", <<"int", 0>>)}
Openers == {Open("["), Open("{")}

Sequences(n) ==
  {s \in UNION {[1 .. m -> Pieces] : m \in 1 .. n} :
     s[1] \in Openers /\ Last(s) # Open("[")}
MCSequences == {InputOf(s, FALSE, 0) : s \in Sequences(5)}

-----------------------------------------------------------------------------
(* Documents up to two containers deep, in three layouts.  The blanks put  *)
(* tokens at every alignment, from an even and from an odd address.  A     *)
(* number is followed by a newline, which ends it and is white space: the  *)
(* other characters that may follow one are the subject of MCRejected.     *)

EmptyLists == {<<Open("["), Open("]")>>, <<Open("{"), Open("}")>>}
Float15 == [neg |-> FALSE, fraction |-> 15, divide |-> TRUE, exponent |-> 1]
Escaped == [text |-> Quoted(Chars("a") \o Backslash \o Chars("n")),
            tokens |-> <<<<"text", <<<<"a">>, <<"\n">>>>>>>>]
Scalars ==
  {<<Piece("null", <<"null">>)>>, <<Piece("true", <<"bool", 1>>)>>,
   <<Piece("false", <<"bool", 0>>)>>, <<TextPiece("s")>>, <<Escaped>>,
   <<Piece("-42\n", <<"int", -42>>)>>, <<Piece("1.5\n", <<"float", Float15>>)>>}

(* Lists of one or two values.                                             *)
Commas(a, b) == a \o <<Open(",")>> \o b
Named(k, v)  == <<KeyPiece(k)>> \o v
ArrayOf(b)   == <<Open("[")>> \o b \o <<Open("]")>>
ObjectOf(b)  == <<Open("{")>> \o b \o <<Open("}")>>
Lists(values) ==
  {ArrayOf(v) : v \in values} \cup {ObjectOf(Named("k", v)) : v \in values}
  \cup {ArrayOf(Commas(v, w)) : v, w \in values}
  \cup {ObjectOf(Commas(Named("k", v), Named("l", w))) : v, w \in values}

Flat   == Lists(Scalars \cup EmptyLists)
Nested == Lists(EmptyLists \cup Lists({<<TextPiece("s")>>}))

Spread(pieces, blank) ==
  FlattenSeq([i \in DOMAIN pieces |-> <<pieces[i], Blank(blank)>>])

MCDocuments ==
  {InputOf(d, TRUE, 0) : d \in Flat \cup Nested}
  \cup {InputOf(Spread(d, b), TRUE, base) :
          d \in Nested, b \in {" ", "\n\t \r"}, base \in {0, 1}}

-----------------------------------------------------------------------------
(* Texts that are no documents.  What they are read as is not asked, only  *)
(* that the parser keeps its invariants and returns.                       *)

Raw(text, error, base, strnum) ==
  [text |-> text, base |-> base, strnum |-> strnum,
   meant |-> [tokens |-> << >>, ends |-> << >>, accept |-> FALSE, error |-> error]]

Key1 == Chars("{") \o Quoted(Chars("k"))

(* The text ends behind the backslash of an escape, in a value and in a    *)
(* key: these are never returned from (StuckOnLast).  The closing quote    *)
(* is read into a pair.                                                    *)
CutInEscape ==
  {Chars("[") \o Quote \o Chars("a") \o Backslash,
   Chars("{") \o Quote \o Chars("k") \o Backslash,
   Chars("[") \o Quoted(Backslash \o Chars("uDADA")) \o Chars("uDCAB]")}

(* Cut short in white space that may or may not reach a lane boundary.     *)
CutInBlanks ==
  {Raw(text \o [i \in 1 .. n |-> " "], "any", base, FALSE) :
     text \in {<< >>, Chars("["), Chars("{"), Chars("[0\n"), Chars("[0,"),
              Key1 \o Chars(":"), Key1 \o Chars(":null"), Key1 \o Chars(":null,")},
     n \in 0 .. 6, base \in 0 .. Lane - 1} \ {Raw(Chars("["), "any", base, FALSE) : base \in 0 .. Lane - 1}

Malformed ==
  {Raw(text, "any", 0, FALSE) :
     text \in {Chars("x"), Chars("0"), Key1, Key1 \o Chars(",0"), Chars("[tru]"),
              Chars("[trux]"), Chars("[falsx]"), Chars("[fal"), Chars("[nul"),
              Chars("[-1y]"), Chars("[0x0.0]"), Chars("[[,]]"), Chars("[") \o Quote \o Chars("a"),
              Chars("[") \o Quoted(Chars("a")),
              Chars("[") \o Quoted(Backslash \o Chars("q")) \o Chars("]"),
              Chars("{") \o Quoted(Backslash \o Chars("q")) \o Chars(":0]")}
             \cup CutInEscape}
  \cup {Raw(Chars("[0]"), "any", 0, TRUE)}

(* test-jsons/invalid1.json to invalid6.json with the errors test.c:211 to *)
(* test.c:221 expects.  A quote of the files is written ' here, except in  *)
(* invalid4.json, whose quotes are that.                                   *)
Quotes(text) == [i \in DOMAIN text |-> IF text[i] = "'" THEN "\"" ELSE text[i]]

Invalid5 ==
  Quotes(Chars("{\n  'title': 'Sample Book',\n  'author': 'John Smith'\n\n"))

InvalidTests ==
  {Raw(Quotes(Chars("{\n    'id': 10,\n    name: 'james'\n}\n")),
       "JSON_INVALID_KEY_TERMINATOR_CHARACTER", 0, FALSE),
   Raw(Quotes(Chars("{\n    'id': 10,\n    [1,2,3,4]\n}\n")),
       "JSON_INVALID_KEY_TERMINATOR_CHARACTER", 0, FALSE),
   Raw(Quotes(Chars("{\n  'name': 'John Doe'\n  'age': 30\n}\n")),
       "JSON_INVALID_JSON_TYPE_CHAR", 0, FALSE),
   Raw(Chars("{\n  'name': 'Alice',\n  'age': 28\n}\n\n"),
       "JSON_INVALID_KEY_TERMINATOR_CHARACTER", 0, FALSE),
   Raw(Invalid5, "JSON_INVALID_JSON_TYPE_CHAR", 0, FALSE),
   Raw(Quotes(Chars("{\n  'path': 'C:") \o Backslash \o Chars("Users") \o Backslash
              \o Chars("JohnDoe") \o Backslash \o Chars("Documents'\n}\n")),
       "JSON_INVALID_ESCAPE_CHARACTER", 0, FALSE)}

MCTexts == MCSequences \cup MCDocuments \cup CutInBlanks \cup Malformed \cup InvalidTests

-----------------------------------------------------------------------------
(* Texts for what the code does and its documentation does not say: one on *)
(* which the parser does not return, one that is read on after an error,   *)
(* documents it rejects and texts it accepts.                              *)
MCOpenBracket == {Raw(Chars("["), "any", 0, FALSE)}
MCBadKey ==
  {Raw(Chars("{") \o Quoted(Backslash \o Chars("q")) \o Chars(":[0]]"), "any", 0, FALSE)}
MCRejected ==
  {InputOf(<<Open("["), Open("]")>>, TRUE, 0),
   InputOf(ObjectOf(Named("k", <<Piece("42", <<"int", 42>>)>>)), TRUE, 0),
   [InputOf(ArrayOf(<<Piece("42", <<"text", <<<<"4">>, <<"2">>>>>>)>>), TRUE, 0)
      EXCEPT !.strnum = TRUE]}
MCAccepted ==
  {InputOf(<<Open("["), Open("["), Piece("0", <<"int", 0>>), Open("]")>>, FALSE, 0),
   InputOf(ArrayOf(<<Blank("nope")>>), FALSE, 0)}
=============================================================================
