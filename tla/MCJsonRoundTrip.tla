-------------------------- MODULE MCJsonRoundTrip --------------------------
(* The round trip of documents up to two containers deep with every kind of *)
(* value, and of texts that are no documents.                               *)
EXTENDS JsonRoundTrip, MCJsonParser

(* A member or element with a character jsonToString should escape.         *)
QuoteIn == Chars("a") \o Backslash \o Quote
SpecialKey  == [text |-> Quoted(QuoteIn) \o Chars(":"),
                tokens |-> <<<<"key", <<<<"a">>, <<"\"">>>>>>>>]
SpecialText == [text |-> Quoted(QuoteIn), tokens |-> <<<<"text", <<<<"a">>, <<"\"">>>>>>>>]
ControlText == [text |-> Quoted(<<"VT", "a">>), tokens |-> <<<<"text", <<<<"VT">>, <<"a">>>>>>>>]
Float(text) == <<Piece(text \o "\n", <<"float", << >>>>)>>

Values == Scalars \cup EmptyLists \cup {<<SpecialText>>, Float("-12.625"), Float("2.0")}
Pairs == {<<Piece("null", <<"null">>)>>, <<SpecialText>>, <<Piece("-42\n", <<"int", -42>>)>>,
          <<Open("["), Open("]")>>}
Trees ==
  {ArrayOf(v) : v \in Values} \cup {ObjectOf(Named("k", v)) : v \in Values}
  \cup {ObjectOf(<<SpecialKey>> \o v) : v \in Values}
  \cup Lists(Pairs) \cup Lists(EmptyLists \cup Lists({<<TextPiece("s")>>}))
  \cup {ArrayOf(<<ControlText>>)}
Unparsed == {Raw(Chars("[nul]"), "any", 0, FALSE), Raw(Chars(" "), "any", 0, FALSE)}

MCRoundTrips == {[i EXCEPT !.meant = << >>] : i \in {InputOf(d, TRUE, 0) : d \in Trees} \cup Unparsed}

(* An empty object, a key with a quote, a number in front of a brace.       *)
MCLost ==
  {InputOf(ObjectOf(d), TRUE, 0) :
     d \in {Named("k", <<Open("{"), Open("}")>>),
            <<SpecialKey>> \o <<Piece("null", <<"null">>)>>,
            Named("k", <<Piece("42\n", <<"int", 42>>)>>)}}
MCControlText  == {InputOf(ArrayOf(<<ControlText>>), TRUE, 0)}
=============================================================================
