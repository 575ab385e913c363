---------------------------- MODULE MCJsonString ----------------------------
(* Every string literal of up to three pieces, followed by every tail, and  *)
(* the same cut short after any piece or in the next escape.  meant is the  *)
(* string the literal spells, the place behind it, and whether the parser   *)
(* must accept it.                                                          *)
EXTENDS JsonString, MCJsonText, SequencesExt

Piece(text, unit) == [text |-> text, units |-> <<unit>>, good |-> TRUE]
BadPiece(text)    == [text |-> text, units |-> << >>, good |-> FALSE]

GoodPieces ==
  {Piece(Chars("a"), <<"a">>), Piece(Chars(" "), <<" ">>),
   Piece(Backslash \o Chars("n"), <<"\n">>),
   Piece(Backslash \o Quote, <<QUOTE>>),
   Piece(Backslash \o Backslash, <<BACKSLASH>>),
   Piece(Backslash \o Chars("uABCD"), <<"utf8", 234, 175, 141>>)}

High == Backslash \o Chars("uDADA")
Low  == Backslash \o Chars("uDCAB")

BadPieces ==
  {BadPiece(Backslash \o Chars("q")), BadPiece(Backslash \o Chars("uABCG")),
   BadPiece(High), BadPiece(Low),
   BadPiece(High \o Backslash \o Chars("uABCD")),
   BadPiece(High \o Backslash \o Chars("uABCG"))}

(* High and Low in a row are one good piece, U+C68AB: see MCRefusedInputs.  *)
FormsPair(pieces) ==
  \E i \in 1 .. Len(pieces) - 1 :
    pieces[i].text = High /\ pieces[i + 1].text = Low

PairPiece == Piece(High \o Low, <<"utf8", 243, 134, 162, 171>>)

Texts(pieces) == FlattenSeq([i \in DOMAIN pieces |-> pieces[i].text])
Units(pieces) == FlattenSeq([i \in DOMAIN pieces |-> pieces[i].units])
Good(pieces)  == \A i \in DOMAIN pieces : pieces[i].good

NotAString == [units |-> << >>, ends |-> -1, accept |-> FALSE]

(* A literal is closed and something other than a quote follows it.  One   *)
(* whose last piece is an escaped backslash is not asked to be accepted     *)
(* here; MCRefusedInputs asks it.                                           *)
EscapedBackslashLast(pieces) ==
  pieces # << >> /\ Last(pieces).units = <<<<BACKSLASH>>>>

Literal(pieces, tail) ==
  LET text == Quoted(Texts(pieces))
  IN  [text |-> text \o tail, base |-> 0, strnum |-> FALSE,
       meant |-> IF Good(pieces)
                 THEN [units |-> Units(pieces), ends |-> Len(text),
                       accept |-> /\ tail \notin {<< >>, Quote}
                                  /\ ~EscapedBackslashLast(pieces)]
                 ELSE NotAString]

(* The text ends inside the literal: behind a piece, or behind the          *)
(* backslash of one more escape.                                            *)
Cut(pieces, tail) ==
  [text |-> Quote \o Texts(pieces) \o tail, base |-> 0, strnum |-> FALSE,
   meant |-> NotAString]

(* Behind the closing quote: nothing, more of a document, another quote, a  *)
(* backslash, and the rest of what might be the low half of a pair.         *)
Bodies(n) ==
  {b \in BoundedSeq(GoodPieces \cup BadPieces, n) : ~FormsPair(b)}
Tails ==
  {<< >>, Chars(","), Quote, Chars("]"), Chars(" ") \o Quote}

MCInputs ==
  {Literal(b, t) : b \in Bodies(3), t \in Tails}
  \cup {Literal(b, t) : b \in Bodies(2), t \in {Backslash, Chars("uDCAB")}}
  \cup {Cut(b, << >>) : b \in Bodies(3)}
  \cup {Cut(b, Backslash) : b \in Bodies(2)}

(* A pair; a string whose last character is a backslash, escaped.           *)
MCRefusedInputs ==
  {Literal(<<PairPiece>>, Chars(",")),
   [Literal(<<Piece(Backslash \o Backslash, <<BACKSLASH>>)>>, Chars(","))
      EXCEPT !.meant.accept = TRUE]}

(* The text ends behind the backslash of an escape; the closing quote is    *)
(* taken for the backslash of the second half of a pair; the call is not    *)
(* made at a quote, as JSON_STRNUM_FLAG has it for a number.                *)
MCOverrunInputs ==
  {Cut(<<Piece(Chars("a"), <<"a">>)>>, Backslash),
   Literal(<<BadPiece(High)>>, Chars("uDCAB")),
   [Literal(<< >>, Chars("]")) EXCEPT !.text = Chars("0,") \o @]}
=============================================================================
