--------------------------- MODULE MCJsonProgram ---------------------------
(* main.c on documents, on texts cut short and on malformed ones, with an   *)
(* arena so small that a document takes several blocks and a text may take  *)
(* one of its own.                                                          *)
EXTENDS JsonProgram, MCJsonParser

LongText == TextPiece("longer than a block")
Files ==
  {InputOf(d, TRUE, 0) :
     d \in {ObjectOf(Commas(Named("k", v), Named("l", w))) : v, w \in Scalars}
          \cup {ArrayOf(Commas(<<LongText>>, v)) : v \in Scalars \cup EmptyLists}
          \cup Lists(EmptyLists \cup Lists({<<TextPiece("s")>>}))}
  \cup {i \in CutInBlanks : i.base = 0} \cup Malformed \cup InvalidTests

MCFiles == {[i EXCEPT !.meant = << >>] : i \in Files}

MCBlankFile == {Raw(Chars("    "), "any", 0, FALSE)}
(* A number that breaks off.                                                *)
MCCutNumber == {Raw(Chars("[1-"), "any", 0, FALSE)}
=============================================================================
