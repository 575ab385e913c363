-------------------------- MODULE MCJsonWhitespace --------------------------
(* Lanes of two bytes; every text of up to six characters over a blank,     *)
(* a vertical tab and a letter, at every alignment.                         *)
EXTENDS JsonWhitespace, SequencesExt

Texts(alphabet, n) == BoundedSeq(alphabet, n)

AtEachBase(texts) == {[text |-> t, base |-> b, strnum |-> FALSE] :
                        t \in texts, b \in 0 .. Lane - 1}

MCInputs == AtEachBase(Texts({" ", "VT", "a"}, 6))

(* The difference with the naive version needs no vertical tab.            *)
MCBlankInputs == AtEachBase(Texts({" ", "a"}, 5))
=============================================================================
