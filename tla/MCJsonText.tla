----------------------------- MODULE MCJsonText -----------------------------
(* Texts for the small instances, spelled as strings and cut into the       *)
(* one-character strings the specifications work on.                        *)
EXTENDS Sequences, Integers

Chars(s) == [i \in 1 .. Len(s) |-> SubSeq(s, i, i)]

Quote     == <<"\"">>
Backslash == <<"\\">>

Quoted(s) == Quote \o s \o Quote
=============================================================================
