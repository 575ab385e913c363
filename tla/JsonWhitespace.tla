--------------------------- MODULE JsonWhitespace ---------------------------
(***************************************************************************)
(* The SSE2 getNextNonWhitespaceIdx of json.c, loop by loop: one byte at a *)
(* time up to a lane boundary, then Lane bytes at a time.  A lane is       *)
(* loaded whole, so the last one may hold bytes behind the text's NUL;     *)
(* nobody says what they are.  JsonCursor has the same function as one     *)
(* operator, which is what the parser's modules use.                       *)
(***************************************************************************)
EXTENDS JsonCursor

VARIABLES
  pc,      (* "first", "bytes", "lanes" or "returned"                      *)
  start,   (* `ptr' on entry, an index of the text                         *)
  ptr,     (* `ptr', an index of the text or behind it                     *)
  result   (* [ok, at]: *_ok and the index returned, start added back      *)

vars == <<input, pc, start, ptr, result>>

NoResult == [ok |-> FALSE, at |-> 0]

Init ==
  /\ input \in Inputs
  /\ pc = "first"
  /\ start \in 0 .. buflen
  /\ ptr = start
  /\ result = NoResult

Return(ok, at) ==
  /\ pc' = "returned"
  /\ result' = [ok |-> ok, at |-> at]
  /\ UNCHANGED <<input, start, ptr>>

FirstByte ==
  /\ pc = "first"
  /\ \/ ~isWhiteSpace(At(ptr)) /\ Return(TRUE, ptr)
     \/ /\ isWhiteSpace(At(ptr))
        /\ ptr' = ptr + 1
        /\ pc' = "bytes"
        /\ UNCHANGED <<input, start, result>>

(* next_boundary is computed once, before the loop; it is the first        *)
(* boundary at or after start + 1.                                         *)
next_boundary == NextBoundary(start + 1)

(* Mutant of ByteLoop: the pointer is not moved.                           *)
ByteLoopStays ==
  /\ pc = "bytes"
  /\ ptr # next_boundary
  /\ ~isWhiteSpace(At(ptr))
  /\ Return(TRUE, ptr)

ByteLoop ==
  /\ pc = "bytes"
  /\ ptr # next_boundary
  /\ \/ ~isWhiteSpace(At(ptr)) /\ Return(TRUE, ptr)
     \/ /\ isWhiteSpace(At(ptr))
        /\ ptr' = ptr + 1
        /\ UNCHANGED <<input, pc, start, result>>

(* Mutant of AtBoundary: the end of the text is not looked for.            *)
AtBoundaryUnchecked ==
  /\ pc = "bytes"
  /\ ptr = next_boundary
  /\ pc' = "lanes"
  /\ UNCHANGED <<input, start, ptr, result>>

AtBoundary ==
  /\ pc = "bytes"
  /\ ptr = next_boundary
  /\ \/ ptr = buflen /\ Return(FALSE, ptr)
     \/ ptr # buflen /\ pc' = "lanes" /\ UNCHANGED <<input, start, ptr, result>>

(* Mutant of Mismatches: the last byte of the lane is not compared.        *)
MismatchesButLast(behind) ==
  {i \in ptr .. ptr + (Lane - 2) :
     IF i <= buflen THEN ~isLaneWhiteSpace(At(i)) ELSE i \in behind}

(* Bytes of the lane at ptr that differ from the four white space masks.   *)
(* behind: what the bytes after the NUL happen to match.                   *)
Mismatches(behind) ==
  {i \in ptr .. ptr + (Lane - 1) :
     IF i <= buflen THEN ~isLaneWhiteSpace(At(i)) ELSE i \in behind}

Behind == buflen + 1 .. ptr + (Lane - 1)

(* Mutant of LaneLoop: a lane that ends with the text is not the last one. *)
LaneLoopOnceMore ==
  /\ pc = "lanes"
  /\ \E behind \in SUBSET Behind :
       LET r == Mismatches(behind)
       IN  \/ r # {} /\ Return(TRUE, Min(r))
           \/ r = {} /\ ptr + Lane > buflen /\ Return(FALSE, ptr)
           \/ /\ r = {}
              /\ ptr + Lane <= buflen
              /\ ptr' = ptr + Lane
              /\ UNCHANGED <<input, pc, start, result>>

LaneLoop ==
  /\ pc = "lanes"
  /\ \E behind \in SUBSET Behind :
       LET r == Mismatches(behind)
       IN  \/ r # {} /\ Return(TRUE, Min(r))
           \/ r = {} /\ ptr + Lane >= buflen /\ Return(FALSE, ptr)
           \/ /\ r = {}
              /\ ptr + Lane < buflen
              /\ ptr' = ptr + Lane
              /\ UNCHANGED <<input, pc, start, result>>

Next == FirstByte \/ ByteLoop \/ AtBoundary \/ LaneLoop

Spec == Init /\ [][Next]_vars /\ WF_vars(Next)

-----------------------------------------------------------------------------
TypeOK ==
  /\ input \in Inputs
  /\ pc \in {"first", "bytes", "lanes", "returned"}
  /\ start \in 0 .. buflen
  /\ ptr \in 0 .. buflen
  /\ result \in [ok : BOOLEAN, at : 0 .. buflen]

(* The three loops together compute what JsonCursor's operator says they   *)
(* do, whatever the bytes behind the text are.                             *)
LoopsComputeOperator ==
  pc = "returned" => result = getNextNonWhitespaceIdx(start)

(* A lane that is loaded begins inside the text, on a boundary: an aligned *)
(* load never reaches a lane the text, with its NUL, has no byte in.       *)
LanesHoldText ==
  pc = "lanes" => /\ ptr < buflen
                  /\ (input.base + ptr) % Lane = 0
                  /\ \A i \in start .. ptr - 1 : isWhiteSpace(At(i))

(* "Makes moving past whitespace faster": the vectorised function finds    *)
(* the character the naive one finds.                                      *)
SameAsSimple ==
  pc = "returned" /\ start < buflen => result = getNextNonWhitespaceIdxSimple(start)

(* Weaker, and what holds: where white space is what JSON allows and the   *)
(* text does not end in it, both versions agree.                           *)
JsonSpaceOnly ==
  \A i \in 0 .. buflen - 1 : isWhiteSpace(At(i)) => isLaneWhiteSpace(At(i))

SameAsSimpleOnJson ==
  /\ pc = "returned"
  /\ JsonSpaceOnly
  /\ buflen > 0
  /\ ~isWhiteSpace(At(buflen - 1))
  => result = getNextNonWhitespaceIdxSimple(start)

(* The scan of every text, from every position, ends.                      *)
ScanReturns == <>(pc = "returned")
=============================================================================
