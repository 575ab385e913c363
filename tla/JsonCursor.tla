----------------------------- MODULE JsonCursor -----------------------------
(***************************************************************************)
(* The parser's position in the text and the primitives that move it.      *)
(*                                                                         *)
(* input is what the caller passes and no code changes: the text (without  *)
(* its terminating NUL), the address of its first byte modulo the lane     *)
(* width, and whether JSON_STRNUM_FLAG is set.  buflen is the length of    *)
(* the text, as jsonParse and jsonParseWithFlags compute it with strlen.   *)
(*                                                                         *)
(* A cursor is the pair p->offset, p->errno.  The primitives are functions *)
(* of a cursor, so that a handler that makes several calls is one action.  *)
(***************************************************************************)
EXTENDS JsonChars, FiniteSetsExt

CONSTANTS
  Lane,      (* bytes compared at once: 16 for SSE2                        *)
  Inputs     (* the inputs to parse                                        *)

ASSUME CursorAssumption ==
  /\ Lane \in Nat \ {0}
  /\ \A i \in Inputs : /\ i.text \in Seq(STRING \ {NUL})
                        /\ i.base \in 0 .. Lane - 1
                        /\ i.strnum \in BOOLEAN

VARIABLE input

buflen == Len(input.text)

(* p->buffer[i] for i up to buflen, where the NUL is.                      *)
At(i) == IF i < buflen THEN input.text[i + 1] ELSE NUL

Cursor == [offset : 0 .. buflen, err : JSON_ERRNO]

jsonPeek(c) == At(c.offset)
jsonCanAdvanceBy(c, jmp) == c.offset + jmp < buflen
jsonUnsafeAdvanceBy(c, jmp) == [c EXCEPT !.offset = @ + jmp]
SetError(c, error) == [c EXCEPT !.err = error]
jsonAdvanceToError(c, jmp, error) == SetError(jsonUnsafeAdvanceBy(c, jmp), error)

jsonAdvance(c) ==
  IF jsonCanAdvanceBy(c, 1) THEN jsonUnsafeAdvanceBy(c, 1)
                            ELSE SetError(c, "JSON_EOF")

(* Stops at the terminator or at the last character of the text.           *)
jsonAdvanceToTerminator(c, terminator) ==
  [c EXCEPT !.offset = Min({i \in @ .. buflen :
                              At(i) = terminator \/ i + 1 >= buflen})]

-----------------------------------------------------------------------------
(* The SSE2 getNextNonWhitespaceIdx, as the position its three loops stop  *)
(* at: byte by byte to the next lane boundary, then lane by lane.  It      *)
(* reports failure when the text ends exactly on a lane boundary and       *)
(* everything before it is white space; a text that ends inside a lane is  *)
(* found at its NUL.                                                       *)

NextBoundary(i) == i + ((Lane - ((input.base + i) % Lane)) % Lane)

LaneEnd(i) == Min({j \in i .. buflen : ~isLaneWhiteSpace(At(j))})

getNextNonWhitespaceIdx(i) ==
  LET boundary == NextBoundary(i + 1)
      early    == {j \in i + 1 .. boundary - 1 : ~isWhiteSpace(At(j))}
      stop     == LaneEnd(boundary)
  IN  CASE ~isWhiteSpace(At(i)) -> [ok |-> TRUE, at |-> i]
        [] isWhiteSpace(At(i)) /\ early # {} -> [ok |-> TRUE, at |-> Min(early)]
        [] isWhiteSpace(At(i)) /\ early = {} /\ boundary = buflen ->
             [ok |-> FALSE, at |-> boundary]
        [] OTHER ->
             IF stop = buflen /\ (buflen - boundary) % Lane = 0
             THEN [ok |-> FALSE, at |-> buflen - Lane]
             ELSE [ok |-> TRUE, at |-> stop]

(* jsonAdvanceWhitespace: the cursor after it; its result is WsOk.         *)
WsOk(c) == getNextNonWhitespaceIdx(c.offset).ok

jsonAdvanceWhitespace(c) ==
  LET found == getNextNonWhitespaceIdx(c.offset)
      moved == [c EXCEPT !.offset = found.at]
  IN  IF found.ok THEN moved ELSE SetError(moved, "JSON_UNTERMINATED")

(* The naive version, compiled where there is neither SSE2 nor NEON.       *)
getNextNonWhitespaceIdxSimple(i) ==
  LET stop == Min({j \in i .. buflen : ~isWhiteSpace(At(j))})
  IN  [ok |-> ~(stop = buflen /\ isWhiteSpace(At(stop - 1))), at |-> stop]
=============================================================================
