----------------------------- MODULE JsonBuffer -----------------------------
(***************************************************************************)
(* The growing string buffer of jsonToString.                              *)
(*                                                                         *)
(* js is the jsonString struct; its buffer is a function on the bytes that *)
(* were allocated.  overrun is a history variable: whether a byte was ever *)
(* written behind them.                                                    *)
(***************************************************************************)
EXTENDS JsonChars

CONSTANTS
  InitialCapacity,  (* 128                                                 *)
  MinScratch,       (* 512: min_len of jsonStringCatf                      *)
  SizeMod,          (* 2^w: size_t is arithmetic modulo SizeMod            *)
  MaxText,          (* bound: length of the text in a buffer               *)
  ReallocMayFail    (* whether realloc may return NULL                     *)

ASSUME BufferAssumption ==
  /\ InitialCapacity \in Nat \ {0}
  /\ MinScratch \in Nat
  /\ SizeMod \in Nat \ {0}
  /\ MaxText \in Nat
  /\ ReallocMayFail \in BOOLEAN

VARIABLES js, overrun

bufferVars == <<js, overrun>>

(* What a byte holds that malloc returned and nobody has written.          *)
Unwritten == "unwritten"

Allocated(capacity) == [i \in 0 .. capacity - 1 |-> Unwritten]

jsonStringNew ==
  [buffer |-> Allocated(InitialCapacity), capacity |-> InitialCapacity, len |-> 0]

(* Mutant of NewCapacity: the piece is not counted.                        *)
NewCapacityDouble(b, additional) == (b.capacity * 2) % SizeMod

NewCapacity(b, additional) == ((b.capacity + additional) * 2) % SizeMod

NeedsMore(b, additional) == (b.len + 1 + additional) % SizeMod >= b.capacity

Realloc(b, capacity) ==
  [b EXCEPT !.capacity = capacity,
            !.buffer = [i \in 0 .. capacity - 1 |->
                          IF i < b.capacity THEN b.buffer[i] ELSE Unwritten]]

(* jsonStringExtendBufferIfNeeded: the buffers it may leave.  Nobody looks *)
(* at its result, so a failure leaves the buffer as it was.                *)
Extended(b, additional) ==
  IF NeedsMore(b, additional) /\ NewCapacity(b, additional) > b.capacity
  THEN {Realloc(b, NewCapacity(b, additional))} \cup IF ReallocMayFail THEN {b} ELSE {}
  ELSE {b}

(* Mutant of Appended: no terminating NUL.                                  *)
AppendedBare(b, d) ==
  [b EXCEPT !.len = @ + Len(d),
            !.buffer = [i \in 0 .. b.capacity - 1 |->
                          IF i \in b.len .. b.len + Len(d) - 1 THEN d[i - b.len + 1]
                          ELSE b.buffer[i]]]

(* memcpy and the terminating NUL, as far as the buffer reaches.           *)
Appended(b, d) ==
  [b EXCEPT !.len = @ + Len(d),
            !.buffer = [i \in 0 .. b.capacity - 1 |->
                          IF i \in b.len .. b.len + Len(d) - 1 THEN d[i - b.len + 1]
                          ELSE IF i = b.len + Len(d) THEN NUL ELSE b.buffer[i]]]

jsonStringCatLen(d) ==
  /\ js.len + Len(d) <= MaxText
  /\ \E b \in Extended(js, Len(d)) :
       /\ js' = Appended(b, d)
       /\ overrun' = (overrun \/ b.len + Len(d) >= b.capacity)

(* jsonStringCatf formats into a scratch buffer first, which is replaced   *)
(* by one of the right size when vsnprintf says that it is too small.      *)
ScratchLen(d) == IF Len(d) >= MinScratch THEN Len(d) + 1 ELSE MinScratch
jsonStringCatf(d) == Len(d) < ScratchLen(d) /\ jsonStringCatLen(d)

-----------------------------------------------------------------------------
(* The buffer on its own, with any pieces.                                 *)

BufferInit == js = jsonStringNew /\ overrun = FALSE

BufferNext ==
  \E d \in Seq(STRING \ {NUL}) : jsonStringCatLen(d) \/ jsonStringCatf(d)

BufferSpec == BufferInit /\ [][BufferNext]_bufferVars

-----------------------------------------------------------------------------
(* Every byte jsonStringCatLen writes, the terminating NUL included, lies  *)
(* in the buffer, whatever the lengths of the pieces and however the       *)
(* buffer grew before.                                                     *)
NoOverrun == ~overrun

(* What a caller of strlen finds: the buffer ends with its first NUL, at   *)
(* the length that jsonToString returns beside it.                         *)
Terminated ==
  js.len > 0 =>
    /\ js.len < js.capacity
    /\ js.buffer[js.len] = NUL
    /\ \A i \in 0 .. js.len - 1 : js.buffer[i] # NUL

(* The text written so far.                                                *)
BufferText == [i \in 1 .. js.len |-> js.buffer[i - 1]]
=============================================================================
