------------------------ MODULE JsonWhitespaceProof ------------------------
(***************************************************************************)
(* The three loops of getNextNonWhitespaceIdx, for every text, alignment   *)
(* and lane width.                                                         *)
(***************************************************************************)
EXTENDS JsonWhitespace, JsonCursorProof

-----------------------------------------------------------------------------
(* The inductive invariant: where each loop can be, and that everything it *)
(* has passed is white space, of the kind that loop compares with.         *)
ScanInv ==
  /\ input \in Inputs
  /\ pc \in {"first", "bytes", "lanes", "returned"}
  /\ start \in 0 .. buflen
  /\ ptr \in 0 .. buflen
  /\ pc = "first" => ptr = start
  /\ pc \in {"bytes", "lanes"} => isWhiteSpace(At(start))
  /\ pc = "bytes" =>
       /\ start < ptr /\ ptr <= next_boundary
       /\ \A i \in start + 1 .. ptr - 1 : isWhiteSpace(At(i))
  /\ pc = "lanes" =>
       /\ ptr < buflen /\ next_boundary < buflen
       /\ \E k \in Nat : ptr = next_boundary + Lane * k
       /\ \A i \in start + 1 .. next_boundary - 1 : isWhiteSpace(At(i))
       /\ \A i \in next_boundary .. ptr - 1 : isLaneWhiteSpace(At(i))
  /\ LoopsComputeOperator

(* The operator's answer, in the cases the loops tell apart.               *)
early == {i \in start + 1 .. next_boundary - 1 : ~isWhiteSpace(At(i))}

(* What is not white space is found where it is.                           *)
LEMMA OperatorFirst ==
  ASSUME ~isWhiteSpace(At(start))
  PROVE  getNextNonWhitespaceIdx(start) = [ok |-> TRUE, at |-> start]
BY DEF getNextNonWhitespaceIdx

(* A character in front of the boundary is found there.                    *)
LEMMA OperatorEarly ==
  ASSUME isWhiteSpace(At(start)), early # {}
  PROVE  getNextNonWhitespaceIdx(start) = [ok |-> TRUE, at |-> Min(early)]
BY DEF getNextNonWhitespaceIdx, early, next_boundary

(* At the boundary the text ends: nothing is found.                        *)
LEMMA OperatorBoundary ==
  ASSUME isWhiteSpace(At(start)), early = {}, next_boundary = buflen
  PROVE  getNextNonWhitespaceIdx(start) = [ok |-> FALSE, at |-> next_boundary]
BY DEF getNextNonWhitespaceIdx, early, next_boundary

(* Behind the boundary the lanes decide.                                   *)
LEMMA OperatorLanes ==
  ASSUME isWhiteSpace(At(start)), early = {}, next_boundary # buflen
  PROVE  getNextNonWhitespaceIdx(start) =
           IF LaneEnd(next_boundary) = buflen /\ (buflen - next_boundary) % Lane = 0
           THEN [ok |-> FALSE, at |-> buflen - Lane]
           ELSE [ok |-> TRUE, at |-> LaneEnd(next_boundary)]
BY DEF getNextNonWhitespaceIdx, early, next_boundary

-----------------------------------------------------------------------------
(* No loop changes the text or where the scan began, so the operator's     *)
(* answer stays the same.                                                  *)
LEMMA Frame ==
  ASSUME UNCHANGED <<input, start>>
  PROVE  /\ buflen' = buflen
         /\ next_boundary' = next_boundary
         /\ \A i : At(i)' = At(i)
         /\ getNextNonWhitespaceIdx(start)' = getNextNonWhitespaceIdx(start)
BY DEF buflen, next_boundary, NextBoundary, At, getNextNonWhitespaceIdx, LaneEnd

(* A loop that returns the operator's answer keeps the invariant.          *)
LEMMA ReturnKeeps ==
  ASSUME ScanInv, NEW ok, NEW at, Return(ok, at),
         getNextNonWhitespaceIdx(start) = [ok |-> ok, at |-> at]
  PROVE  ScanInv'
<1>1. /\ pc' = "returned" /\ result' = [ok |-> ok, at |-> at]
      /\ input' = input /\ start' = start /\ ptr' = ptr
  BY DEF Return
<1>2. /\ buflen' = buflen
      /\ getNextNonWhitespaceIdx(start)' = getNextNonWhitespaceIdx(start)
  BY <1>1, Frame
<1>3. LoopsComputeOperator'
  BY <1>1, <1>2 DEF LoopsComputeOperator
<1> QED BY <1>1, <1>2, <1>3 DEF ScanInv

(* The first byte.                                                         *)
LEMMA FirstByteKeeps ==
  ASSUME CursorAssumption, ScanInv, FirstByte
  PROVE  ScanInv'
<1>1. /\ pc = "first" /\ ptr = start /\ input \in Inputs /\ start \in 0 .. buflen
      /\ buflen \in Nat
  BY TextFacts DEF ScanInv, FirstByte
<1>2. CASE ~isWhiteSpace(At(ptr)) /\ Return(TRUE, ptr)
  BY <1>1, <1>2, OperatorFirst, ReturnKeeps
<1>3. CASE isWhiteSpace(At(ptr)) /\ UNCHANGED <<input, start, result>>
             /\ ptr' = ptr + 1 /\ pc' = "bytes"
  <2>1. ptr < buflen
    BY <1>1, <1>3, SpaceInText
  <2>2. next_boundary \in Nat /\ next_boundary >= start + 1
    <3>1. start + 1 \in Nat
      BY <1>1
    <3> QED BY <1>1, <3>1, BoundaryAligned DEF next_boundary
  <2>3. buflen' = buflen /\ next_boundary' = next_boundary /\ \A i : At(i)' = At(i)
    BY <1>3, Frame
  <2>4. ptr' \in 0 .. buflen /\ start < ptr' /\ ptr' <= next_boundary
    BY <1>1, <1>3, <2>1, <2>2
  <2>5. \A i \in start + 1 .. ptr' - 1 : FALSE
    BY <1>1, <1>3
  <2>6. isWhiteSpace(At(start))'
    BY <1>1, <1>3, <2>3 DEF isWhiteSpace
  <2>7. \A i \in start' + 1 .. ptr' - 1 : isWhiteSpace(At(i))'
    BY <1>3, <2>5
  <2> QED BY <1>1, <1>3, <2>3, <2>4, <2>6, <2>7 DEF ScanInv, LoopsComputeOperator
<1> QED BY <1>2, <1>3 DEF FirstByte

(* The bytes up to the boundary.                                           *)
LEMMA ByteLoopKeeps ==
  ASSUME CursorAssumption, ScanInv, ByteLoop
  PROVE  ScanInv'
<1>1. /\ pc = "bytes" /\ input \in Inputs /\ start \in 0 .. buflen /\ ptr \in 0 .. buflen
      /\ buflen \in Nat /\ ptr # next_boundary /\ start < ptr /\ ptr <= next_boundary
      /\ isWhiteSpace(At(start))
      /\ \A i \in start + 1 .. ptr - 1 : isWhiteSpace(At(i))
  BY TextFacts DEF ScanInv, ByteLoop
<1>2. next_boundary \in Nat
  <2>1. start + 1 \in Nat
    BY <1>1
  <2> QED BY <1>1, <2>1, BoundaryAligned DEF next_boundary
<1>3. CASE ~isWhiteSpace(At(ptr)) /\ Return(TRUE, ptr)
  <2>1. ptr \in early
    BY <1>1, <1>2, <1>3 DEF early
  <2>2. early \in SUBSET Int
    BY <1>1, <1>2 DEF early
  <2>3. ASSUME NEW y \in early
        PROVE  ptr <= y
    BY <1>1, <1>2 DEF early
  <2>4. Min(early) = ptr
    BY <2>1, <2>2, <2>3, Smallest
  <2>5. early # {}
    BY <2>1
  <2> QED BY <1>1, <1>3, <2>4, <2>5, OperatorEarly, ReturnKeeps
<1>4. CASE isWhiteSpace(At(ptr)) /\ UNCHANGED <<input, pc, start, result>> /\ ptr' = ptr + 1
  <2>1. ptr < buflen
    BY <1>1, <1>4, SpaceInText
  <2>2. buflen' = buflen /\ next_boundary' = next_boundary /\ \A i : At(i)' = At(i)
    BY <1>4, Frame
  <2>3. ptr' \in 0 .. buflen /\ start < ptr' /\ ptr' <= next_boundary
    BY <1>1, <1>2, <1>4, <2>1
  <2>4. ASSUME NEW i \in start + 1 .. ptr' - 1
        PROVE  isWhiteSpace(At(i))
    <3>1. i \in start + 1 .. ptr - 1 \/ i = ptr
      BY <1>1, <1>4
    <3> QED BY <1>1, <1>4, <3>1
  <2>5. isWhiteSpace(At(start))'
    BY <1>1, <1>4, <2>2 DEF isWhiteSpace
  <2>6. \A i \in start' + 1 .. ptr' - 1 : isWhiteSpace(At(i))'
    BY <1>4, <2>2, <2>4 DEF isWhiteSpace
  <2> QED BY <1>1, <1>4, <2>2, <2>3, <2>5, <2>6 DEF ScanInv, LoopsComputeOperator
<1> QED BY <1>3, <1>4 DEF ByteLoop

(* At the boundary: nothing was found in front of it.                      *)
LEMMA AtBoundaryKeeps ==
  ASSUME CursorAssumption, ScanInv, AtBoundary
  PROVE  ScanInv'
<1>1. /\ pc = "bytes" /\ input \in Inputs /\ start \in 0 .. buflen /\ ptr \in 0 .. buflen
      /\ buflen \in Nat /\ ptr = next_boundary /\ Lane \in Nat
      /\ isWhiteSpace(At(start))
      /\ \A i \in start + 1 .. next_boundary - 1 : isWhiteSpace(At(i))
  BY TextFacts DEF ScanInv, AtBoundary
<1>2. early = {}
  BY <1>1 DEF early
<1>3. CASE ptr = buflen /\ Return(FALSE, ptr)
  BY <1>1, <1>2, <1>3, OperatorBoundary, ReturnKeeps
<1>4. CASE ptr # buflen /\ pc' = "lanes" /\ UNCHANGED <<input, start, ptr, result>>
  <2>1. ptr < buflen
    BY <1>1, <1>4
  <2>2. buflen' = buflen /\ next_boundary' = next_boundary /\ \A i : At(i)' = At(i)
    BY <1>4, Frame
  <2>3. 0 \in Nat /\ ptr = next_boundary + Lane * 0
    BY <1>1
  <2>4. \E k \in Nat : ptr' = next_boundary' + Lane * k
    BY <1>4, <2>2, <2>3
  <2>5. isWhiteSpace(At(start))'
    BY <1>1, <1>4, <2>2 DEF isWhiteSpace
  <2>6. \A i \in start' + 1 .. next_boundary' - 1 : isWhiteSpace(At(i))'
    BY <1>1, <1>4, <2>2 DEF isWhiteSpace
  <2>7. \A i \in next_boundary' .. ptr' - 1 : isLaneWhiteSpace(At(i))'
    BY <1>1, <1>4, <2>2
  <2> QED BY <1>1, <1>4, <2>1, <2>2, <2>4, <2>5, <2>6, <2>7
       DEF ScanInv, LoopsComputeOperator
<1> QED BY <1>3, <1>4 DEF AtBoundary

(* A lane.  It is loaded whole, but what lies behind the terminator does   *)
(* not matter: the terminator itself is a mismatch in front of it.         *)
LEMMA LaneLoopKeeps ==
  ASSUME CursorAssumption, ScanInv, LaneLoop
  PROVE  ScanInv'
<1> DEFINE b == next_boundary
<1>1. /\ pc = "lanes" /\ input \in Inputs /\ start \in 0 .. buflen /\ ptr \in 0 .. buflen
      /\ buflen \in Nat /\ At(buflen) = NUL /\ Lane \in Nat \ {0}
      /\ ptr < buflen /\ b < buflen
      /\ isWhiteSpace(At(start))
      /\ \A i \in start + 1 .. b - 1 : isWhiteSpace(At(i))
      /\ \A i \in b .. ptr - 1 : isLaneWhiteSpace(At(i))
  BY TextFacts DEF ScanInv, LaneLoop
<1>2. b \in Nat
  <2>1. start + 1 \in Nat
    BY <1>1
  <2> QED BY <1>1, <2>1, BoundaryAligned DEF next_boundary
<1>3. PICK k \in Nat : ptr = b + Lane * k
  BY <1>1 DEF ScanInv
<1>4. early = {} /\ b # buflen
  BY <1>1, <1>2 DEF early
<1>5. PICK behind \in SUBSET Behind :
           LET r == Mismatches(behind)
           IN  \/ r # {} /\ Return(TRUE, Min(r))
               \/ r = {} /\ ptr + Lane >= buflen /\ Return(FALSE, ptr)
               \/ /\ r = {} /\ ptr + Lane < buflen
                  /\ ptr' = ptr + Lane /\ UNCHANGED <<input, pc, start, result>>
  BY DEF LaneLoop
<1> HIDE DEF b
<1> DEFINE r == Mismatches(behind)
<1>6. /\ r \in SUBSET Nat
      /\ \A i \in r : i \in ptr .. ptr + (Lane - 1)
      /\ \A i \in ptr .. ptr + (Lane - 1) : i <= buflen => (i \in r <=> ~isLaneWhiteSpace(At(i)))
  BY <1>1 DEF Mismatches
<1> HIDE DEF r
<1>7. ptr + Lane > buflen => buflen \in r
  <2> SUFFICES ASSUME ptr + Lane > buflen PROVE buflen \in r
    OBVIOUS
  <2>1. buflen \in ptr .. ptr + (Lane - 1)
    BY <1>1
  <2>2. ~isLaneWhiteSpace(At(buflen))
    BY <1>1, TerminatorStops
  <2> QED BY <1>1, <1>6, <2>1, <2>2
<1>8. ASSUME NEW m \in b .. buflen, ~isLaneWhiteSpace(At(m)),
             \A i \in b .. m - 1 : isLaneWhiteSpace(At(i))
      PROVE  LaneEnd(b) = m
  <2> DEFINE S == {i \in b .. buflen : ~isLaneWhiteSpace(At(i))}
  <2>1. S \in SUBSET Int /\ m \in S
    BY <1>1, <1>2, <1>8
  <2>2. ASSUME NEW y \in S
        PROVE  m <= y
    BY <1>1, <1>2, <1>8
  <2>3. LaneEnd(b) = Min(S)
    BY DEF LaneEnd
  <2> HIDE DEF S
  <2> QED BY <2>1, <2>2, <2>3, Smallest
<1>9. CASE r # {} /\ Return(TRUE, Min(r))
  <2>1. PICK m \in r : \A y \in r : m <= y
    BY <1>6, <1>9, HasSmallest
  <2>2. Min(r) = m
    <3>1. r \in SUBSET Int
      BY <1>6
    <3> QED BY <2>1, <3>1, Smallest
  <2>3. m \in Nat /\ m >= ptr /\ m < ptr + Lane /\ m <= buflen
    <3>1. m \in ptr .. ptr + (Lane - 1)
      BY <1>6
    <3>2. CASE ptr + Lane > buflen
      BY <1>1, <1>7, <2>1, <3>1, <3>2
    <3>3. CASE ~(ptr + Lane > buflen)
      BY <1>1, <3>1, <3>3
    <3> QED BY <1>1, <3>1, <3>2, <3>3
  <2>4. ~isLaneWhiteSpace(At(m))
    BY <1>1, <1>6, <2>3
  <2>5. ASSUME NEW i \in b .. m - 1
        PROVE  isLaneWhiteSpace(At(i))
    <3>1. CASE i < ptr
      <4>1. i \in b .. ptr - 1
        BY <1>1, <1>2, <3>1
      <4> QED BY <1>1, <4>1 DEF b
    <3>2. CASE ~(i < ptr)
      <4>1. i \in ptr .. ptr + (Lane - 1) /\ i <= buflen /\ ~(m <= i)
        BY <1>1, <1>2, <2>3, <3>2
      <4>2. i \notin r
        BY <2>1, <4>1
      <4> QED BY <1>6, <4>1, <4>2
    <3> QED BY <3>1, <3>2
  <2>6. m \in b .. buflen
    <3>1. Lane * k >= 0 /\ Lane * k \in Int
      BY <1>1
    <3> QED BY <1>1, <1>2, <1>3, <2>3, <3>1
  <2>7. LaneEnd(b) = m
    BY <1>8, <2>4, <2>5, <2>6
  <2>8. ~(m = buflen /\ (buflen - b) % Lane = 0)
    <3> SUFFICES ASSUME m = buflen PROVE (buflen - b) % Lane # 0
      OBVIOUS
    <3> DEFINE d == buflen - ptr
    <3>1. d \in 0 .. Lane - 1 /\ d # 0
      BY <1>1, <2>3
    <3>2. buflen - b = Lane * k + d
      <4>1. Lane * k \in Int
        BY <1>1
      <4> QED BY <1>1, <1>2, <1>3, <4>1
    <3> HIDE DEF d
    <3>3. (Lane * k + d) % Lane = d
      BY <1>1, <3>1, Remainder
    <3> QED BY <3>1, <3>2, <3>3
  <2>9. getNextNonWhitespaceIdx(start) = [ok |-> TRUE, at |-> Min(r)]
    BY <1>1, <1>4, <2>2, <2>7, <2>8, OperatorLanes DEF b
  <2> QED BY <1>9, <2>9, ReturnKeeps
<1>10. ASSUME r = {}
       PROVE  /\ ptr + Lane <= buflen
              /\ \A i \in b .. ptr + Lane - 1 : isLaneWhiteSpace(At(i))
  <2>1. ptr + Lane <= buflen
    BY <1>1, <1>7, <1>10
  <2>2. ASSUME NEW i \in b .. ptr + Lane - 1
        PROVE  isLaneWhiteSpace(At(i))
    <3>1. CASE i < ptr
      <4>1. i \in b .. ptr - 1
        BY <1>1, <1>2, <3>1
      <4> QED BY <1>1, <4>1 DEF b
    <3>2. CASE ~(i < ptr)
      <4>1. i \in ptr .. ptr + (Lane - 1) /\ i <= buflen
        BY <1>1, <1>2, <2>1, <3>2
      <4> QED BY <1>6, <1>10, <4>1
    <3> QED BY <3>1, <3>2
  <2> QED BY <2>1, <2>2
<1>11. ptr + Lane = b + Lane * (k + 1) /\ k + 1 \in Nat
  BY <1>1, <1>2, <1>3
<1>12. CASE r = {} /\ ptr + Lane >= buflen /\ Return(FALSE, ptr)
  <2>1. ptr + Lane = buflen /\ \A i \in b .. buflen - 1 : isLaneWhiteSpace(At(i))
    <3>1. ptr + Lane = buflen
      BY <1>1, <1>10, <1>12
    <3> QED BY <1>1, <1>2, <1>10, <1>12, <3>1
  <2>2. LaneEnd(b) = buflen
    <3>1. buflen \in b .. buflen /\ ~isLaneWhiteSpace(At(buflen))
      BY <1>1, <1>2, TerminatorStops DEF b
    <3> QED BY <1>8, <2>1, <3>1
  <2>3. (buflen - b) % Lane = 0
    <3>1. (Lane * (k + 1) + 0) % Lane = 0
      BY <1>1, <1>11, Remainder
    <3>2. buflen - b = Lane * (k + 1) + 0
      <4>1. Lane * (k + 1) \in Int
        BY <1>1
      <4> QED BY <1>2, <1>11, <2>1, <4>1
    <3> QED BY <3>1, <3>2
  <2>4. buflen - Lane = ptr
    BY <1>1, <2>1
  <2>5. getNextNonWhitespaceIdx(start) = [ok |-> FALSE, at |-> ptr]
    BY <1>1, <1>4, <2>2, <2>3, <2>4, OperatorLanes DEF b
  <2> QED BY <1>12, <2>5, ReturnKeeps
<1>13. CASE r = {} /\ ptr + Lane < buflen
             /\ ptr' = ptr + Lane /\ UNCHANGED <<input, pc, start, result>>
  <2>1. buflen' = buflen /\ b' = b /\ \A i : At(i)' = At(i)
    BY <1>13, Frame DEF b
  <2>2. ptr' \in 0 .. buflen' /\ ptr' < buflen' /\ next_boundary' < buflen'
    BY <1>1, <1>13, <2>1 DEF b
  <2>3. \E q \in Nat : ptr' = next_boundary' + Lane * q
    BY <1>11, <1>13, <2>1 DEF b
  <2>4. \A i \in next_boundary' .. ptr' - 1 : isLaneWhiteSpace(At(i))'
    <3>1. \A i \in b .. ptr' - 1 : isLaneWhiteSpace(At(i))
      BY <1>1, <1>2, <1>10, <1>13
    <3> QED BY <2>1, <3>1 DEF b, isLaneWhiteSpace
  <2>5. isWhiteSpace(At(start))'
    BY <1>1, <1>13, <2>1 DEF isWhiteSpace
  <2>6. \A i \in start' + 1 .. next_boundary' - 1 : isWhiteSpace(At(i))'
    BY <1>1, <1>13, <2>1 DEF isWhiteSpace, b
  <2> QED BY <1>1, <1>13, <2>1, <2>2, <2>3, <2>4, <2>5, <2>6
       DEF ScanInv, LoopsComputeOperator
<1> QED BY <1>5, <1>9, <1>12, <1>13 DEF r

-----------------------------------------------------------------------------
(* The invariant holds of every text, at every alignment, from every start.*)
THEOREM ScanInvariant == Spec => []ScanInv
<1>1. Init => ScanInv
  <2> SUFFICES ASSUME Init PROVE ScanInv
    OBVIOUS
  <2> QED BY DEF Init, ScanInv, LoopsComputeOperator
<1>2. ScanInv /\ [Next]_vars => ScanInv'
  <2> SUFFICES ASSUME ScanInv, [Next]_vars PROVE ScanInv'
    OBVIOUS
  <2>1. CASE FirstByte
    BY <2>1, CursorAssumption, FirstByteKeeps
  <2>2. CASE ByteLoop
    BY <2>2, CursorAssumption, ByteLoopKeeps
  <2>3. CASE AtBoundary
    BY <2>3, CursorAssumption, AtBoundaryKeeps
  <2>4. CASE LaneLoop
    BY <2>4, CursorAssumption, LaneLoopKeeps
  <2>5. CASE UNCHANGED vars
    <3>1. UNCHANGED <<input, pc, start, ptr, result>>
      BY <2>5 DEF vars
    <3>2. /\ buflen' = buflen /\ next_boundary' = next_boundary /\ \A i : At(i)' = At(i)
          /\ getNextNonWhitespaceIdx(start)' = getNextNonWhitespaceIdx(start)
      BY <3>1, Frame
    <3> QED BY <3>1, <3>2 DEF ScanInv, LoopsComputeOperator, isWhiteSpace, isLaneWhiteSpace
  <2> QED BY <2>1, <2>2, <2>3, <2>4, <2>5 DEF Next
<1> QED BY <1>1, <1>2, PTL DEF Spec

(* The three loops return what one pass over the text would find, for every*)
(* text, alignment and lane width, whatever the bytes behind the text are. *)
THEOREM LoopsCorrect == Spec => []LoopsComputeOperator
<1>1. ScanInv => LoopsComputeOperator
  BY DEF ScanInv
<1> QED BY <1>1, ScanInvariant, PTL

(* Every lane the vector loop loads begins on a boundary, inside the text, *)
(* behind white space only: no aligned load leaves the lanes of the text.  *)
THEOREM LoadsInText == Spec => []LanesHoldText
<1>1. ScanInv => LanesHoldText
  <2> SUFFICES ASSUME ScanInv, pc = "lanes"
               PROVE  /\ ptr < buflen
                      /\ (input.base + ptr) % Lane = 0
                      /\ \A i \in start .. ptr - 1 : isWhiteSpace(At(i))
    BY DEF LanesHoldText
  <2>1. /\ input \in Inputs /\ start \in 0 .. buflen /\ ptr \in 0 .. buflen
        /\ Lane \in Nat \ {0} /\ buflen \in Nat /\ input.base \in Nat
    BY CursorAssumption, TextFacts DEF ScanInv
  <2>2. start + 1 \in Nat
    BY <2>1
  <2>3. PICK q \in Nat : input.base + next_boundary = Lane * q
    BY <2>1, <2>2, CursorAssumption, BoundaryAligned DEF next_boundary
  <2>4. next_boundary \in Nat
    BY <2>1, <2>2, CursorAssumption, BoundaryAligned DEF next_boundary
  <2>5. PICK k \in Nat : ptr = next_boundary + Lane * k
    BY DEF ScanInv
  <2>6. (input.base + ptr) % Lane = 0
    <3>1. q + k \in Nat /\ 0 \in 0 .. Lane - 1
      BY <2>1
    <3>2. (Lane * (q + k) + 0) % Lane = 0
      BY <2>1, <3>1, Remainder
    <3>3. input.base + ptr = Lane * (q + k) + 0
      BY <2>1, <2>3, <2>4, <2>5
    <3> QED BY <3>2, <3>3
  <2>7. ASSUME NEW i \in start .. ptr - 1
        PROVE  isWhiteSpace(At(i))
    <3>1. i = start \/ i \in start + 1 .. next_boundary - 1 \/ i \in next_boundary .. ptr - 1
      BY <2>1, <2>4
    <3> QED BY <3>1, LaneSpaceIsSpace DEF ScanInv
  <2>8. ptr < buflen
    BY DEF ScanInv
  <2> QED BY <2>6, <2>7, <2>8
<1> QED BY <1>1, ScanInvariant, PTL
-----------------------------------------------------------------------------
(* What the operator finds is the first character that is not white space, *)
(* when the text has no white space but that of JSON.                      *)
LEMMA ScanFinds ==
  ASSUME CursorAssumption, input \in Inputs, JsonSpaceOnly, NEW i \in 0 .. buflen,
         NEW at, getNextNonWhitespaceIdx(i) = [ok |-> TRUE, at |-> at]
  PROVE  /\ at \in i .. buflen /\ ~isWhiteSpace(At(at))
         /\ \A j \in i .. at - 1 : isWhiteSpace(At(j))
<1> DEFINE boundary == NextBoundary(i + 1)
           before   == {j \in i + 1 .. boundary - 1 : ~isWhiteSpace(At(j))}
           S        == {j \in boundary .. buflen : ~isLaneWhiteSpace(At(j))}
<1>1. buflen \in Nat /\ At(buflen) = NUL
  BY TextFacts
<1>2. boundary \in Nat /\ boundary >= i + 1
  <2>1. i + 1 \in Nat
    BY <1>1
  <2> QED BY <2>1, BoundaryAligned
<1>3. CASE ~isWhiteSpace(At(i))
  <2>1. at = i
    BY <1>3 DEF getNextNonWhitespaceIdx
  <2> QED BY <1>1, <1>3, <2>1
<1>4. CASE isWhiteSpace(At(i)) /\ before # {}
  <2>1. at = Min(before)
    BY <1>4 DEF getNextNonWhitespaceIdx
  <2> HIDE DEF boundary
  <2>2. before \in SUBSET Nat
    BY <1>1, <1>2
  <2>3. at \in before /\ \A y \in before : at <= y
    BY <1>4, <2>1, <2>2, MinIsFirst
  <2>4. i < buflen
    BY <1>4, SpaceInText
  <2>5. buflen <= boundary - 1 => buflen \in before
    BY <1>1, <1>2, <2>4, TerminatorStops
  <2>6. at \in i + 1 .. boundary - 1 /\ ~isWhiteSpace(At(at))
    BY <2>3
  <2>7. at <= buflen
    BY <1>1, <1>2, <2>3, <2>5, <2>6
  <2>8. ASSUME NEW j \in i .. at - 1
        PROVE  isWhiteSpace(At(j))
    <3>1. j = i \/ (j \in i + 1 .. boundary - 1 /\ j < at)
      BY <1>1, <1>2, <2>6
    <3>2. ~(j < at /\ j \in before)
      BY <2>3, <2>6
    <3> QED BY <1>4, <3>1, <3>2
  <2> QED BY <1>1, <1>2, <2>6, <2>7, <2>8
<1>5. CASE isWhiteSpace(At(i)) /\ before = {}
  <2>1. boundary # buflen /\ at = LaneEnd(boundary)
    BY <1>5 DEF getNextNonWhitespaceIdx
  <2>2. i < buflen
    BY <1>5, SpaceInText
  <2>3. at = Min(S)
    BY <2>1 DEF LaneEnd
  <2> HIDE DEF boundary
  <2>4. boundary <= buflen
    <3>1. ~(buflen \in i + 1 .. boundary - 1)
      BY <1>1, <1>5, TerminatorStops
    <3> QED BY <1>1, <1>2, <2>2, <3>1
  <2>5. S \in SUBSET Nat /\ buflen \in S
    BY <1>1, <1>2, <2>4, TerminatorStops
  <2>6. at \in S /\ \A y \in S : at <= y
    BY <2>3, <2>5, MinIsFirst
  <2>7. at \in boundary .. buflen /\ ~isLaneWhiteSpace(At(at))
    BY <2>6
  <2>8. ~isWhiteSpace(At(at))
    <3>1. CASE at = buflen
      BY <1>1, <3>1, TerminatorStops
    <3>2. CASE at \in 0 .. buflen - 1
      BY <2>7, <3>2 DEF JsonSpaceOnly
    <3> QED BY <1>1, <1>2, <2>7, <3>1, <3>2
  <2>9. ASSUME NEW j \in i .. at - 1
        PROVE  isWhiteSpace(At(j))
    <3>1. j = i \/ j \in i + 1 .. boundary - 1 \/ (j \in boundary .. buflen /\ j < at)
      BY <1>1, <1>2, <2>7
    <3>2. CASE j = i \/ j \in i + 1 .. boundary - 1
      BY <1>5, <3>2
    <3>3. CASE j \in boundary .. buflen /\ j < at
      <4>1. j \notin S
        BY <1>1, <1>2, <2>6, <2>7, <3>3
      <4> QED BY <3>3, <4>1, LaneSpaceIsSpace
    <3> QED BY <3>1, <3>2, <3>3
  <2> QED BY <1>1, <1>2, <2>7, <2>8, <2>9
<1> QED BY <1>3, <1>4, <1>5

(* The vectorised function and the naive one agree on every text that has  *)
(* no white space but that of JSON, and none at its end, whatever the      *)
(* alignment, the lane width and the position.                             *)
THEOREM AgreesWithSimple == Spec => []SameAsSimpleOnJson
<1>1. ScanInv => SameAsSimpleOnJson
  <2> SUFFICES ASSUME ScanInv, pc = "returned", JsonSpaceOnly, buflen > 0,
                      ~isWhiteSpace(At(buflen - 1))
               PROVE  result = getNextNonWhitespaceIdxSimple(start)
    BY DEF SameAsSimpleOnJson
  <2> DEFINE S  == {j \in start .. buflen : ~isWhiteSpace(At(j))}
             at == result.at
  <2>1. /\ CursorAssumption /\ input \in Inputs /\ start \in 0 .. buflen
        /\ result = getNextNonWhitespaceIdx(start)
    BY CursorAssumption DEF ScanInv, LoopsComputeOperator
  <2>2. buflen \in Nat /\ At(buflen) = NUL
    BY <2>1, TextFacts
  <2>3. result.ok
    <3>1. CASE start = buflen
      BY <2>1, <2>2, <3>1, TerminatorStops DEF getNextNonWhitespaceIdx
    <3>2. CASE start # buflen
      <4>1. buflen - 1 \in start .. buflen - 1
        BY <2>1, <2>2, <3>2
      <4> QED BY <2>1, <4>1, ScanFails
    <3> QED BY <3>1, <3>2
  <2>4. result = [ok |-> TRUE, at |-> at]
    BY <2>1, <2>3 DEF getNextNonWhitespaceIdx
  <2> HIDE DEF at
  <2>5. /\ at \in start .. buflen /\ ~isWhiteSpace(At(at))
        /\ \A j \in start .. at - 1 : isWhiteSpace(At(j))
    BY <2>1, <2>4, ScanFinds
  <2>6. S \in SUBSET Int /\ at \in S
    BY <2>1, <2>2, <2>5
  <2>7. ASSUME NEW y \in S
        PROVE  at <= y
    BY <2>1, <2>2, <2>5
  <2>8. Min(S) = at
    BY <2>6, <2>7, Smallest
  <2>9. ~(at = buflen /\ isWhiteSpace(At(at - 1)))
    BY <2>2
  <2> QED BY <2>4, <2>8, <2>9 DEF getNextNonWhitespaceIdxSimple
<1> QED BY <1>1, ScanInvariant, PTL
=============================================================================
