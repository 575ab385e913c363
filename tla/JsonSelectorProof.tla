------------------------- MODULE JsonSelectorProof -------------------------
(***************************************************************************)
(* jsonSelect never writes behind path, for every tree, format and list of *)
(* arguments and every size of the buffer.                                 *)
(***************************************************************************)
EXTENDS JsonSelector, FiniteSetTheorems, SequenceTheorems, TLAPS

(* What a byte of path or buf holds.                                       *)
Byte == STRING \cup {NUL, "-"} \cup {NumberChars[i] : i \in DOMAIN NumberChars}

(* The inductive invariant: path and buf are sequences of bytes, of which  *)
(* path has none before the loop begins and leaves one free while it runs. *)
PathInv ==
  /\ call \in Calls
  /\ ptr \in Nat
  /\ path \in Seq(Byte)
  /\ buf \in Seq(Byte)
  /\ args \in Seq(Arguments)
  /\ pc = "start" => path = << >>
  /\ PathFits

-----------------------------------------------------------------------------
(* What snprintf writes of a number is a sequence of bytes.                *)
LEMMA DigitsTyped ==
  ASSUME NEW n \in Nat
  PROVE  Digits(n) \in Seq(Byte) /\ Len(Digits(n)) \in Nat
<1> DEFINE fits  == {i \in DOMAIN PowersOfTen : i = 1 \/ PowersOfTen[i] <= n}
           width == Cardinality(fits)
           char(k) == NumberChars[4 + ((n \div PowersOfTen[width - k + 1]) % 10)]
<1>1. DOMAIN PowersOfTen = 1 .. 10 /\ \A i \in 1 .. 10 : PowersOfTen[i] \in Nat \ {0}
  BY DEF PowersOfTen
<1>2. DOMAIN NumberChars = 1 .. 27
  BY DEF NumberChars
<1>3. width \in 0 .. 10
  <2>1. IsFiniteSet(1 .. 10) /\ Cardinality(1 .. 10) = 10
    <3>1. /\ IsFiniteSet(1 .. 10)
          /\ Cardinality(1 .. 10) = IF 1 > 10 THEN 0 ELSE 10 - 1 + 1
      <4>1. 1 \in Int /\ 10 \in Int
        OBVIOUS
      <4> QED BY <4>1, FS_Interval, Zenon
    <3> QED BY <3>1
  <2>2. fits \in SUBSET (1 .. 10)
    BY <1>1
  <2> HIDE DEF fits
  <2>3. IsFiniteSet(fits) /\ Cardinality(fits) <= Cardinality(1 .. 10)
    BY <2>1, <2>2, FS_Subset
  <2>4. Cardinality(fits) \in Nat
    BY <2>3, FS_CardinalityType
  <2> QED BY <2>1, <2>3, <2>4
<1> HIDE DEF width
<1>4. ASSUME NEW k \in 1 .. width
      PROVE  char(k) \in Byte
  <2> DEFINE power == PowersOfTen[width - k + 1]
  <2>1. width - k + 1 \in 1 .. 10
    BY <1>3
  <2>2. power \in Nat \ {0}
    BY <1>1, <2>1
  <2> HIDE DEF power
  <2>3. n \div power \in Nat
    BY <2>2
  <2>4. 4 + ((n \div power) % 10) \in 1 .. 27
    BY <2>3
  <2> QED BY <1>2, <2>4 DEF Byte, power
<1>5. Digits(n) = [k \in 1 .. width |-> char(k)]
  BY DEF Digits, width
<1> HIDE DEF char
<1>6. [k \in 1 .. width |-> char(k)] \in Seq(Byte)
  BY <1>3, <1>4, IsASeq
<1> QED BY <1>5, <1>6, LenProperties

(* What sprintf writes for "%d" is a sequence of bytes, for every int.     *)
LEMMA PrintedTyped ==
  ASSUME NEW n \in Int
  PROVE  Printed(n) \in Seq(Byte) /\ Len(Printed(n)) \in Nat
<1>1. CASE n < 0
  <2>1. Digits(-n) \in Seq(Byte)
    BY <1>1, DigitsTyped
  <2>2. "-" \in Byte
    BY DEF Byte
  <2>3. <<"-">> \o Digits(-n) \in Seq(Byte)
    BY <2>1, <2>2
  <2> QED BY <1>1, <2>3, LenProperties DEF Printed
<1>2. CASE ~(n < 0)
  BY <1>2, DigitsTyped DEF Printed
<1> QED BY <1>1, <1>2

(* The wildcards copy into path only what still leaves the terminator room,*)
(* whatever lies behind the bytes of buf that were written.                *)
LEMMA CopyKeeps ==
  ASSUME SelectorAssumption, PathInv, pc = "loop", args # << >>,
         NEW bytes \in Seq(Byte), NEW len \in Nat, CopyFromBuf(bytes, len)
  PROVE  PathInv' /\ (pc' = "done" \/ Len(path') = Len(path) + len)
<1>1. /\ call' = call /\ buf' = bytes /\ args' = Tail(args)
      /\ MaxBuf \in Nat
  BY DEF CopyFromBuf, SelectorAssumption
<1>2. call' \in Calls /\ buf' \in Seq(Byte) /\ args' \in Seq(Arguments)
  BY <1>1, HeadTailProperties DEF PathInv
<1>3. CASE pc' = "done" /\ UNCHANGED <<ptr, path>>
  BY <1>1, <1>2, <1>3 DEF PathInv, PathFits
<1>4. ASSUME Len(path) + len <= MaxBuf, pc' = pc, ptr' = ptr + 1,
             NEW unwritten \in [Len(bytes) + 1 .. len -> Garbage],
             path' = path \o [i \in 1 .. len |-> IF i <= Len(bytes) THEN bytes[i]
                                                ELSE unwritten[i]]
      PROVE  PathInv' /\ Len(path') = Len(path) + len
  <2> DEFINE byte(i) == IF i <= Len(bytes) THEN bytes[i] ELSE unwritten[i]
             copied  == [i \in 1 .. len |-> byte(i)]
  <2>1. ASSUME NEW i \in 1 .. len
        PROVE  byte(i) \in Byte
    <3>1. Len(bytes) \in Nat
      OBVIOUS
    <3>2. CASE i <= Len(bytes)
      <4>1. i \in 1 .. Len(bytes)
        BY <3>1, <3>2
      <4> QED BY <4>1, <3>2, ElementOfSeq
    <3>3. CASE ~(i <= Len(bytes))
      <4>1. i \in Len(bytes) + 1 .. len
        BY <3>1, <3>3
      <4>2. unwritten[i] \in Garbage /\ Garbage \subseteq Byte
        BY <1>4, <4>1 DEF SelectorAssumption, Byte
      <4> QED BY <4>2, <3>3
    <3> QED BY <3>2, <3>3
  <2> HIDE DEF byte
  <2>2. copied \in Seq(Byte)
    BY <2>1, IsASeq
  <2>3. Len(copied) = len
    OBVIOUS
  <2>4. path' = path \o copied
    BY <1>4 DEF byte
  <2> HIDE DEF copied
  <2>5. path' \in Seq(Byte) /\ Len(path') = Len(path) + len
    BY <2>2, <2>3, <2>4, ConcatProperties DEF PathInv
  <2> QED BY <1>1, <1>2, <1>4, <2>5 DEF PathInv, PathFits
<1> QED BY <1>3, <1>4 DEF CopyFromBuf

-----------------------------------------------------------------------------
(* The invariant holds whatever segments, characters and wildcards come in *)
(* whatever order, and whatever types the arguments have.                  *)
THEOREM PathInvariant == Spec => []PathInv
<1> USE SelectorAssumption
<1>1. Init => PathInv
  BY DEF Init, PathInv, PathFits, SelectorAssumption
<1>2. PathInv /\ [Next]_vars => PathInv'
  <2> SUFFICES ASSUME PathInv, [Next]_vars PROVE PathInv'
    OBVIOUS
  <2>0. MaxBuf \in Nat /\ ptr \in Nat /\ path \in Seq(Byte) /\ Len(path) \in Nat
    BY DEF SelectorAssumption, PathInv
  <2>1. ASSUME NEW n, Returns(n)
        PROVE  PathInv'
    BY <2>1 DEF Returns, PathInv, PathFits
  <2>2. ASSUME NEW n, pc = "loop", NextSegment(n)
        PROVE  PathInv'
    <3> DEFINE at == IF At(ptr) = "]" THEN ptr + 1 ELSE ptr
    <3>1. CASE Returns(n) \/ Returns(NULL)
      BY <2>1, <3>1
    <3>2. CASE UNCHANGED <<call, pc, buf, args>> /\ path' = << >> /\ ptr' = at + 1
      BY <2>0, <2>2, <3>2 DEF PathInv, PathFits
    <3> QED BY <2>2, <3>1, <3>2 DEF NextSegment
  <2>3. CASE Lookup
    BY <2>3 DEF Lookup, PathInv, PathFits
  <2>4. CASE Start
    <3>1. CASE Returns(NULL)
      BY <2>1, <3>1
    <3>2. CASE UNCHANGED <<call, j, ptr, next, path, buf, args>> /\ pc' = "loop"
      <4>1. path = << >> /\ Len(path) = 0
        BY <2>4 DEF Start, PathInv
      <4> QED BY <2>0, <3>2, <4>1 DEF PathInv, PathFits
    <3> QED BY <2>4, <3>1, <3>2 DEF Start
  <2>5. CASE First
    BY <2>2, <2>5 DEF First, InSegment
  <2>6. CASE Segment
    BY <2>1, <2>2, <2>6 DEF Segment, InSegment
  <2>7. CASE Character
    <3>1. At(ptr) \in Byte
      <4>1. call.fmt \in Seq(STRING)
        BY DEF PathInv, SelectorAssumption
      <4>2. CASE ptr < Len(call.fmt)
        <5>1. ptr + 1 \in 1 .. Len(call.fmt)
          BY <2>0, <4>1, <4>2
        <5>2. call.fmt[ptr + 1] \in STRING
          BY <4>1, <5>1
        <5> QED BY <4>2, <5>2 DEF At, Byte
      <4>3. CASE ~(ptr < Len(call.fmt))
        BY <4>3 DEF At, Byte
      <4> QED BY <4>2, <4>3
    <3>2. path' \in Seq(Byte) /\ Len(path') = Len(path) + 1
      BY <2>0, <2>7, <3>1 DEF Character
    <3>3. pc = "loop"
      BY <2>7 DEF Character, Reading, InSegment
    <3>4. UNCHANGED <<call, buf, args>> /\ ptr' = ptr + 1
      BY <2>7 DEF Character
    <3>5. (pc' = "done" \/ (pc' = pc /\ Len(path') <= MaxBuf))
      BY <2>7 DEF Character
    <3>6. Len(path) <= MaxBuf
      BY <3>3 DEF PathInv, PathFits
    <3> QED BY <2>0, <3>2, <3>3, <3>4, <3>5, <3>6 DEF PathInv, PathFits
  <2>8. CASE WildIndex
    <3> DEFINE digits  == Printed(args[1].int)
               written == digits \o <<NUL>>
               kept    == SubSeq(buf, Len(written) + 1, Len(buf))
    <3>1. pc = "loop" /\ args # << >> /\ args[1].type = "int"
      BY <2>8 DEF WildIndex, Reading, InSegment, Given
    <3>2. args[1].int \in Int
      <4>1. args[1] \in Arguments
        BY <3>1 DEF PathInv
      <4> QED BY <3>1, <4>1 DEF Arguments
    <3>3. digits \in Seq(Byte) /\ Len(digits) \in Nat
      BY <3>2, PrintedTyped
    <3>4. CopyFromBuf(written \o kept, Len(digits))
      BY <2>8 DEF WildIndex
    <3> HIDE DEF digits
    <3>5. NUL \in Byte
      BY DEF Byte
    <3>6. written \in Seq(Byte) /\ Len(written) \in Nat
      BY <3>3, <3>5
    <3> HIDE DEF written
    <3>7. kept \in Seq(Byte)
      <4>1. buf \in Seq(Byte) /\ Len(buf) \in Nat
        BY DEF PathInv
      <4>2. \A i \in Len(written) + 1 .. Len(buf) : buf[i] \in Byte
        BY <3>6, <4>1
      <4> QED BY <3>6, <4>1, <4>2, SubSeqProperties
    <3>8. written \o kept \in Seq(Byte)
      BY <3>6, <3>7, ConcatProperties
    <3> HIDE DEF kept
    <3> QED BY <3>1, <3>3, <3>4, <3>8, CopyKeeps
  <2>9. CASE WildKey
    <3>1. pc = "loop" /\ args # << >> /\ args[1].type = "string"
      BY <2>9 DEF WildKey, Reading, InSegment, Given
    <3>2. args[1] \in Arguments
      BY <3>1 DEF PathInv
    <3>3. args[1].string \in Seq(STRING)
      BY <3>1, <3>2 DEF Arguments
    <3>4. CopyFromBuf(buf, Len(args[1].string))
      BY <2>9 DEF WildKey
    <3>5. Len(args[1].string) \in Nat /\ buf \in Seq(Byte)
      BY <3>3 DEF PathInv
    <3> QED BY <3>1, <3>4, <3>5, CopyKeeps
  <2>10. CASE WildType \/ Undefined
    BY <2>1, <2>10 DEF WildType, Undefined
  <2>11. CASE UNCHANGED vars
    BY <2>11 DEF vars, PathInv, PathFits
  <2> QED BY <2>3, <2>4, <2>5, <2>6, <2>7, <2>8, <2>9, <2>10, <2>11 DEF Next
<1> QED BY <1>1, <1>2, PTL DEF Spec

(* path[JSON_SEL_MAX_BUF + 1] is never written behind: neither a long      *)
(* segment nor any mixture of characters and wildcards, whose lengths come *)
(* from the caller's arguments, takes the terminator's place.              *)
THEOREM PathNeverOverflows == Spec => []PathFits
<1>1. PathInv => PathFits
  BY DEF PathInv
<1> QED BY <1>1, PathInvariant, PTL

-----------------------------------------------------------------------------
(* The arguments left are some of those passed; a segment that has no      *)
(* character yet has one to come, if fmt ends in a segment.                *)
ReadInv ==
  /\ \A i \in DOMAIN args : \E k \in DOMAIN call.args : args[i] = call.args[k]
  /\ pc = "start" => ptr = 0 /\ j = Root /\ next = "INVALID"
  /\ pc = "loop" /\ EndsInSegment =>
       /\ ptr <= Len(call.fmt) /\ j # NULL
       /\ next # "INVALID" /\ path = << >> => ptr < Len(call.fmt)

(* A number is printed with one digit at least.                            *)
LEMMA PrintedNotEmpty ==
  ASSUME NEW n \in Int
  PROVE  Len(Printed(n)) > 0
<1>1. ASSUME NEW m \in Nat
      PROVE  Len(Digits(m)) > 0
  <2> DEFINE fits  == {i \in DOMAIN PowersOfTen : i = 1 \/ PowersOfTen[i] <= m}
             width == Cardinality(fits)
             char(k) == NumberChars[4 + ((m \div PowersOfTen[width - k + 1]) % 10)]
  <2>1. DOMAIN PowersOfTen = 1 .. 10
    BY DEF PowersOfTen
  <2>2. IsFiniteSet(1 .. 10)
    <3>1. 1 \in Int /\ 10 \in Int
      OBVIOUS
    <3> QED BY <3>1, FS_Interval, Zenon
  <2>3. fits \subseteq 1 .. 10 /\ 1 \in fits
    BY <2>1
  <2> HIDE DEF fits
  <2>4. IsFiniteSet(fits) /\ fits # {}
    BY <2>2, <2>3, FS_Subset
  <2>5. width \in Nat /\ width # 0
    BY <2>4, FS_CardinalityType, FS_EmptySet
  <2>6. Digits(m) = [k \in 1 .. width |-> char(k)]
    BY DEF Digits, fits
  <2> HIDE DEF width, char
  <2>7. Len(Digits(m)) = width
    BY <2>5, <2>6
  <2> QED BY <2>5, <2>7
<1>2. CASE n < 0
  <2>1. Digits(-n) \in Seq(Byte) /\ -n \in Nat
    BY <1>2, DigitsTyped
  <2>2. Len(<<"-">> \o Digits(-n)) = 1 + Len(Digits(-n))
    BY <2>1
  <2> QED BY <1>2, <2>1, <2>2 DEF Printed
<1>3. CASE ~(n < 0)
  BY <1>1, <1>3 DEF Printed
<1> QED BY <1>2, <1>3

(* Only a character of fmt is a separator, and one that ends no segment is *)
(* not the terminator.                                                     *)
LEMMA InFormat ==
  ASSUME SelectorAssumption, PathInv, NEW at \in Nat, at <= Len(call.fmt)
  PROVE  /\ At(at) # NUL => at < Len(call.fmt)
         /\ At(at) \in DOMAIN Separator /\ EndsInSegment => at + 1 < Len(call.fmt)
<1>1. call.fmt \in Seq(STRING) /\ Len(call.fmt) \in Nat
  BY DEF PathInv, SelectorAssumption
<1>2. At(at) # NUL => at < Len(call.fmt)
  BY DEF At
<1>3. ASSUME At(at) \in DOMAIN Separator, EndsInSegment
      PROVE  at + 1 < Len(call.fmt)
  <2>1. At(at) # NUL
    BY <1>3 DEF Separator, NUL
  <2>2. at < Len(call.fmt) /\ At(at) = call.fmt[at + 1]
    BY <1>2, <2>1 DEF At
  <2>3. call.fmt # << >>
    BY <1>1, <2>2
  <2>4. call.fmt[Len(call.fmt)] \notin DOMAIN Separator
    BY <1>3, <2>3 DEF EndsInSegment, Last
  <2>5. at + 1 # Len(call.fmt)
    BY <1>3, <2>2, <2>4
  <2> QED BY <1>1, <2>2, <2>5
<1> QED BY <1>2, <1>3

(* A wildcard that stands for something leaves a segment with a character. *)
LEMMA CopyReads ==
  ASSUME SelectorAssumption, PathInv, ReadInv, pc = "loop", args # << >>,
         At(ptr) = "*",
         NEW bytes \in Seq(Byte), NEW len \in Nat, CopyFromBuf(bytes, len),
         EndsInSegment => len > 0
  PROVE  ReadInv'
<1>1. call' = call /\ args' = Tail(args) /\ next' = next
  BY DEF CopyFromBuf
<1>2. \A i \in DOMAIN args' : \E k \in DOMAIN call'.args : args'[i] = call'.args[k]
  <2> SUFFICES ASSUME NEW i \in DOMAIN args'
               PROVE  \E k \in DOMAIN call.args : args'[i] = call.args[k]
    BY <1>1
  <2>1. args \in Seq(Arguments) /\ Tail(args) \in Seq(Arguments)
    BY HeadTailProperties DEF PathInv
  <2>2. Len(Tail(args)) = Len(args) - 1 /\ DOMAIN Tail(args) = 1 .. Len(args) - 1
    BY <2>1
  <2>3. i + 1 \in DOMAIN args /\ Tail(args)[i] = args[i + 1]
    BY <1>1, <2>1, <2>2
  <2> QED BY <1>1, <2>3 DEF ReadInv
<1>3. CASE pc' = "done"
  BY <1>2, <1>3 DEF ReadInv
<1>4. ASSUME ptr' = ptr + 1, pc' = pc, j' = j, EndsInSegment
      PROVE  ptr' <= Len(call.fmt) /\ j' # NULL /\ path' # << >>
  <2>1. ptr \in Nat /\ ptr <= Len(call.fmt) /\ j # NULL /\ call.fmt \in Seq(STRING)
    BY <1>4 DEF PathInv, ReadInv, SelectorAssumption
  <2>2. ptr < Len(call.fmt)
    BY <2>1, InFormat DEF NUL
  <2>3. path' # << >>
    <3>1. Len(path') = Len(path) + len /\ PathInv'
      BY <1>4, CopyKeeps
    <3>2. Len(path) \in Nat /\ len > 0 /\ path' \in Seq(Byte)
      BY <1>4, <3>1 DEF PathInv
    <3> QED BY <3>1, <3>2
  <2> QED BY <1>4, <2>1, <2>2, <2>3
<1>5. CASE ptr' = ptr + 1 /\ UNCHANGED <<pc, j>>
  <2>1. EndsInSegment' = EndsInSegment
    BY <1>1 DEF EndsInSegment
  <2> QED BY <1>1, <1>2, <1>4, <1>5, <2>1 DEF ReadInv
<1> QED BY <1>3, <1>5 DEF CopyFromBuf

(* What was read of fmt by every turn of the loop.                         *)
THEOREM ReadInvariant == Spec => []ReadInv
<1> USE SelectorAssumption
<1>1. Init => ReadInv
  BY DEF Init, ReadInv
<1>2. PathInv /\ ReadInv /\ [Next]_vars => ReadInv'
  <2> SUFFICES ASSUME PathInv, ReadInv, [Next]_vars PROVE ReadInv'
    OBVIOUS
  <2>0. /\ ptr \in Nat /\ path \in Seq(Byte) /\ call.fmt \in Seq(STRING)
        /\ Len(call.fmt) \in Nat
    BY DEF SelectorAssumption, PathInv
  <2>1. ASSUME NEW n, Returns(n)
        PROVE  ReadInv'
    BY <2>1 DEF Returns, ReadInv
  <2>2. ASSUME NEW n, pc = "loop", ptr <= Len(call.fmt), NextSegment(n),
               EndsInSegment => n # NULL
        PROVE  ReadInv'
    <3> DEFINE at == IF At(ptr) = "]" THEN ptr + 1 ELSE ptr
    <3>1. CASE Returns(n) \/ Returns(NULL)
      BY <2>1, <3>1
    <3>2. CASE /\ At(at) \in DOMAIN Separator
               /\ path' = << >> /\ ptr' = at + 1 /\ j' = n
               /\ UNCHANGED <<call, pc, buf, args>>
      <4>1. at \in Nat /\ at <= Len(call.fmt)
        BY <2>0, <2>2, InFormat DEF NUL
      <4> HIDE DEF at
      <4>2. EndsInSegment => at + 1 < Len(call.fmt)
        BY <3>2, <4>1, InFormat
      <4>3. EndsInSegment' = EndsInSegment
        BY <3>2 DEF EndsInSegment
      <4> QED BY <2>0, <2>2, <3>2, <4>1, <4>2, <4>3 DEF ReadInv
    <3> QED BY <2>2, <3>1, <3>2 DEF NextSegment
  <2>3. CASE Lookup
    BY <2>3 DEF Lookup, ReadInv
  <2>4. CASE Start
    <3>1. CASE Returns(NULL)
      BY <2>1, <3>1
    <3>2. CASE UNCHANGED <<call, j, ptr, next, path, buf, args>> /\ pc' = "loop"
      <4>1. pc = "start"
        BY <2>4 DEF Start
      <4> QED BY <2>0, <3>2, <4>1 DEF ReadInv, Root, NULL
    <3> QED BY <2>4, <3>1, <3>2 DEF Start
  <2>5. CASE First
    BY <2>2, <2>5 DEF First, InSegment, ReadInv
  <2>6. CASE Segment
    BY <2>1, <2>2, <2>6 DEF Segment, InSegment
  <2>7. CASE Character
    <3>1. /\ UNCHANGED <<call, next, buf, args>> /\ ptr' = ptr + 1
          /\ path' = Append(path, At(ptr))
          /\ pc = "loop" /\ ptr <= Len(call.fmt) /\ next # "INVALID"
          /\ path = << >> \/ ~EndsSegment(At(ptr))
          /\ pc' = "done" \/ UNCHANGED <<pc, j>>
      BY <2>7 DEF Character, Reading, InSegment
    <3>2. path' # << >>
      BY <2>0, <3>1
    <3>3. EndsInSegment' = EndsInSegment
      BY <3>1 DEF EndsInSegment
    <3>4. EndsInSegment => ptr < Len(call.fmt)
      BY <2>0, <3>1, InFormat DEF ReadInv, EndsSegment
    <3> QED BY <2>0, <3>1, <3>2, <3>3, <3>4 DEF ReadInv
  <2>8. CASE WildIndex
    <3> DEFINE digits  == Printed(args[1].int)
               written == digits \o <<NUL>>
               kept    == SubSeq(buf, Len(written) + 1, Len(buf))
    <3>1. /\ pc = "loop" /\ args # << >> /\ args[1].type = "int" /\ At(ptr) = "*"
      BY <2>8 DEF WildIndex, Reading, InSegment, Given
    <3>2. args[1].int \in Int
      <4>1. args[1] \in Arguments
        BY <3>1 DEF PathInv
      <4> QED BY <3>1, <4>1 DEF Arguments
    <3>3. digits \in Seq(Byte) /\ Len(digits) \in Nat /\ Len(digits) > 0
      BY <3>2, PrintedTyped, PrintedNotEmpty
    <3>4. CopyFromBuf(written \o kept, Len(digits))
      BY <2>8 DEF WildIndex
    <3> HIDE DEF digits
    <3>5. written \in Seq(Byte) /\ Len(written) \in Nat
      BY <3>3 DEF Byte
    <3> HIDE DEF written
    <3>6. kept \in Seq(Byte)
      <4>1. buf \in Seq(Byte) /\ Len(buf) \in Nat
        BY DEF PathInv
      <4>2. \A i \in Len(written) + 1 .. Len(buf) : buf[i] \in Byte
        BY <3>5, <4>1
      <4> QED BY <3>5, <4>1, <4>2, SubSeqProperties
    <3>7. written \o kept \in Seq(Byte)
      BY <3>5, <3>6, ConcatProperties
    <3> HIDE DEF kept
    <3> QED BY <3>1, <3>3, <3>4, <3>7, CopyReads
  <2>9. CASE WildKey
    <3>1. pc = "loop" /\ args # << >> /\ args[1].type = "string" /\ At(ptr) = "*"
      BY <2>9 DEF WildKey, Reading, InSegment, Given
    <3>2. args[1] \in Arguments /\ 1 \in DOMAIN args
      BY <3>1 DEF PathInv
    <3>3. args[1].string \in Seq(STRING)
      BY <3>1, <3>2 DEF Arguments
    <3>4. CopyFromBuf(buf, Len(args[1].string))
      BY <2>9 DEF WildKey
    <3>5. Len(args[1].string) \in Nat /\ buf \in Seq(Byte)
      BY <3>3 DEF PathInv
    <3>6. EndsInSegment => args[1].string # << >>
      BY <3>1, <3>2 DEF ReadInv, EndsInSegment
    <3>7. EndsInSegment => Len(args[1].string) > 0
      BY <3>3, <3>6
    <3> QED BY <3>1, <3>4, <3>5, <3>7, CopyReads
  <2>10. CASE WildType \/ Undefined
    BY <2>1, <2>10 DEF WildType, Undefined
  <2>11. CASE UNCHANGED vars
    BY <2>11 DEF vars, ReadInv, EndsInSegment
  <2> QED BY <2>3, <2>4, <2>5, <2>6, <2>7, <2>8, <2>9, <2>10, <2>11 DEF Next
<1> QED BY <1>1, <1>2, PathInvariant, PTL DEF Spec

(* jsonSelect takes the first character of a segment without a look at it, *)
(* so that one that has none would run behind fmt.  No format that ends in *)
(* a segment has such a one, whatever its other segments and arguments are,*)
(* and no lookup starts from NULL.                                         *)
THEOREM FormatAlwaysRead == Spec => []FormatIsRead
<1>1. ReadInv => FormatIsRead
  BY DEF ReadInv, FormatIsRead
<1> QED BY <1>1, ReadInvariant, PTL

(* Every turn of the loop of jsonSelect moves ptr on or is the last.  With *)
(* FormatIsRead it turns at most once for each character of fmt.           *)
TurnsAdvance == [][pc = "loop" => pc' = "done" \/ (pc' = "loop" /\ ptr' > ptr)]_vars

(* They do, for every format and all arguments.                            *)
THEOREM LoopAdvances == Spec => TurnsAdvance
<1>1. PathInv /\ [Next]_vars => [pc = "loop" => pc' = "done" \/ (pc' = "loop" /\ ptr' > ptr)]_vars
  <2> SUFFICES ASSUME PathInv, Next, pc = "loop"
               PROVE  pc' = "done" \/ (pc' = "loop" /\ ptr' > ptr)
    OBVIOUS
  <2>1. ptr \in Nat
    BY DEF PathInv
  <2>2. ~Lookup /\ ~Start
    BY DEF Lookup, Start
  <2>3. ASSUME NEW n, Returns(n) PROVE pc' = "done"
    BY <2>3 DEF Returns
  <2>4. ASSUME NEW n, NextSegment(n) PROVE pc' = "done" \/ (pc' = "loop" /\ ptr' > ptr)
    BY <2>1, <2>3, <2>4 DEF NextSegment
  <2>5. CASE First
    BY <2>4, <2>5 DEF First
  <2>6. CASE Segment
    BY <2>3, <2>4, <2>6 DEF Segment
  <2>7. CASE Character
    BY <2>1, <2>7 DEF Character
  <2>8. CASE WildIndex \/ WildKey
    <3>1. ASSUME NEW bytes, NEW len, CopyFromBuf(bytes, len)
          PROVE  pc' = "done" \/ (pc' = "loop" /\ ptr' > ptr)
      BY <2>1, <3>1 DEF CopyFromBuf
    <3>2. CASE WildIndex
      BY <3>1, <3>2 DEF WildIndex
    <3>3. CASE WildKey
      BY <3>1, <3>3 DEF WildKey
    <3> QED BY <2>8, <3>2, <3>3
  <2>9. CASE WildType \/ Undefined
    BY <2>3, <2>9 DEF WildType, Undefined
  <2> QED BY <2>2, <2>5, <2>6, <2>7, <2>8, <2>9 DEF Next
<1> QED BY <1>1, PathInvariant, PTL DEF Spec, TurnsAdvance
=============================================================================
