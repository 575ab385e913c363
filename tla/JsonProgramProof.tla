-------------------------- MODULE JsonProgramProof --------------------------
(***************************************************************************)
(* The program around its parts: what the parser and the arena promise on  *)
(* their own still holds when every jsonAlloc of the one is a call of the  *)
(* other, and makes the printing and the end of the program correct.  The  *)
(* last part is about the buffer that what is written goes to.             *)
(***************************************************************************)
EXTENDS JsonProgram, JsonParserProof, FiniteSetTheorems

(* The lemmas about the arena, of the program's own.                       *)
Allocator == INSTANCE JsonArenaProof WITH walk <- freeing

(* What main has done with the arena when it is where stage says.          *)
StageInv ==
  /\ stage \in {"init", "parse", "print", "report", "release", "exit", "crashed"}
  /\ stage = "init" => phase = "unborn"
  /\ stage \in {"parse", "print", "report", "crashed"} => phase = "live"
  /\ stage = "release" => phase \in {"live", "releasing", "released"}
  /\ stage = "exit" => phase = "released"

(* jsonPrint walks nodes of a finished result; what an activation has gone *)
(* into is not NULL.                                                       *)
WalkInv ==
  stage = "print" =>
    /\ Finished
    /\ walk \in Seq({NULL} \cup NodeIds)
    /\ \A i \in 1 .. Len(walk) - 1 : walk[i] \in NodeIds

(* main does not return from a text of white space only.                   *)
LostInv == stage = "crashed" => Blank

-----------------------------------------------------------------------------
(* What the parser asks the arena for is a number of bytes.                *)
LEMMA CapacityTyped ==
  ASSUME CallInv'
  PROVE  str'.cap \in Nat /\ str'.cap <= Len(input'.text) /\ input' \in Inputs
<1>1. input' \in Inputs /\ str'.cap \in 0 .. Len(input'.text)
  BY DEF CallInv, StringInv, StrTypeOK, buflen
<1>2. Len(input'.text) \in Nat
  BY <1>1, CursorAssumption
<1> QED BY <1>1, <1>2

(* The calls of the program are the calls the lemmas are about.            *)
LEMMA SameCalls ==
  /\ Arena!jsonAllocatorNew => Allocator!jsonAllocatorNew
  /\ \A size : Arena!jsonAlloc(size) => Allocator!jsonAlloc(size)
  /\ Arena!jsonAllocatorRelease => Allocator!jsonAllocatorRelease
<1>1. Arena!jsonAllocatorNew => Allocator!jsonAllocatorNew
  BY DEF Arena!jsonAllocatorNew, Allocator!jsonAllocatorNew, Arena!BlockNew, Allocator!BlockNew,
         Arena!AlignUp, Allocator!AlignUp, Arena!Garbage, Allocator!Garbage,
         Arena!NULL, Allocator!NULL
<1>2. ASSUME NEW size, Arena!jsonAlloc(size)
      PROVE  Allocator!jsonAlloc(size)
  BY <1>2 DEF Arena!jsonAlloc, Allocator!jsonAlloc,
       Arena!AllocOversized, Allocator!AllocOversized, Arena!AllocInHead, Allocator!AllocInHead,
       Arena!AllocInNewHead, Allocator!AllocInNewHead, Arena!HeadIsFull, Allocator!HeadIsFull,
       Arena!Bump, Allocator!Bump, Arena!Grant, Allocator!Grant,
       Arena!CountUsed, Allocator!CountUsed, Arena!BlockNew, Allocator!BlockNew,
       Arena!AlignUp, Allocator!AlignUp, Arena!Garbage, Allocator!Garbage
<1>3. Arena!jsonAllocatorRelease => Allocator!jsonAllocatorRelease
  BY DEF Arena!jsonAllocatorRelease, Allocator!jsonAllocatorRelease,
       Arena!ReleaseHead, Allocator!ReleaseHead, Arena!ReleaseNext, Allocator!ReleaseNext,
       Arena!ReleaseDone, Allocator!ReleaseDone, Arena!FreeBlock, Allocator!FreeBlock,
       Arena!NULL, Allocator!NULL
<1> QED BY <1>1, <1>2, <1>3

(* While the parser runs, each of its steps is one call of jsonAlloc, of   *)
(* the size of a node, of the state or of a string, or none.               *)
LEMMA ParseAllocates ==
  ASSUME jsonParse
  PROVE  (\E size \in {NodeSize, StateSize, str'.cap} : Allocator!jsonAlloc(size))
           \/ UNCHANGED arenaVars
<1>1. \/ \E size \in {NodeSize, StateSize, str'.cap} : Arena!jsonAlloc(size)
      \/ UNCHANGED arenaVars
  BY DEF jsonParse, Allocates
<1> QED BY <1>1, SameCalls

(* A step of the program is a call of the arena, or leaves it alone.       *)
LEMMA ProgramCalls ==
  ASSUME [ProgramNext]_programVars, CallInv'
  PROVE  [Allocator!Call]_Allocator!vars
<1>1. UNCHANGED arenaVars => UNCHANGED Allocator!vars
  BY DEF arenaVars, Allocator!vars
<1>2. CASE jsonParserInit
  BY <1>2, SameCalls DEF jsonParserInit, Allocator!Call
<1>3. CASE jsonParse
  <2>1. {NodeSize, StateSize, str'.cap} \subseteq Nat
    BY CapacityTyped, ProgramAssumption
  <2> QED BY <1>1, <1>3, <2>1, ParseAllocates DEF Allocator!Call
<1>4. CASE jsonRelease
  BY <1>1, <1>4, SameCalls DEF jsonRelease, Allocator!Call
<1>5. CASE jsonPrint \/ ReadsStateOfNull \/ PrintRuns \/ PrintReturns \/ jsonPrintError
  BY <1>1, <1>5 DEF jsonPrint, ReadsStateOfNull, PrintRuns, PrintReturns, jsonPrintError, arenaVars
<1>6. CASE UNCHANGED programVars
  BY <1>1, <1>6 DEF programVars
<1> QED BY <1>2, <1>3, <1>4, <1>5, <1>6 DEF ProgramNext

(* A step of the program is a step of the parser, or leaves it alone.      *)
LEMMA ProgramParses ==
  ASSUME [ProgramNext]_programVars
  PROVE  [Next]_vars
BY DEF ProgramNext, programVars, jsonParserInit, jsonParse, jsonPrint, ReadsStateOfNull,
       PrintRuns, PrintReturns, jsonPrintError, jsonRelease

-----------------------------------------------------------------------------
(* The parts' invariants hold in the program.                              *)
PartsInv ==
  /\ NodesInv /\ CallInv /\ ResultInv
  /\ Allocator!TypeOK /\ Allocator!Shape /\ Allocator!ReleaseOrder

(* Before main nothing is parsed and nothing allocated.                    *)
LEMMA PartsBegin ==
  ASSUME ProgramInit
  PROVE  PartsInv
<1>1. Init /\ Arena!Init
  BY DEF ProgramInit
<1>2. Allocator!Init
  BY <1>1 DEF Arena!Init, Allocator!Init, Arena!NoArena, Allocator!NoArena,
              Arena!NULL, Allocator!NULL
<1>3. Allocator!TypeOK /\ Allocator!Shape
  BY <1>2, ProgramAssumption, Allocator!InitTyped
<1>4. Allocator!ReleaseOrder
  BY <1>2, ProgramAssumption, Allocator!InitOrder
<1> QED BY <1>1, <1>3, <1>4, NodesBegin, CallBegins, ResultBefore DEF PartsInv

(* A step of main is a step of each part, or leaves it alone.              *)
LEMMA PartsKept ==
  ASSUME PartsInv, [ProgramNext]_programVars
  PROVE  PartsInv'
<1>1. [Next]_vars
  BY ProgramParses
<1>2. NodesInv'
  BY <1>1, StepKeeps DEF PartsInv
<1>3. CallInv'
  BY <1>1, CallKeeps, CursorAssumption DEF PartsInv
<1>4. ResultInv'
  BY <1>1, <1>2, ResultKeeps, CursorAssumption DEF PartsInv
<1>5. [Allocator!Call]_Allocator!vars
  BY <1>3, ProgramCalls
<1>6. Allocator!TypeOK' /\ Allocator!Shape'
  BY <1>5, ProgramAssumption, Allocator!CallTyped DEF PartsInv
<1>7. Allocator!ReleaseOrder'
  BY <1>5, <1>6, ProgramAssumption, Allocator!CallOrder DEF PartsInv
<1> QED BY <1>2, <1>3, <1>4, <1>6, <1>7 DEF PartsInv

(* What the parser and the arena keep on their own they keep together.     *)
THEOREM PartsHold == ProgramSpec => []PartsInv
<1>1. ProgramInit => PartsInv
  BY PartsBegin
<1>2. PartsInv /\ [ProgramNext]_programVars => PartsInv'
  BY PartsKept
<1> QED BY <1>1, <1>2, PTL DEF ProgramSpec

-----------------------------------------------------------------------------
(* A pointer of a tree leads to one of its nodes, or is NULL.              *)
LEMMA PointersLead ==
  ASSUME NodesInv, UnionMatchesType, Finished, NEW n \in NodeIds
  PROVE  /\ nodes[n].next \in {NULL} \cup NodeIds
         /\ isContainer(n) => nodes[n].value[2] \in {NULL} \cup NodeIds
<1>1. Tree(nodes) /\ n \in 1 .. Len(nodes)
  BY DEF NodesInv, TreeInv, NodeIds
<1>2. \A m : Leads(nodes[n], m) => m \in NodeIds
  BY <1>1 DEF Tree, NodeIds
<1>3. nodes[n].next \in {NULL} \cup NodeIds
  BY <1>2 DEF Leads
<1>4. ASSUME isContainer(n)
      PROVE  nodes[n].value[2] \in {NULL} \cup NodeIds
  <2>1. nodes[n].value[1] \in Written(nodes[n].type)
    BY DEF UnionMatchesType
  <2>2. nodes[n].value[1] = "child"
    BY <1>4, <2>1 DEF isContainer, Written
  <2> QED BY <1>2, <2>2 DEF Leads
<1> QED BY <1>3, <1>4

(* The activation at a depth moves on to a node of the tree, or to NULL,   *)
(* and those outside it stay.                                              *)
LEMMA MovedWalks ==
  ASSUME NEW S, walk \in Seq(S), NEW depth \in 1 .. Len(walk), nodes[walk[depth]].next \in S
  PROVE  /\ Moved(depth) \in Seq(S) /\ Len(Moved(depth)) = depth
         /\ \A i \in 1 .. depth - 1 : Moved(depth)[i] = walk[i]
<1> DEFINE s == SubSeq(walk, 1, depth - 1)
<1>1. Len(walk) \in Nat /\ depth \in Nat /\ depth - 1 \in 0 .. Len(walk)
  OBVIOUS
<1>2. s \in Seq(S) /\ Len(s) = depth - 1 /\ \A i \in 1 .. depth - 1 : s[i] = walk[i]
  BY <1>1
<1> HIDE DEF s
<1>3. Moved(depth) = Append(s, nodes[walk[depth]].next)
  BY DEF Moved, s
<1> QED BY <1>1, <1>2, <1>3

(* A turn of the walk stays in the tree.                                   *)
LEMMA TurnKeeps ==
  ASSUME PartsInv, WalkInv, stage = "print", OutputStep,
         UNCHANGED <<vars, arenaVars, stage>>
  PROVE  WalkInv'
<1> DEFINE S == {NULL} \cup NodeIds
<1>1. /\ Finished /\ Finished' /\ NodeIds' = NodeIds
      /\ walk \in Seq(S) /\ \A i \in 1 .. Len(walk) - 1 : walk[i] \in NodeIds
      /\ stage' = "print"
  BY DEF WalkInv, Finished, vars, parserVars, NodeIds
<1>2. ASSUME NEW n \in NodeIds
      PROVE  nodes[n].next \in S /\ (isContainer(n) => nodes[n].value[2] \in S)
  BY <1>1, <1>2, FinishedMatches, PointersLead DEF PartsInv
<1>3. SUFFICES walk' \in Seq(S) /\ \A i \in 1 .. Len(walk') - 1 : walk'[i] \in NodeIds
  BY <1>1 DEF WalkInv
<1>4. walk # << >> => /\ Len(walk) \in 1 .. Len(walk) /\ Len(walk) \in Nat
                      /\ Here = walk[Len(walk)] /\ Here \in S
  BY <1>1 DEF Here, Last
<1> HIDE DEF S
<1>5. ASSUME walk # << >>, Here # NULL, walk' = Moved(Depth)
      PROVE  walk' \in Seq(S) /\ \A i \in 1 .. Len(walk') - 1 : walk'[i] \in NodeIds
  <2>1. Here \in NodeIds
    BY <1>4, <1>5 DEF S
  <2> QED BY <1>1, <1>2, <1>4, <1>5, <2>1, MovedWalks DEF Depth
<1>6. CASE VisitScalar
  BY <1>5, <1>6 DEF VisitScalar, Turn
<1>7. CASE VisitContainer
  <2>1. /\ walk # << >> /\ Here # NULL /\ isContainer(Here)
        /\ walk' = Moved(Depth) \/ walk' = Append(walk, nodes[Here].value[2])
    BY <1>7 DEF VisitContainer, Turn
  <2>2. Here \in NodeIds
    BY <1>4, <2>1 DEF S
  <2>3. CASE walk' = Append(walk, nodes[Here].value[2])
    <3>1. nodes[Here].value[2] \in S
      BY <1>2, <2>1, <2>2
    <3>2. /\ walk' \in Seq(S) /\ Len(walk') = Len(walk) + 1
          /\ \A i \in 1 .. Len(walk) : walk'[i] = walk[i]
      BY <1>1, <2>3, <3>1
    <3> QED BY <1>1, <1>4, <2>1, <2>2, <3>2
  <2> QED BY <1>5, <2>1, <2>3
<1>8. CASE ReturnFromWalk
  <2>1. Len(walk) > 1 /\ walk' = Moved(Len(walk) - 1)
    BY <1>8 DEF ReturnFromWalk, Depth
  <2>2. Len(walk) - 1 \in 1 .. Len(walk) /\ Len(walk) \in Nat
    BY <1>1, <2>1
  <2>3. walk[Len(walk) - 1] \in NodeIds
    BY <1>1, <2>1, <2>2
  <2>4. nodes[walk[Len(walk) - 1]].next \in S
    BY <1>2, <2>3
  <2> QED BY <1>1, <2>1, <2>2, <2>4, MovedWalks
<1>9. CASE WalkEnds
  BY <1>9 DEF WalkEnds
<1>10. CASE Put
  BY <1>1, <1>10 DEF Put
<1> QED BY <1>6, <1>7, <1>8, <1>9, <1>10 DEF OutputStep

(* Printing begins at the root of a finished result.                       *)
LEMMA WalkBegins ==
  ASSUME PartsInv, jsonPrint
  PROVE  WalkInv'
<1>1. /\ Finished /\ Finished' /\ NodeIds' = NodeIds /\ walk' = <<Root>>
      /\ pc = "done" /\ state # NoState
  BY DEF jsonPrint, jsonOutput, Finished, vars, parserVars, NodeIds
<1>2. Root \in NodeIds
  BY <1>1 DEF PartsInv, ResultInv
<1> QED BY <1>1, <1>2 DEF WalkInv

(* The invariant of the program itself.                                    *)
MainInv == StageInv /\ WalkInv /\ LostInv

(* Every step of main keeps to its order, and its walk in the tree.        *)
LEMMA MainKept ==
  ASSUME PartsInv, MainInv, [ProgramNext]_programVars
  PROVE  MainInv'
<1>1. StageInv /\ WalkInv /\ LostInv
  BY DEF MainInv
<1>2. CASE jsonParserInit
  BY <1>1, <1>2 DEF jsonParserInit, Arena!jsonAllocatorNew, MainInv, StageInv, WalkInv, LostInv
<1>3. CASE jsonParse
  <2>1. stage = "parse" /\ stage' = "parse" /\ phase = "live"
    BY <1>1, <1>3 DEF jsonParse, StageInv
  <2>2. phase' = phase
    BY <1>3, ParseAllocates DEF Allocator!jsonAlloc, arenaVars
  <2> QED BY <2>1, <2>2 DEF MainInv, StageInv, WalkInv, LostInv
<1>4. CASE jsonPrint
  <2>1. WalkInv'
    BY <1>4, WalkBegins
  <2> QED BY <1>1, <1>4, <2>1 DEF jsonPrint, arenaVars, MainInv, StageInv, LostInv
<1>5. CASE ReadsStateOfNull
  <2>1. Blank /\ UNCHANGED <<input, phase>>
    BY <1>5 DEF ReadsStateOfNull, PartsInv, ResultInv, vars, arenaVars
  <2>2. Blank'
    BY <2>1 DEF Blank
  <2> QED BY <1>1, <1>5, <2>1, <2>2 DEF ReadsStateOfNull, MainInv, StageInv, WalkInv, LostInv
<1>6. CASE PrintRuns
  <2>1. WalkInv'
    BY <1>1, <1>6, TurnKeeps DEF PrintRuns
  <2> QED BY <1>1, <1>6, <2>1 DEF PrintRuns, arenaVars, MainInv, StageInv, LostInv
<1>7. CASE PrintReturns
  BY <1>1, <1>7 DEF PrintReturns, arenaVars, MainInv, StageInv, WalkInv, LostInv
<1>8. CASE jsonPrintError
  BY <1>1, <1>8 DEF jsonPrintError, arenaVars, MainInv, StageInv, WalkInv, LostInv
<1>9. CASE jsonRelease
  BY <1>1, <1>9 DEF jsonRelease, Arena!jsonAllocatorRelease, Arena!ReleaseHead,
       Arena!ReleaseNext, Arena!ReleaseDone, arenaVars, MainInv, StageInv, WalkInv, LostInv
<1>10. CASE UNCHANGED programVars
  <2>1. /\ UNCHANGED <<stage, phase, walk, input>> /\ NodeIds' = NodeIds
        /\ Finished' = Finished
    BY <1>10 DEF programVars, vars, parserVars, outputVars, arenaVars, NodeIds, Finished
  <2> QED BY <1>1, <2>1 DEF MainInv, StageInv, WalkInv, LostInv, Blank
<1> QED BY <1>2, <1>3, <1>4, <1>5, <1>6, <1>7, <1>8, <1>9, <1>10 DEF ProgramNext

(* The parts' invariants and main's hold together.                         *)
THEOREM MainHolds == ProgramSpec => [](PartsInv /\ MainInv)
<1>1. ProgramInit => MainInv
  BY DEF ProgramInit, Arena!Init, MainInv, StageInv, WalkInv, LostInv
<1>2. PartsInv /\ MainInv /\ [ProgramNext]_programVars => MainInv'
  BY MainKept
<1> QED BY <1>1, <1>2, PartsHold, PTL DEF ProgramSpec

(* jsonPrint reads of every node it comes to the field that was written,   *)
(* whatever the text was and wherever parsing it failed.                   *)
THEOREM PrintsWhatIsWritten == ProgramSpec => []PrintReadsWritten
<1>1. PartsInv /\ MainInv => PrintReadsWritten
  <2> SUFFICES ASSUME PartsInv, MainInv, stage = "print", walk # << >>, Here # NULL
               PROVE  nodes[Here].value[1] \in Written(nodes[Here].type)
    BY DEF PrintReadsWritten
  <2>1. Finished /\ walk \in Seq({NULL} \cup NodeIds)
    BY DEF MainInv, WalkInv
  <2>2. Here \in NodeIds
    BY <2>1 DEF Here, Last
  <2> QED BY <2>1, <2>2, FinishedMatches DEF PartsInv, UnionMatchesType
<1> QED BY <1>1, MainHolds, PTL

-----------------------------------------------------------------------------
(* As many blocks were freed as there are, when each was freed once.       *)
LEMMA FreedAll ==
  ASSUME Allocator!TypeOK, Allocator!EachBlockFreedOnce, phase = "released"
  PROVE  Arena!Freed = Arena!BlockIds /\ Len(freed) = Len(blocks)
<1>1. /\ freed \in Seq([block : Int, at : Int]) /\ Len(freed) \in Nat /\ Len(blocks) \in Nat
      /\ DOMAIN freed = 1 .. Len(freed)
  BY DEF Allocator!TypeOK
<1>2. /\ Allocator!Freed = 1 .. Len(blocks)
      /\ \A i, j \in 1 .. Len(freed) : i # j => freed[i].block # freed[j].block
  BY <1>1 DEF Allocator!EachBlockFreedOnce, Allocator!BlockIds
<1>3. {freed[i].block : i \in 1 .. Len(freed)} = 1 .. Len(blocks)
  BY <1>1, <1>2 DEF Allocator!Freed
<1>4. Arena!Freed = Arena!BlockIds
  BY <1>1, <1>3 DEF Arena!Freed, Arena!BlockIds
<1> DEFINE D == 1 .. Len(freed)
           R == 1 .. Len(blocks)
           f == [i \in D |-> freed[i].block]
<1>5. f \in Bijection(D, R)
  <2>1. f \in [D -> R] /\ \A i \in D : f[i] = freed[i].block
    BY <1>3
  <2> HIDE DEF f, R
  <2>2. IsInjective(f)
    BY <1>2, <2>1 DEF IsInjective
  <2>3. \A t \in R : \E i \in D : f[i] = t
    BY <1>3, <2>1 DEF R
  <2> QED BY <2>1, <2>2, <2>3 DEF Bijection, Injection, Surjection
<1> HIDE DEF f, R, D
<1>6. ExistsBijection(D, R)
  BY <1>5 DEF ExistsBijection
<1>7. Cardinality(R) = Len(freed)
  BY <1>1, <1>6, FS_CountingElements DEF D
<1>8. Cardinality(R) = Len(blocks)
  <2>1. 1 \in Int /\ Len(blocks) \in Int
    BY <1>1
  <2>2. Cardinality(1 .. Len(blocks)) = IF 1 > Len(blocks) THEN 0 ELSE Len(blocks) - 1 + 1
    BY <2>1, FS_Interval, Zenon
  <2> QED BY <1>1, <2>2 DEF R
<1> QED BY <1>4, <1>7, <1>8

(* Whatever was parsed, and however it failed, main frees every block it   *)
(* got, each once, before it returns; and it does not return only from a   *)
(* text of white space.                                                    *)
THEOREM ReleasesOnExit == ProgramSpec => []ReleasedOnExit
<1>1. PartsInv /\ MainInv => ReleasedOnExit
  <2> SUFFICES ASSUME PartsInv, MainInv
               PROVE  ReleasedOnExit
    OBVIOUS
  <2>1. stage = "exit" => phase = "released"
    BY DEF MainInv, StageInv
  <2>2. Allocator!EachBlockFreedOnce
    BY ProgramAssumption, Allocator!OrderFreesOnce DEF PartsInv
  <2>3. stage = "exit" => Arena!Freed = Arena!BlockIds /\ Len(freed) = Len(blocks)
    BY <2>1, <2>2, FreedAll DEF PartsInv
  <2>4. stage = "crashed" => \A i \in DOMAIN input.text : isWhiteSpace(input.text[i])
    BY DEF MainInv, LostInv, Blank
  <2> QED BY <2>3, <2>4 DEF ReleasedOnExit
<1> QED BY <1>1, MainHolds, PTL

-----------------------------------------------------------------------------
(* Nothing the parser asks for is so large that rounding it up wraps: a    *)
(* string is never asked to be longer than its text.                       *)
RequestsFit ==
  \A size \in {NodeSize, StateSize} \cup {Len(i.text) : i \in Inputs} :
    size + (Alignment - 1) < UIntMod

(* While a string is copied, the last grant was made for it.               *)
OwnGrant ==
  str.pc = "copy" => grants # << >> /\ Last(grants).size = str.cap

GrantedInv == Allocator!GrantsInv /\ Allocator!GrantsDisjoint /\ OwnGrant

(* Every request of the parser is a size that fits.                        *)
LEMMA RequestFits ==
  ASSUME RequestsFit, CallInv', NEW size \in {NodeSize, StateSize, str'.cap}
  PROVE  size \in Nat /\ size + (Alignment - 1) < UIntMod
<1>1. /\ {NodeSize, StateSize} \subseteq Nat /\ Alignment \in Nat \ {0} /\ UIntMod \in Nat
      /\ str'.cap \in Nat /\ str'.cap <= Len(input'.text) /\ input' \in Inputs
  BY CapacityTyped, ProgramAssumption
<1>2. CASE size \in {NodeSize, StateSize}
  BY <1>1, <1>2 DEF RequestsFit
<1>3. CASE size = str'.cap
  <2>1. Len(input'.text) \in Nat
    BY <1>1, CursorAssumption
  <2>2. Len(input'.text) + (Alignment - 1) < UIntMod
    BY <1>1 DEF RequestsFit
  <2> QED BY <1>1, <1>3, <2>1, <2>2
<1> QED BY <1>2, <1>3

(* A string is copied right after its size was found, and until it is, the *)
(* parser makes no node.                                                   *)
LEMMA CopyFollowsSize ==
  ASSUME Next, CallInv, str'.pc = "copy"
  PROVE  /\ nodes' = nodes /\ pc # "finish"
         /\ str.pc = "size" \/ (str.pc = "copy" /\ str'.cap = str.cap)
<1>1. ASSUME UNCHANGED str
      PROVE  pc \in {"key", "text"}
  BY <1>1 DEF CallInv
<1>2. ASSUME NEW c, StringCalledAt(c)
      PROVE  FALSE
  BY <1>2 DEF StringCalledAt, NoString
<1>3. str' # NoString
  BY DEF NoString
<1>4. ~(Begin \/ Enter \/ Element \/ AfterValue \/ Finish)
  BY <1>1 DEF Begin, Enter, Element, AfterValue, Finish
<1>5. ~(Key \/ TextValue)
  BY <1>3 DEF Key, TextValue
<1>6. ~Member
  BY <1>1, <1>2 DEF Member
<1>7. ~Value
  BY <1>1, <1>2 DEF Value, ParseNumber, ParseStrnum, ParseString, ParseText, ParseNull,
       ParseBool, ParseObject, ParseArray, ParseContainer
<1>8. StringStep /\ nodes' = nodes /\ pc' = pc
  BY <1>4, <1>5, <1>6, <1>7 DEF Next, StringRuns, parserVars
<1>9. str.pc \in {"size", "copy"}
  BY <1>8 DEF StringStep, SizeStep, SizeEnd, CopyPlain, CopyEscape, CopyUnicode,
       CopyBadEscape, CopyQuote, Copying
<1>10. pc # "finish"
  BY <1>9 DEF CallInv
<1>11. IsCall(str)
  BY DEF CallInv, StringInv
<1>12. ASSUME str.pc = "copy"
       PROVE  str'.cap = str.cap
  BY <1>8, <1>11, <1>12 DEF StringStep, SizeStep, SizeEnd, CopyPlain, CopyEscape, CopyUnicode,
       CopyBadEscape, CopyQuote, PutAndAdvance, IsCall
<1> QED BY <1>8, <1>9, <1>10, <1>12

(* The last element of a sequence that was added to.                       *)
LEMMA LastOfAppend ==
  ASSUME NEW S, NEW s \in Seq(S), NEW e
  PROVE  Append(s, e) # << >> /\ Last(Append(s, e)) = e
BY DEF Last

(* A step of the parser grants what it asks for, and keeps what it has.    *)
LEMMA ParseKeepsGrants ==
  ASSUME RequestsFit, PartsInv, PartsInv', GrantedInv, jsonParse
  PROVE  GrantedInv'
<1>1. /\ Allocator!TypeOK /\ Allocator!Shape /\ Allocator!TypeOK' /\ CallInv /\ CallInv'
      /\ Allocator!GrantsInv /\ Allocator!GrantsDisjoint /\ OwnGrant
  BY DEF PartsInv, GrantedInv
<1>2. \A size \in {NodeSize, StateSize, str'.cap} :
        size \in Nat /\ size + (Alignment - 1) < UIntMod
  BY <1>1, RequestFits
<1>3. Allocator!GrantsInv' /\ Allocator!GrantsDisjoint'
  <2>1. ASSUME NEW size \in {NodeSize, StateSize, str'.cap}, Allocator!jsonAlloc(size)
        PROVE  Allocator!GrantsInv' /\ Allocator!GrantsDisjoint'
    BY <1>1, <1>2, <2>1, ProgramAssumption, Allocator!AllocKeepsGrants,
       Allocator!AllocKeepsDisjoint
  <2>2. ASSUME UNCHANGED arenaVars
        PROVE  Allocator!GrantsInv' /\ Allocator!GrantsDisjoint'
    <3>1. UNCHANGED Allocator!vars
      BY <2>2 DEF arenaVars, Allocator!vars
    <3> QED BY <1>1, <3>1, ProgramAssumption, Allocator!OthersKeepGrants,
               Allocator!OthersKeepDisjoint
  <2> QED BY <2>1, <2>2, ParseAllocates
<1>4. ASSUME str'.pc = "copy"
      PROVE  grants' # << >> /\ Last(grants') = Last(grants)' /\ Last(grants)'.size = str'.cap
  <2>1. Next /\ Allocates
    BY DEF jsonParse
  <2>2. /\ nodes' = nodes /\ pc # "finish"
        /\ str.pc = "size" \/ (str.pc = "copy" /\ str'.cap = str.cap)
    BY <1>1, <1>4, <2>1, CopyFollowsSize
  <2>3. Len(nodes) \in Nat
    BY DEF PartsInv, NodesInv, TreeInv, Tree
  <2>4. CASE str.pc = "size"
    <3>1. Arena!jsonAlloc(str'.cap)
      BY <1>4, <2>1, <2>2, <2>3, <2>4 DEF Allocates
    <3>2. PICK g : Allocator!PlacedAt(g, str'.cap)
      BY <1>1, <1>2, <3>1, SameCalls, ProgramAssumption, Allocator!Placed
    <3>3. grants' = Append(grants, g) /\ g.size = str'.cap
      BY <3>2 DEF Allocator!PlacedAt
    <3>4. grants \in Seq(Allocator!Spans)
      BY <1>1 DEF Allocator!TypeOK
    <3> QED BY <3>3, <3>4, LastOfAppend
  <2>5. CASE str.pc = "copy" /\ str'.cap = str.cap
    <3>1. UNCHANGED grants
      BY <2>1, <2>2, <2>3, <2>5 DEF Allocates, arenaVars
    <3> QED BY <1>1, <2>5, <3>1 DEF OwnGrant
  <2> QED BY <2>2, <2>4, <2>5
<1> QED BY <1>3, <1>4 DEF GrantedInv, OwnGrant

(* No other step of main asks for memory, or runs the copy of a string.    *)
LEMMA OthersKeepGranted ==
  ASSUME PartsInv, GrantedInv, [ProgramNext]_programVars, ~jsonParse
  PROVE  GrantedInv'
<1>1. UNCHANGED str
  BY DEF ProgramNext, programVars, vars, strVars, jsonParserInit, jsonPrint,
         ReadsStateOfNull, PrintRuns, PrintReturns, jsonPrintError, jsonRelease
<1>2. \/ Arena!jsonAllocatorNew \/ Arena!jsonAllocatorRelease
      \/ UNCHANGED arenaVars
  BY DEF ProgramNext, programVars, jsonParserInit, jsonPrint,
         ReadsStateOfNull, PrintRuns, PrintReturns, jsonPrintError, jsonRelease
<1>3. UNCHANGED grants
  BY <1>2 DEF arenaVars, Arena!jsonAllocatorNew, Arena!jsonAllocatorRelease,
       Arena!ReleaseHead, Arena!ReleaseNext, Arena!ReleaseDone
<1>4. UNCHANGED arenaVars => UNCHANGED Allocator!vars
  BY DEF arenaVars, Allocator!vars
<1>5. Allocator!GrantsInv' /\ Allocator!GrantsDisjoint'
  BY <1>2, <1>4, SameCalls, ProgramAssumption, Allocator!OthersKeepGrants,
     Allocator!OthersKeepDisjoint DEF PartsInv, GrantedInv
<1> QED BY <1>1, <1>3, <1>5 DEF GrantedInv, OwnGrant

(* All that the parser allocates, nodes, strings and the state, lies in    *)
(* blocks of the arena, apart from one another, and a string is copied     *)
(* into the bytes that were granted last, for it.                          *)
THEOREM GrantsHold ==
  ASSUME RequestsFit
  PROVE  ProgramSpec => [](PartsInv /\ GrantedInv)
<1>1. ProgramInit => GrantedInv
  <2> SUFFICES ASSUME ProgramInit
               PROVE  GrantedInv
    OBVIOUS
  <2>1. grants = << >> /\ str.pc = "idle"
    BY DEF ProgramInit, Init, StringInit, Arena!Init, NoString
  <2> QED BY <2>1 DEF GrantedInv, OwnGrant, Allocator!GrantsInv, Allocator!GrantsDisjoint
<1>2. PartsInv /\ PartsInv' /\ GrantedInv /\ [ProgramNext]_programVars => GrantedInv'
  BY ParseKeepsGrants, OthersKeepGranted
<1> QED BY <1>1, <1>2, PartsHold, PTL DEF ProgramSpec

(* The parser's memory is its own: no node, string or state of a parse     *)
(* shares a byte with another, whatever the text makes it allocate.        *)
THEOREM ParseGrantsDisjoint ==
  ASSUME RequestsFit
  PROVE  ProgramSpec => [](Arena!GrantsInBounds /\ Arena!GrantsDisjoint)
<1>1. GrantedInv => Arena!GrantsInBounds /\ Arena!GrantsDisjoint
  BY DEF GrantedInv, Allocator!GrantsInv, Allocator!GrantsDisjoint, Arena!GrantsInBounds,
         Arena!GrantsDisjoint, Allocator!BlockIds, Arena!BlockIds
<1> QED BY <1>1, GrantsHold, PTL

(* The program takes the parser's steps, so its strings fit as they do     *)
(* there.                                                                  *)
THEOREM StringsHold == ProgramSpec => []StringsFit
<1>1. ProgramInit => StringsFit
  BY StringsFitBegin DEF ProgramInit
<1>2. PartsInv /\ StringsFit /\ [ProgramNext]_programVars => StringsFit'
  BY CursorAssumption, ProgramParses, StringsFitKept DEF PartsInv
<1> QED BY <1>1, <1>2, PartsHold, PTL DEF ProgramSpec

(* The copy of every key and every text is written into the bytes jsonAlloc *)
(* gave for it, but for the two exceptions of OutputFits.                   *)
THEOREM CopiesInGrant ==
  ASSUME RequestsFit
  PROVE  ProgramSpec => [](~input.strnum => StringInGrant)
<1>1. PartsInv /\ GrantedInv /\ StringsFit
        => (~input.strnum => StringInGrant)
  <2> SUFFICES ASSUME PartsInv, GrantedInv, StringsFit, ~input.strnum, str.pc = "copy"
               PROVE  LET g == Last(grants)
                      IN  /\ g.size = str.cap
                          /\ str.len + 1 <= g.size \/ OpenEscape \/ QuoteInPair
                          /\ g.start + g.size <= blocks[g.block].capacity
    BY DEF StringInGrant
  <2>1. grants # << >> /\ Last(grants).size = str.cap
    BY DEF GrantedInv, OwnGrant
  <2>2. grants \in Seq(Allocator!Spans)
    BY DEF PartsInv, Allocator!TypeOK
  <2>3. Len(grants) \in DOMAIN grants /\ Last(grants) = grants[Len(grants)]
    BY <2>1, <2>2 DEF Last
  <2>4. Last(grants).start + Last(grants).size <= blocks[Last(grants).block].capacity
    BY <2>3 DEF GrantedInv, Allocator!GrantsInv
  <2>5. str.len \in Nat /\ str.cap \in Nat
    <3>1. StrTypeOK /\ buflen \in Nat
      BY TextFacts, CursorAssumption DEF PartsInv, CallInv, StringInv
    <3> QED BY <3>1 DEF StrTypeOK
  <2>6. OutputFits
    BY CursorAssumption, CopyInvFits DEF PartsInv, CallInv, StringsFit, OutputFits
  <2>7. str.len + 1 <= str.cap \/ OpenEscape \/ QuoteInPair
    BY <2>5, <2>6 DEF OutputFits, CopyFits
  <2> QED BY <2>1, <2>4, <2>7
<1> QED BY <1>1, GrantsHold, StringsHold, PTL

-----------------------------------------------------------------------------
(* The buffer of jsonToString and of the error messages is never overrun   *)
(* and always terminated, for every initial capacity and every sequence of *)
(* pieces.                                                                 *)

(* realloc succeeds, and no capacity the buffer can reach wraps in size_t: *)
(* a capacity grows to at most four times the text and two bytes more.     *)
Grows     == ReallocMayFail = FALSE
SizesFit  == SizeMod > 2 * InitialCapacity + 10 * MaxText + 4

(* The inductive invariant: what is in the buffer so far and its NUL lie   *)
(* within the capacity, and the capacity stays in proportion to the text.  *)
Proportion ==
  /\ js.len \in 0 .. MaxText
  /\ js.capacity \in Nat
  /\ js.len < js.capacity
  /\ js.capacity <= InitialCapacity + 4 * js.len + 2

Contents ==
  /\ js.len > 0 => js.buffer[js.len] = NUL
  /\ \A i \in 0 .. js.len - 1 : js.buffer[i] # NUL

IsBuffer(b) == b = [buffer |-> b.buffer, capacity |-> b.capacity, len |-> b.len]

BufferInv == IsBuffer(js) /\ Proportion /\ Contents /\ overrun = FALSE

(* The step every append takes: what jsonStringExtendBufferIfNeeded leaves *)
(* has room for the piece and for a NUL behind it.                         *)
LEMMA ExtendedHasRoom ==
  ASSUME BufferAssumption, Grows, SizesFit, BufferInv,
         NEW n \in Nat, js.len + n <= MaxText, NEW b \in Extended(js, n)
  PROVE  /\ IsBuffer(b)
         /\ b.len = js.len
         /\ b.capacity \in Nat
         /\ b.len + n < b.capacity
         /\ b.capacity <= InitialCapacity + 4 * (js.len + n) + 2
         /\ \A i \in 0 .. js.len - 1 : b.buffer[i] = js.buffer[i]
<1> DEFINE len == js.len  cap == js.capacity
<1>1. /\ len \in Nat /\ cap \in Nat /\ len < cap /\ cap <= InitialCapacity + 4 * len + 2
      /\ InitialCapacity \in Nat /\ SizeMod \in Nat /\ MaxText \in Nat /\ len + n <= MaxText
  BY DEF BufferAssumption, BufferInv, Proportion
<1>2. (len + 1 + n) % SizeMod = len + 1 + n
  <2>1. len + 1 + n \in Nat /\ len + 1 + n < SizeMod
    BY <1>1 DEF SizesFit
  <2> QED BY <2>1, <1>1
<1>3. NeedsMore(js, n) <=> len + 1 + n >= cap
  BY <1>2 DEF NeedsMore
<1>4. ASSUME len + 1 + n >= cap
      PROVE  NewCapacity(js, n) = 2 * (cap + n) /\ 2 * (cap + n) > cap
  <2>1. (cap + n) * 2 \in Nat /\ (cap + n) * 2 < SizeMod /\ (cap + n) * 2 > cap
    BY <1>1, <1>4 DEF SizesFit
  <2>2. ((cap + n) * 2) % SizeMod = (cap + n) * 2
    BY <2>1, <1>1
  <2> QED BY <2>1, <2>2, <1>1 DEF NewCapacity
<1>5. CASE len + 1 + n >= cap
  <2>1. b = Realloc(js, 2 * (cap + n))
    BY <1>3, <1>4, <1>5 DEF Extended, Grows
  <2>2. /\ b.capacity = 2 * (cap + n)
        /\ b.len = len
        /\ b.buffer = [i \in 0 .. 2 * (cap + n) - 1 |->
                         IF i < cap THEN js.buffer[i] ELSE Unwritten]
        /\ IsBuffer(b)
    BY <2>1 DEF Realloc, BufferInv, IsBuffer
  <2>4. \A i \in 0 .. len - 1 : b.buffer[i] = js.buffer[i]
    BY <2>2, <1>1
  <2>5. /\ 2 * (cap + n) \in Nat
        /\ len + n < 2 * (cap + n)
        /\ 2 * (cap + n) <= InitialCapacity + 4 * (len + n) + 2
    BY <1>1, <1>5
  <2>6. /\ b.capacity \in Nat
        /\ b.len + n < b.capacity
        /\ b.capacity <= InitialCapacity + 4 * (js.len + n) + 2
    BY <2>2, <2>5
  <2> QED BY <2>2, <2>4, <2>6
<1>6. CASE ~(len + 1 + n >= cap)
  <2>1. b = js
    BY <1>3, <1>6 DEF Extended
  <2>2. /\ b.capacity \in Nat
        /\ b.len + n < b.capacity
        /\ b.capacity <= InitialCapacity + 4 * (js.len + n) + 2
    BY <2>1, <1>1, <1>6
  <2>3. IsBuffer(b)
    BY <2>1 DEF BufferInv
  <2> QED BY <2>1, <2>2, <2>3
<1> QED BY <1>1, <1>5, <1>6

(* memcpy and the terminating NUL keep the invariant when there is room,   *)
(* whatever the piece, as long as it holds no NUL of its own.              *)
LEMMA AppendedKeeps ==
  ASSUME BufferAssumption, Grows, SizesFit, BufferInv,
         NEW d \in Seq(STRING \ {NUL}), jsonStringCatLen(d)
  PROVE  BufferInv'
<1> DEFINE n == Len(d)  len == js.len
<1>0. PICK b \in Extended(js, n) :
           js' = Appended(b, d) /\ overrun' = (overrun \/ b.len + n >= b.capacity)
  BY DEF jsonStringCatLen
<1>1. /\ n \in Nat /\ len \in Nat /\ len + n <= MaxText /\ MaxText \in Nat
      /\ \A k \in 1 .. n : d[k] # NUL
      /\ InitialCapacity \in Nat
  BY DEF jsonStringCatLen, BufferInv, Proportion, BufferAssumption
<1>2. /\ IsBuffer(b)
      /\ b.len = len
      /\ b.capacity \in Nat
      /\ len + n < b.capacity
      /\ b.capacity <= InitialCapacity + 4 * (len + n) + 2
      /\ \A i \in 0 .. len - 1 : b.buffer[i] = js.buffer[i]
  BY <1>1, ExtendedHasRoom
<1> DEFINE cap == b.capacity
           text(i) == IF i \in len .. len + n - 1 THEN d[i - len + 1]
                      ELSE IF i = len + n THEN NUL ELSE b.buffer[i]
<1>3. /\ js'.len = len + n
      /\ js'.capacity = cap
      /\ js'.buffer = [i \in 0 .. cap - 1 |-> text(i)]
      /\ IsBuffer(js)'
  BY <1>0, <1>2 DEF Appended, IsBuffer
<1>4. ~(b.len + n >= b.capacity)
  BY <1>1, <1>2
<1>5. overrun' = FALSE
  BY <1>4, <1>0 DEF BufferInv
<1>7. ASSUME NEW i \in 0 .. len + n - 1
      PROVE  text(i) # NUL
  <2>1. CASE i \in len .. len + n - 1
    <3>1. i - len + 1 \in 1 .. n
      BY <2>1, <1>1
    <3> QED BY <3>1, <2>1, <1>1
  <2>2. CASE i \notin len .. len + n - 1
    <3>1. i \in 0 .. len - 1 /\ i # len + n
      BY <2>2, <1>1
    <3>2. b.buffer[i] = js.buffer[i] /\ js.buffer[i] # NUL
      BY <3>1, <1>2 DEF BufferInv, Contents
    <3> QED BY <3>1, <3>2, <2>2
  <2> QED BY <2>1, <2>2
<1>8. text(len + n) = NUL
  BY <1>1
<1>9. len + n \in 0 .. cap - 1
  BY <1>1, <1>2
<1> HIDE DEF text
<1>10. Contents'
  <2>1. js'.buffer[js'.len] = NUL
    BY <1>3, <1>8, <1>9
  <2>2. ASSUME NEW i \in 0 .. len + n - 1
        PROVE  js'.buffer[i] # NUL
    <3>1. i \in 0 .. cap - 1
      BY <1>1, <1>2
    <3>2. js'.buffer[i] = text(i)
      BY <1>3, <3>1
    <3> QED BY <3>2, <1>7
  <2>3. js'.len = len + n
    BY <1>3
  <2>4. \A i \in 0 .. js'.len - 1 : js'.buffer[i] # NUL
    BY <1>1, <2>2, <2>3
  <2> QED BY <2>1, <2>4, Zenon DEF Contents
<1>11. Proportion'
  BY <1>1, <1>2, <1>3 DEF Proportion
<1> QED BY <1>3, <1>5, <1>10, <1>11 DEF BufferInv

(* The invariant holds of the buffer jsonStringNew returns and after every *)
(* sequence of pieces, formatted ones or not.                              *)
THEOREM BufferCorrect ==
  BufferAssumption /\ Grows /\ SizesFit => (BufferSpec => []BufferInv)
<1> SUFFICES ASSUME BufferAssumption, Grows, SizesFit
             PROVE  BufferSpec => []BufferInv
  OBVIOUS
<1>1. BufferInit => BufferInv
  <2> SUFFICES ASSUME BufferInit PROVE BufferInv
    OBVIOUS
  <2>1. InitialCapacity \in Nat /\ InitialCapacity > 0 /\ MaxText \in Nat
    BY DEF BufferAssumption
  <2>2. /\ js.buffer = [i \in 0 .. InitialCapacity - 1 |-> Unwritten]
        /\ js.capacity = InitialCapacity
        /\ js.len = 0
        /\ IsBuffer(js)
    BY DEF BufferInit, jsonStringNew, Allocated, IsBuffer
  <2>3. Proportion
    BY <2>1, <2>2 DEF Proportion
  <2>5. Contents
    BY <2>2 DEF Contents
  <2> QED BY <2>2, <2>3, <2>5 DEF BufferInv, BufferInit
<1>2. BufferInv /\ [BufferNext]_bufferVars => BufferInv'
  <2> SUFFICES ASSUME BufferInv, [BufferNext]_bufferVars PROVE BufferInv'
    OBVIOUS
  <2>1. CASE BufferNext
    <3>1. PICK d \in Seq(STRING \ {NUL}) : jsonStringCatLen(d) \/ jsonStringCatf(d)
      BY <2>1 DEF BufferNext
    <3>2. jsonStringCatLen(d)
      BY <3>1 DEF jsonStringCatf
    <3> QED BY <3>2, AppendedKeeps
  <2>2. CASE UNCHANGED bufferVars
    BY <2>2 DEF bufferVars, BufferInv, IsBuffer, Proportion, Contents
  <2> QED BY <2>1, <2>2
<1> QED BY <1>1, <1>2, PTL DEF BufferSpec

(* No byte is written behind the buffer, for any pieces in any order: the  *)
(* room for the terminator is never forgotten, and growing to twice the sum*)
(* is always enough.                                                       *)
THEOREM NeverOverrun ==
  BufferAssumption /\ Grows /\ SizesFit => (BufferSpec => []NoOverrun)
<1>1. BufferInv => NoOverrun
  BY DEF BufferInv, NoOverrun
<1> QED BY <1>1, BufferCorrect, PTL

(* strlen of the buffer is the length jsonToString returns with it: no byte*)
(* that realloc left unwritten is ever read, and no later piece leaves the *)
(* terminator of an earlier one inside the text.                           *)
THEOREM AlwaysTerminated ==
  BufferAssumption /\ Grows /\ SizesFit => (BufferSpec => []Terminated)
<1>1. BufferInv => Terminated
  BY DEF BufferInv, Proportion, Contents, Terminated
<1> QED BY <1>1, BufferCorrect, PTL
=============================================================================
