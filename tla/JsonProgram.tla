---------------------------- MODULE JsonProgram ----------------------------
(***************************************************************************)
(* main.c over the whole library: the text of a file is parsed with the    *)
(* arena of JsonArena behind every jsonAlloc, the tree is printed, whether *)
(* or not there was an error, then the error is, and the arena is          *)
(* released.  freeing is `block' in the loop of jsonAllocatorRelease.      *)
(***************************************************************************)
EXTENDS JsonOutput

CONSTANTS
  Capacity, Alignment, Sizes, UIntMod, MaxAllocs,   (* see JsonArena       *)
  NodeSize,    (* sizeof(json)                                             *)
  StateSize    (* sizeof(jsonState)                                        *)

(* What JsonArena assumes, of the arena of the program, and two sizes.     *)
ASSUME ProgramAssumption ==
  /\ Alignment \in Nat \ {0}
  /\ Capacity \in Nat \ {0}
  /\ Sizes \subseteq Nat \ {0}
  /\ UIntMod \in Nat
  /\ UIntMod > 2 * (Capacity + Alignment)
  /\ \A s \in Sizes : s < UIntMod
  /\ MaxAllocs \in Nat
  /\ {NodeSize, StateSize} \subseteq Nat \ {0}

VARIABLES
  stage,       (* "init", "parse", "print", "report", "release", "exit",   *)
               (* or "crashed"                                             *)
  phase, blocks, arena, freeing, freed, grants      (* see JsonArena       *)

arenaVars   == <<phase, blocks, arena, freeing, freed, grants>>
programVars == <<vars, outputVars, arenaVars, stage>>

Arena == INSTANCE JsonArena WITH walk <- freeing

ProgramInit ==
  /\ Init
  /\ OutputInit /\ Prints
  /\ Arena!Init
  /\ stage = "init"

jsonParserInit ==
  /\ stage = "init"
  /\ stage' = "parse"
  /\ Arena!jsonAllocatorNew
  /\ UNCHANGED <<vars, outputVars>>

(* Mutant of Allocates: a key is copied without a grant of its own.        *)
AllocatesNoKey ==
  \/ Len(nodes') > Len(nodes) /\ Arena!jsonAlloc(NodeSize)
  \/ /\ Len(nodes') = Len(nodes)
     /\ str.pc = "size" /\ str'.pc = "copy" /\ pc # "key"
     /\ Arena!jsonAlloc(str'.cap)
  \/ pc = "finish" /\ Arena!jsonAlloc(StateSize)
  \/ /\ Len(nodes') = Len(nodes) /\ pc # "finish"
     /\ ~(str.pc = "size" /\ str'.pc = "copy") \/ pc = "key"
     /\ UNCHANGED arenaVars

(* jsonNew, jsonParseString between its passes and jsonStateNew allocate.  *)
Allocates ==
  LET sized == str.pc = "size" /\ str'.pc = "copy"
  IN  \/ Len(nodes') > Len(nodes) /\ Arena!jsonAlloc(NodeSize)
      \/ sized /\ Arena!jsonAlloc(str'.cap)
      \/ pc = "finish" /\ Arena!jsonAlloc(StateSize)
      \/ Len(nodes') = Len(nodes) /\ ~sized /\ pc # "finish" /\ UNCHANGED arenaVars

jsonParse ==
  /\ stage = "parse"
  /\ Next
  /\ Allocates
  /\ UNCHANGED <<outputVars, stage>>

jsonPrint ==
  /\ stage = "parse" /\ pc = "done" /\ state # NoState
  /\ stage' = "print"
  /\ jsonOutput
  /\ UNCHANGED <<vars, arenaVars>>

(* jsonPrint of the NULL that a text of white space gives prints nothing;  *)
(* main then reads J->state of it.                                         *)
ReadsStateOfNull ==
  /\ stage = "parse" /\ pc = "done" /\ state = NoState
  /\ stage' = "crashed"
  /\ UNCHANGED <<vars, outputVars, arenaVars>>

PrintRuns ==
  /\ stage = "print"
  /\ OutputStep
  /\ UNCHANGED <<vars, arenaVars, stage>>

PrintReturns ==
  /\ stage = "print" /\ walk = << >> /\ pending = << >>
  /\ stage' = IF state.error = "JSON_OK" THEN "release" ELSE "report"
  /\ UNCHANGED <<vars, outputVars, arenaVars>>

-----------------------------------------------------------------------------
(* _jsonGetStrerror: the words of the message, which stand for themselves, *)
(* the character where the error has one, and the offset.                  *)

WithoutChar == {"JSON_CANNOT_START_PARSE", "JSON_CANNOT_ADVANCE", "JSON_EOF",
                "JSON_UNTERMINATED"}

Message ==
  <<state.error>>
    \o (IF \/ state.error \in WithoutChar
           \/ state.error = "JSON_INVALID_JSON_TYPE_CHAR" /\ state.ch = NUL
        THEN << >> ELSE <<state.ch>>)
    \o Digits(state.offset)

jsonPrintError ==
  /\ stage = "report"
  /\ stage' = "release"
  /\ jsonStringCatf(Message)
  /\ UNCHANGED <<vars, style, walk, pending, stdout, arenaVars>>

jsonRelease ==
  /\ stage = "release"
  /\ \/ Arena!jsonAllocatorRelease /\ UNCHANGED stage
     \/ phase = "released" /\ stage' = "exit" /\ UNCHANGED arenaVars
  /\ UNCHANGED <<vars, outputVars>>

ProgramNext ==
  \/ jsonParserInit \/ jsonParse \/ jsonPrint \/ ReadsStateOfNull \/ PrintRuns
  \/ PrintReturns \/ jsonPrintError \/ jsonRelease

(* One thread runs main to its end.                                        *)
ProgramSpec ==
  ProgramInit /\ [][ProgramNext]_programVars /\ WF_programVars(ProgramNext)

-----------------------------------------------------------------------------
(* The copying pass of a string writes, with its NUL, in the grant made     *)
(* for it and in no other, for keys and values and whatever the parser      *)
(* allocated before; what leaves its grant are the two exceptions of        *)
(* OutputFits.                                                              *)
StringInGrant ==
  str.pc = "copy" =>
    LET g == Last(grants)
    IN  /\ g.size = str.cap
        /\ str.len + 1 <= g.size \/ OpenEscape \/ QuoteInPair
        /\ g.start + g.size <= blocks[g.block].capacity

(* jsonPrint walks trees that a failed parse left: it reads of a node only  *)
(* the field of the union that was written.                                 *)
PrintReadsWritten ==
  stage = "print" /\ walk # << >> /\ Here # NULL =>
    nodes[Here].value[1] \in Written(nodes[Here].type)

(* Every block is freed when main returns; what main does not return from   *)
(* is a text of white space, and its arena is lost.                         *)
ReleasedOnExit ==
  /\ stage = "exit" => Arena!Freed = Arena!BlockIds /\ Len(freed) = Len(blocks)
  /\ stage = "crashed" => \A i \in DOMAIN input.text : isWhiteSpace(input.text[i])

(* main ends, through print, report and release, unless a string copies its *)
(* last character for ever (StuckOnLast).                                   *)
ProgramEnds == <>(stage \in {"exit", "crashed"} \/ StuckOnLast)

(* "Free up JSON, can handle nulls".                                        *)
HandlesNull == stage # "crashed"

(* The message that says what the error is, and where, is whole: no NUL is  *)
(* in it before its end.                                                    *)
MessageIsWhole == stage = "release" => Terminated
=============================================================================
