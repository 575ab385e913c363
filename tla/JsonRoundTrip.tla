--------------------------- MODULE JsonRoundTrip ---------------------------
(***************************************************************************)
(* What testParseThenToStringAndBack of test.c does, also with jsonPrint:  *)
(* a text is parsed, its tree is written and what was written is parsed.   *)
(***************************************************************************)
EXTENDS JsonOutput

VARIABLES
  stage,    (* "parse", "write", "reparse" or "done"                       *)
  tree      (* the nodes of the first parse                                *)

roundTripVars == <<vars, outputVars, stage, tree>>

RoundTripInit ==
  /\ Init
  /\ OutputInit
  /\ stage = "parse"
  /\ tree = << >>

Parse ==
  /\ stage \in {"parse", "reparse"}
  /\ Next
  /\ UNCHANGED <<outputVars, stage, tree>>

(* The test goes on with a parsed text only.                               *)
Parsed ==
  /\ stage = "parse" /\ pc = "done"
  /\ \/ Ok /\ stage' = "write" /\ tree' = nodes /\ jsonOutput
     \/ ~Ok /\ stage' = "done" /\ UNCHANGED <<tree, outputVars>>
  /\ UNCHANGED vars

Write ==
  /\ stage = "write"
  /\ OutputStep
  /\ UNCHANGED <<vars, stage, tree>>

(* malloc aligns what it returns, and so the buffer, to a lane.            *)
ParseAgain ==
  /\ stage = "write" /\ walk = << >> /\ pending = << >>
  /\ stage' = "reparse"
  /\ input' = [input EXCEPT !.text = OutputText, !.base = 0]
  /\ cur' = [offset |-> 0, err |-> "JSON_OK"]
  /\ str' = NoString
  /\ pc' = "start"
  /\ stack' = << >> /\ nodes' = << >>
  /\ ptr' = NULL /\ ptype' = "none" /\ state' = NoState
  /\ UNCHANGED <<outputVars, tree>>

Reparsed ==
  /\ stage = "reparse" /\ pc = "done"
  /\ stage' = "done"
  /\ UNCHANGED <<vars, outputVars, tree>>

RoundTripNext == Parse \/ Parsed \/ Write \/ ParseAgain \/ Reparsed

(* One thread makes the calls one after the other.                         *)
RoundTripSpec ==
  RoundTripInit /\ [][RoundTripNext]_roundTripVars /\ WF_roundTripVars(RoundTripNext)

-----------------------------------------------------------------------------
(* What neither walk can write so that it comes back: a control character,  *)
(* which parseHex4 does not read back, and a float that is printed as an    *)
(* integer.  jsonToString also loses empty containers, keys with a          *)
(* character it should escape and a number in front of a closing brace.     *)
Special(text) ==
  text # NullText /\ \E i \in DOMAIN text[2] : isShort(text[2][i][1]) \/ isControl(text[2][i][1])
Control(text) == text # NullText /\ \E i \in DOMAIN text[2] : isControl(text[2][i][1])
isNumber(n)   == tree[n].type \in {"JSON_INT", "JSON_FLOAT"}

LostByBoth(n) ==
  \/ Control(tree[n].key)
  \/ tree[n].type = "JSON_STRING" /\ Control(tree[n].value)
  \/ tree[n].type = "JSON_FLOAT" /\ "." \notin Range(FloatText(tree[n].value[2]))
LostByToString(n) ==
  \/ tree[n].value = Child(NULL)
  \/ Special(tree[n].key)
  \/ isNumber(n) /\ tree[n].key # NullText /\ tree[n].next = NULL
Lost(n) == LostByBoth(n) \/ (~Prints /\ LostByToString(n))

(* What jsonToString and jsonPrint write of a tree with nothing of that in  *)
(* it is parsed to the same tree: test.c only asks whether it is parsed.    *)
RoundTrip ==
  stage = "done" /\ tree # << >> /\ ~(\E n \in DOMAIN tree : Lost(n)) =>
    Ok /\ nodes = tree

(* "Parse json string": what was written of a tree is parsed.               *)
WrittenIsParsed == stage = "done" /\ tree # << >> => Ok

(* Every byte of the text was written by someone.                           *)
NothingUnwritten ==
  \A i \in DOMAIN OutputText : OutputText[i] # Unwritten

(* The round trip ends: both parses and the walk, which turns once for each *)
(* node and returns from every container it went down to.                   *)
RoundTripReturns == <>(stage = "done")
=============================================================================
