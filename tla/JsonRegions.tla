---------------------------- MODULE JsonRegions ----------------------------
(***************************************************************************)
(* What the arena promises its clients, whatever blocks it is built from:  *)
(* every region it hands out is its holder's alone and stays valid until   *)
(* the one release, which gives back every chunk and nothing else.         *)
(***************************************************************************)
EXTENDS Integers

CONSTANT Sizes

VARIABLES
  phase,    (* "unborn", "live", "releasing" or "released"                 *)
  chunks,   (* the chunks held from malloc: [id, capacity]                 *)
  live      (* the regions in use: [block, start, size]                    *)

vars == <<phase, chunks, live>>

Within(g, c) == c.id = g.block /\ g.start + g.size <= c.capacity

Apart(g, h) ==
  \/ g.block # h.block
  \/ g.start + g.size <= h.start
  \/ h.start + h.size <= g.start

Init == phase = "unborn" /\ chunks = {} /\ live = {}

Open ==
  /\ phase = "unborn"
  /\ phase' = "live"
  /\ \E c \in chunks' : chunks' = {c}
  /\ UNCHANGED live

(* A region of the size asked for, apart from every region in use, in a    *)
(* chunk already held or in one obtained for it.                           *)
Allocate(size) ==
  /\ phase = "live"
  /\ \E g \in live' :
       /\ live' = live \cup {g}
       /\ g.size = size
       /\ \A h \in live : Apart(g, h)
       /\ \E c \in chunks' : Within(g, c)
  /\ \/ chunks' = chunks
     \/ \E c \in chunks' \ chunks : chunks' = chunks \cup {c}
  /\ UNCHANGED phase

(* Every region ends with the release; the chunks then go back one by one. *)
Close ==
  /\ phase = "live"
  /\ phase' = "releasing"
  /\ live' = {}
  /\ \E c \in chunks : chunks' = chunks \ {c}

GiveBack ==
  /\ phase = "releasing"
  /\ \E c \in chunks : chunks' = chunks \ {c}
  /\ UNCHANGED <<phase, live>>

Closed ==
  /\ phase = "releasing"
  /\ chunks = {}
  /\ phase' = "released"
  /\ UNCHANGED <<chunks, live>>

Next ==
  \/ Open
  \/ \E size \in Sizes : Allocate(size)
  \/ Close \/ GiveBack \/ Closed

Spec == Init /\ [][Next]_vars
=============================================================================
