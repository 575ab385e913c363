----------------------------- MODULE JsonArena -----------------------------
(***************************************************************************)
(* The arena of json.c: jsonAllocatorNew, jsonAlloc, jsonAllocatorRelease. *)
(*                                                                         *)
(* A block is one malloc'd chunk plus its header.  An address inside a     *)
(* chunk is a byte offset from the pointer malloc returned, so `mem' is    *)
(* the offset of the block's bump pointer.  Blocks are numbered in the     *)
(* order malloc returned them; NULL and Garbage are the two other values a *)
(* block pointer can hold (Garbage: the `next' of a header that malloc     *)
(* returned and nobody assigned).                                          *)
(*                                                                         *)
(* grants is a history variable: what jsonAlloc has handed out.            *)
(***************************************************************************)
EXTENDS Integers, Sequences

CONSTANTS
  Capacity,    (* the capacity passed to jsonAllocatorNew                  *)
  Alignment,   (* `alignment' in jsonAllocatorAlignMemorySize              *)
  Sizes,       (* the sizes the parser asks for                            *)
  UIntMod,     (* 2^w: unsigned int is arithmetic modulo UIntMod           *)
  MaxAllocs    (* bound: number of jsonAlloc calls in a behaviour          *)

ASSUME ArenaAssumption ==
  /\ Alignment \in Nat \ {0}
  /\ Capacity \in Nat \ {0}
  /\ Sizes \subseteq Nat \ {0}
  /\ UIntMod \in Nat
  /\ UIntMod > 2 * (Capacity + Alignment)
  /\ \A s \in Sizes : s < UIntMod
  /\ MaxAllocs \in Nat

VARIABLES
  phase,    (* "unborn", "live", "releasing" or "released"                 *)
  blocks,   (* sequence of block headers                                   *)
  arena,    (* the jsonAllocator struct                                    *)
  walk,     (* `block' in jsonAllocatorRelease's loop                      *)
  freed,    (* sequence of the offsets passed to free, with their block    *)
  grants    (* sequence of [block, start, size]                            *)

vars == <<phase, blocks, arena, walk, freed, grants>>

NULL == 0
Garbage == -1

(* Mutant of AlignUp: sizes are not rounded.                              *)
AlignNot(size) == size

(***************************************************************************)
(* jsonAllocatorAlignMemorySize: round up to a multiple of Alignment, in   *)
(* unsigned arithmetic, so a size within Alignment - 1 of UIntMod wraps.   *)
(***************************************************************************)
AlignUp(size) ==
  LET sum == (size + (Alignment - 1)) % UIntMod
  IN  sum - (sum % Alignment)

(* jsonAllocatorBlockNew: `next' is left as malloc returned it.            *)
BlockNew(capacity) ==
  [capacity |-> capacity, used |-> 0, mem |-> 0, next |-> Garbage]

NoArena == [block_capacity |-> 0, used |-> 0, head |-> NULL, tail |-> NULL]

Init ==
  /\ phase = "unborn"
  /\ blocks = << >>
  /\ arena = NoArena
  /\ walk = NULL
  /\ freed = << >>
  /\ grants = << >>

jsonAllocatorNew ==
  /\ phase = "unborn"
  /\ phase' = "live"
  /\ blocks' = <<BlockNew(Capacity)>>
  /\ arena' = [block_capacity |-> AlignUp(Capacity), used |-> 0,
               head |-> 1, tail |-> NULL]
  /\ UNCHANGED <<walk, freed, grants>>

-----------------------------------------------------------------------------
(* jsonAlloc, one action per path through it.                              *)

(* Mutants of Bump: mem moved the wrong way, not moved, or used not        *)
(* counted.                                                                *)
BumpBack(b, size) == [b EXCEPT !.used = @ + size, !.mem = @ - size]
BumpUsed(b, size) == [b EXCEPT !.used = @ + size]
BumpMem(b, size)  == [b EXCEPT !.mem = @ + size]

(* Move a block's bump pointer over the bytes handed out.                  *)
Bump(b, size) == [b EXCEPT !.used = @ + size, !.mem = @ + size]

Grant(b, start, size) ==
  grants' = Append(grants, [block |-> b, start |-> start, size |-> size])

CountUsed(a, size) == (a.used + AlignUp(size)) % UIntMod

(* Mutant of HeadIsFull: the size asked for is not counted.                *)
HeadIsSpent(size) == blocks[arena.head].used >= blocks[arena.head].capacity

HeadIsFull(size) ==
  LET b == blocks[arena.head]
  IN  (b.used + AlignUp(size)) % UIntMod >= b.capacity

(* Mutant of AllocOversized: the used list is cut off.                     *)
AllocOversizedAlone(size) ==
  LET new == Len(blocks) + 1
  IN  /\ AlignUp(size) > arena.block_capacity
      /\ blocks' = Append(blocks, [BlockNew(AlignUp(size)) EXCEPT !.next = NULL])
      /\ arena' = [arena EXCEPT !.used = CountUsed(arena, size), !.tail = new]
      /\ Grant(new, 0, size)

(* Larger than a block: a chunk of its own, pushed on the used list with   *)
(* used = 0 so that release frees it where malloc returned it.             *)
AllocOversized(size) ==
  LET new == Len(blocks) + 1
  IN  /\ AlignUp(size) > arena.block_capacity
      /\ blocks' = Append(blocks,
                     [BlockNew(AlignUp(size)) EXCEPT !.next = arena.tail])
      /\ arena' = [arena EXCEPT !.used = CountUsed(arena, size),
                                !.tail = new]
      /\ Grant(new, 0, size)

(* The active block has room: bump its pointer.                            *)
AllocInHead(size) ==
  LET h == arena.head
  IN  /\ AlignUp(size) <= arena.block_capacity
      /\ ~HeadIsFull(size)
      /\ Grant(h, blocks[h].mem, size)
      /\ blocks' = [blocks EXCEPT ![h] = Bump(@, AlignUp(size))]
      /\ arena' = [arena EXCEPT !.used = CountUsed(arena, size)]

(* The active block is full: push it on the used list, start a new one.    *)
AllocInNewHead(size) ==
  LET h   == arena.head
      new == Len(blocks) + 1
      b   == Bump(BlockNew(arena.block_capacity), AlignUp(size))
  IN  /\ AlignUp(size) <= arena.block_capacity
      /\ HeadIsFull(size)
      /\ blocks' = Append([blocks EXCEPT ![h].next = arena.tail], b)
      /\ arena' = [arena EXCEPT !.used = CountUsed(arena, size),
                                !.tail = h, !.head = new]
      /\ Grant(new, 0, size)

jsonAlloc(size) ==
  /\ phase = "live"
  /\ Len(grants) < MaxAllocs
  /\ \/ AllocOversized(size)
     \/ AllocInHead(size)
     \/ AllocInNewHead(size)
  /\ UNCHANGED <<phase, walk, freed>>

-----------------------------------------------------------------------------
(* jsonAllocatorRelease: the head block, then the used list from its tail. *)

(* jsonAllocatorBlockRelease: free(mem - used), then the header.           *)
FreeBlock(b) ==
  freed' = Append(freed, [block |-> b, at |-> blocks[b].mem - blocks[b].used])

(* Mutant of ReleaseHead: only the used list is freed.                     *)
ReleaseHeadKept ==
  /\ phase = "live"
  /\ phase' = "releasing"
  /\ walk' = arena.tail
  /\ UNCHANGED <<blocks, arena, freed, grants>>

ReleaseHead ==
  /\ phase = "live"
  /\ phase' = "releasing"
  /\ FreeBlock(arena.head)
  /\ walk' = arena.tail
  /\ UNCHANGED <<blocks, arena, grants>>

(* Mutant of ReleaseNext: a block whose used is 0, such as one opened for  *)
(* an oversized request, is passed by with a continue, in front of the     *)
(* line that moves on to the next: the loop turns on it for ever.          *)
ReleaseNextSkips ==
  /\ phase = "releasing"
  /\ walk # NULL
  /\ IF blocks[walk].used = 0
       THEN UNCHANGED <<walk, freed>>
       ELSE FreeBlock(walk) /\ walk' = blocks[walk].next
  /\ UNCHANGED <<phase, blocks, arena, grants>>

ReleaseNext ==
  /\ phase = "releasing"
  /\ walk # NULL
  /\ FreeBlock(walk)
  /\ walk' = blocks[walk].next
  /\ UNCHANGED <<phase, blocks, arena, grants>>

ReleaseDone ==
  /\ phase = "releasing"
  /\ walk = NULL
  /\ phase' = "released"
  /\ UNCHANGED <<blocks, arena, walk, freed, grants>>

jsonAllocatorRelease == ReleaseHead \/ ReleaseNext \/ ReleaseDone

Next ==
  \/ jsonAllocatorNew
  \/ \E size \in Sizes : jsonAlloc(size)
  \/ jsonAllocatorRelease

(* The caller is one thread: once jsonAllocatorRelease has begun it runs.  *)
Fairness == WF_vars(ReleaseNext) /\ WF_vars(ReleaseDone)

Spec == Init /\ [][Next]_vars /\ Fairness

-----------------------------------------------------------------------------
(* No size is so close to UIntMod that rounding it up wraps to zero.       *)
SizesFit == \A s \in Sizes : s + (Alignment - 1) < UIntMod

BlockIds == 1 .. Len(blocks)
Freed    == {freed[i].block : i \in DOMAIN freed}

Headers == [capacity : Nat, used : Nat, mem : Nat, next : Nat \cup {Garbage}]
Arenas  == [block_capacity : Nat, used : Nat, head : Nat, tail : Nat]
Spans   == [block : Nat, start : Nat, size : Nat]

(* The value of every variable is of the type its C declaration gives it.  *)
TypeOK ==
  /\ phase \in {"unborn", "live", "releasing", "released"}
  /\ blocks \in Seq(Headers)
  /\ arena \in Arenas
  /\ walk \in Nat \cup {Garbage}
  /\ freed \in Seq([block : Int, at : Int])
  /\ grants \in Seq(Spans)

(* What jsonAlloc returns lies inside one chunk that malloc returned, from *)
(* first byte to last, however the three paths of jsonAlloc alternate.     *)
GrantsInBounds ==
  \A i \in DOMAIN grants :
    LET g == grants[i]
    IN  /\ g.block \in BlockIds
        /\ g.start + g.size <= blocks[g.block].capacity

(* No byte is handed out twice: two results of jsonAlloc never overlap.    *)
GrantsDisjoint ==
  \A i, j \in DOMAIN grants :
    i # j /\ grants[i].block = grants[j].block =>
      \/ grants[i].start + grants[i].size <= grants[j].start
      \/ grants[j].start + grants[j].size <= grants[i].start

(* "Allocate aligned memory only": every result is a multiple of Alignment *)
(* from a chunk's start, whatever unaligned sizes were asked for before.   *)
GrantsAligned == \A i \in DOMAIN grants : grants[i].start % Alignment = 0

(* jsonAllocatorBlockRelease recovers the pointer malloc returned: mem -   *)
(* used is the start of the chunk for bumped and for oversized blocks.     *)
FreesExact == \A i \in DOMAIN freed : freed[i].at = 0

(* The release loop frees every block once: none is lost from the used     *)
(* list, none is on it twice, and it never follows an unset `next'.        *)
EachBlockFreedOnce ==
  /\ walk # Garbage
  /\ \A i, j \in DOMAIN freed : i # j => freed[i].block # freed[j].block
  /\ phase = "released" => Freed = BlockIds

(* Why the above hold; inductive.  The active block always fits unsigned   *)
(* arithmetic, every other block hangs off the used list, whose pointers   *)
(* are all set, and no grant reaches past the active block's bump pointer. *)
BlocksInv ==
  \A b \in BlockIds :
    blocks[b].mem = blocks[b].used /\ blocks[b].used <= blocks[b].capacity

UsedIds == BlockIds \ {arena.head}

HeadInv ==
  /\ arena.head \in BlockIds
  /\ arena.block_capacity = AlignUp(Capacity)
  /\ blocks[arena.head].capacity <= Capacity + Alignment

ChainInv ==
  /\ arena.tail \in UsedIds \cup {NULL}
  /\ \A b \in UsedIds : blocks[b].next \in UsedIds \cup {NULL}
  /\ phase = "releasing" => walk \in UsedIds \cup {NULL}

GrantsInv ==
  \A i \in DOMAIN grants :
    LET g == grants[i]
    IN  /\ g.block \in BlockIds
        /\ g.start + g.size <= blocks[g.block].capacity
        /\ g.block = arena.head => g.start + g.size <= blocks[g.block].used

Shape ==
  /\ phase = "unborn" => blocks = << >> /\ grants = << >> /\ freed = << >>
  /\ phase # "unborn" => HeadInv /\ ChainInv
  /\ BlocksInv

ArenaInv == Shape /\ GrantsInv

(* The comment in jsonAlloc: what is larger than a block "simply" gets an  *)
(* allocation of its own, of at least the size asked for.                  *)
OversizedGetsItsOwnBlock ==
  \A i \in DOMAIN grants :
    grants[i].size > arena.block_capacity =>
      /\ grants[i].start = 0
      /\ blocks[grants[i].block].capacity >= grants[i].size

(* The arena implements JsonRegions: its regions are the grants until      *)
(* release begins, its chunks the blocks not yet freed.                    *)
Regions ==
  INSTANCE JsonRegions WITH
    chunks <- {[id |-> b, capacity |-> blocks[b].capacity] :
                 b \in BlockIds \ Freed},
    live   <- IF phase = "live" THEN {grants[i] : i \in DOMAIN grants} ELSE {}

(* Every step of the arena is a step of JsonRegions or a stutter: regions  *)
(* stay apart and valid until the release, which returns every chunk.      *)
ImplementsRegions == Regions!Spec

(* jsonRelease returns: the walk along `next' always reaches NULL.         *)
ReleaseTerminates == phase = "releasing" ~> phase = "released"
=============================================================================
