--------------------------- MODULE JsonArenaProof ---------------------------
(***************************************************************************)
(* Proofs about JsonArena, for every block size, alignment, set of sizes   *)
(* and number of calls: what jsonAlloc hands out, and then that the        *)
(* release gives every block back exactly once, and that until then the    *)
(* arena is what JsonRegions promises.  The lemmas about one step ask of   *)
(* the size of a call only that it is a number, so that a caller with      *)
(* sizes of its own can use them.                                          *)
(***************************************************************************)
EXTENDS JsonArena, TLAPS

(* Rounding up never adds as much as Alignment.                            *)
LEMMA AlignUpBound ==
  ASSUME NEW size \in Nat
  PROVE  AlignUp(size) \in Nat /\ AlignUp(size) <= size + (Alignment - 1)
PROOF
  <1>1. Alignment \in Nat /\ Alignment > 0 /\ UIntMod \in Nat /\ UIntMod > 0
    BY ArenaAssumption
  <1> DEFINE sum == (size + (Alignment - 1)) % UIntMod
  <1>2. sum \in Nat /\ sum <= size + (Alignment - 1)
    BY <1>1
  <1> HIDE DEF sum
  <1>3. sum % Alignment \in Nat /\ sum % Alignment <= sum
    BY <1>1, <1>2
  <1> QED
    BY <1>1, <1>2, <1>3 DEF AlignUp, sum

(* Rounding up a size that does not wrap covers it.                        *)
LEMMA AlignUpCovers ==
  ASSUME NEW size \in Nat, size + (Alignment - 1) < UIntMod
  PROVE  AlignUp(size) >= size
PROOF
  <1>1. Alignment \in Nat /\ Alignment > 0 /\ UIntMod \in Nat /\ UIntMod > 0
    BY ArenaAssumption
  <1> DEFINE sum == (size + (Alignment - 1)) % UIntMod
  <1>2. sum = size + (Alignment - 1)
    BY <1>1
  <1> HIDE DEF sum
  <1>3. sum % Alignment \in Nat /\ sum % Alignment <= Alignment - 1
    BY <1>1, <1>2
  <1> QED
    BY <1>1, <1>2, <1>3 DEF AlignUp, sum

(* What the type of `blocks' says of one of them.                          *)
LEMMA BlockTyped ==
  ASSUME TypeOK, NEW b \in BlockIds
  PROVE  b \in DOMAIN blocks /\ blocks[b] \in Headers
PROOF
  <1>1. blocks \in Seq(Headers)
    BY DEF TypeOK
  <1> QED
    BY <1>1 DEF BlockIds

(* What Bump does to a block.                                              *)
LEMMA BumpTyped ==
  ASSUME NEW b \in Headers, NEW size \in Nat
  PROVE  /\ Bump(b, size) \in Headers
         /\ Bump(b, size).capacity = b.capacity
         /\ Bump(b, size).next = b.next
         /\ Bump(b, size).used = b.used + size
         /\ Bump(b, size).mem = b.mem + size
PROOF
  <1> DEFINE c == [b EXCEPT !.used = @ + size]
  <1>1. /\ c \in Headers /\ c.capacity = b.capacity /\ c.next = b.next
        /\ c.mem = b.mem /\ c.used = b.used + size
    BY DEF Headers
  <1>2. Bump(b, size) = [c EXCEPT !.mem = @ + size]
    BY Zenon DEF Bump
  <1> HIDE DEF c
  <1> QED
    BY <1>1, <1>2 DEF Headers

(* What is below the modulus does not wrap.                                *)
LEMMA SmallModulo ==
  ASSUME NEW n \in Nat, NEW m \in Nat, n < m
  PROVE  n % m = n
PROOF
  OBVIOUS

(* A request that passes the oversized test never wraps the active block's *)
(* counter, so what HeadIsFull compares is the true sum.                   *)
LEMMA HeadDoesNotWrap ==
  ASSUME TypeOK, Shape, phase = "live",
         NEW size \in Nat, AlignUp(size) <= arena.block_capacity
  PROVE  /\ AlignUp(size) \in Nat
         /\ (blocks[arena.head].used + AlignUp(size)) % UIntMod
              = blocks[arena.head].used + AlignUp(size)
PROOF
  <1>1. /\ Alignment \in Nat /\ Alignment > 0 /\ Capacity \in Nat
        /\ UIntMod \in Nat /\ UIntMod > 2 * (Capacity + Alignment)
        /\ size \in Nat
    BY ArenaAssumption
  <1>2. /\ AlignUp(size) \in Nat
        /\ AlignUp(Capacity) \in Nat
        /\ AlignUp(Capacity) <= Capacity + (Alignment - 1)
    BY <1>1, AlignUpBound
  <1>3. /\ arena.head \in BlockIds
        /\ arena.block_capacity = AlignUp(Capacity)
        /\ blocks[arena.head].capacity <= Capacity + Alignment
        /\ blocks[arena.head].used <= blocks[arena.head].capacity
    BY DEF Shape, HeadInv, BlocksInv
  <1>4. /\ blocks[arena.head].used \in Nat
        /\ blocks[arena.head].capacity \in Nat
    BY <1>3, BlockTyped DEF Headers
  <1>5. /\ blocks[arena.head].used + AlignUp(size) \in Nat
        /\ blocks[arena.head].used + AlignUp(size) < UIntMod
    BY <1>1, <1>2, <1>3, <1>4
  <1>6. (blocks[arena.head].used + AlignUp(size)) % UIntMod
          = blocks[arena.head].used + AlignUp(size)
    BY <1>1, <1>5, SmallModulo
  <1> QED
    BY <1>2, <1>6

(* jsonAllocatorNew makes one block, and it is the head.                   *)
LEMMA NewTyped ==
  ASSUME TypeOK, Shape, jsonAllocatorNew
  PROVE  TypeOK' /\ Shape'
PROOF
  <1>1. /\ Alignment \in Nat /\ Alignment > 0 /\ Capacity \in Nat
        /\ AlignUp(Capacity) \in Nat
    BY ArenaAssumption, AlignUpBound
  <1>2. /\ blocks' = <<BlockNew(Capacity)>>
        /\ BlockNew(Capacity) \in Headers
        /\ BlockNew(Capacity).capacity = Capacity
        /\ BlockNew(Capacity).used = 0 /\ BlockNew(Capacity).mem = 0
    BY <1>1 DEF jsonAllocatorNew, BlockNew, Headers, Garbage
  <1>3. /\ blocks' \in Seq(Headers) /\ Len(blocks') = 1
        /\ blocks'[1] = BlockNew(Capacity) /\ BlockIds' = {1}
    BY <1>2 DEF BlockIds
  <1>4. /\ arena' = [block_capacity |-> AlignUp(Capacity), used |-> 0,
                     head |-> 1, tail |-> NULL]
        /\ phase' = "live" /\ walk' = walk
        /\ freed' = freed /\ grants' = grants
    BY DEF jsonAllocatorNew
  <1>5. TypeOK'
    BY <1>1, <1>3, <1>4 DEF TypeOK, Arenas, NULL
  <1>6. HeadInv'
    BY <1>1, <1>2, <1>3, <1>4 DEF HeadInv
  <1>7. ChainInv'
    BY <1>3, <1>4 DEF ChainInv, UsedIds
  <1>8. BlocksInv'
    BY <1>1, <1>2, <1>3 DEF BlocksInv
  <1> QED
    BY <1>4, <1>5, <1>6, <1>7, <1>8 DEF Shape

(* A chunk of its own goes on the used list; the head is not touched.      *)
LEMMA OversizedTyped ==
  ASSUME TypeOK, Shape, NEW size \in Nat, phase = "live",
         AllocOversized(size), UNCHANGED <<phase, walk, freed>>
  PROVE  TypeOK' /\ Shape'
PROOF
  <1> DEFINE new == Len(blocks) + 1
             b == [BlockNew(AlignUp(size)) EXCEPT !.next = arena.tail]
  <1>1. /\ size \in Nat /\ AlignUp(size) \in Nat
        /\ UIntMod \in Nat /\ UIntMod > 0
    BY ArenaAssumption, AlignUpBound
  <1>2. /\ HeadInv /\ ChainInv /\ BlocksInv
        /\ blocks \in Seq(Headers) /\ Len(blocks) \in Nat
        /\ arena \in Arenas
    BY DEF Shape, TypeOK
  <1>3. /\ b \in Headers /\ b.capacity = AlignUp(size) /\ b.used = 0
        /\ b.mem = 0 /\ b.next = arena.tail
    BY <1>1, <1>2 DEF BlockNew, Headers, Arenas
  <1>4. /\ blocks' = Append(blocks, b)
        /\ arena' = [arena EXCEPT !.used = CountUsed(arena, size), !.tail = new]
        /\ grants' = Append(grants, [block |-> new, start |-> 0, size |-> size])
    BY DEF AllocOversized, Grant
  <1> HIDE DEF b
  <1>5. /\ blocks' \in Seq(Headers) /\ Len(blocks') = new
        /\ blocks'[new] = b /\ \A i \in BlockIds : blocks'[i] = blocks[i]
        /\ BlockIds' = BlockIds \cup {new} /\ new \notin BlockIds
    BY <1>2, <1>3, <1>4 DEF BlockIds
  <1>6. CountUsed(arena, size) \in Nat
    BY <1>1, <1>2 DEF CountUsed, Arenas
  <1>7. /\ arena' \in Arenas
        /\ arena'.head = arena.head /\ arena'.tail = new
        /\ arena'.block_capacity = arena.block_capacity
    <2> DEFINE a == [arena EXCEPT !.used = CountUsed(arena, size)]
    <2>1. a \in Arenas /\ a.head = arena.head
          /\ a.block_capacity = arena.block_capacity
      BY <1>2, <1>6 DEF Arenas
    <2>2. arena' = [a EXCEPT !.tail = new] /\ new \in Nat
      BY <1>2, <1>4
    <2> HIDE DEF a, new
    <2> QED
      BY <2>1, <2>2 DEF Arenas
  <1>8. grants' \in Seq(Spans)
    BY <1>1, <1>2, <1>4 DEF TypeOK, Spans
  <1>9. TypeOK'
    BY <1>5, <1>7, <1>8 DEF TypeOK
  <1>10. HeadInv'
    BY <1>2, <1>5, <1>7 DEF HeadInv
  <1>11. UsedIds' = UsedIds \cup {new}
    BY <1>2, <1>5, <1>7 DEF UsedIds, HeadInv
  <1>12. ChainInv'
    BY <1>2, <1>3, <1>5, <1>7, <1>11 DEF ChainInv, UsedIds
  <1>13. BlocksInv'
    BY <1>1, <1>2, <1>3, <1>5 DEF BlocksInv
  <1> QED
    BY <1>9, <1>10, <1>12, <1>13 DEF Shape

(* Bumping the head keeps it within its capacity: the sum did not wrap and *)
(* HeadIsFull was false of it.                                             *)
LEMMA InHeadTyped ==
  ASSUME TypeOK, Shape, NEW size \in Nat, phase = "live",
         AllocInHead(size), UNCHANGED <<phase, walk, freed>>
  PROVE  TypeOK' /\ Shape'
PROOF
  <1> DEFINE h == arena.head
             b == Bump(blocks[h], AlignUp(size))
  <1>1. /\ size \in Nat /\ AlignUp(size) \in Nat
        /\ UIntMod \in Nat /\ UIntMod > 0
    BY ArenaAssumption, AlignUpBound
  <1>2. /\ HeadInv /\ ChainInv /\ BlocksInv
        /\ blocks \in Seq(Headers) /\ h \in BlockIds
        /\ blocks[h] \in Headers /\ arena \in Arenas
        /\ blocks[h].mem = blocks[h].used
    BY BlockTyped DEF Shape, TypeOK, HeadInv, BlocksInv
  <1>3. blocks[h].used + AlignUp(size) < blocks[h].capacity
    <2>1. AlignUp(size) <= arena.block_capacity /\ ~HeadIsFull(size)
      BY DEF AllocInHead
    <2>2. (blocks[h].used + AlignUp(size)) % UIntMod
            = blocks[h].used + AlignUp(size)
      BY <2>1, HeadDoesNotWrap
    <2> QED
      BY <1>1, <1>2, <2>1, <2>2 DEF HeadIsFull, Headers
  <1>4. /\ b \in Headers /\ b.capacity = blocks[h].capacity
        /\ b.next = blocks[h].next
        /\ b.used = blocks[h].used + AlignUp(size)
        /\ b.mem = blocks[h].mem + AlignUp(size)
    BY <1>1, <1>2, BumpTyped
  <1>5. /\ blocks' = [blocks EXCEPT ![h] = b]
        /\ arena' = [arena EXCEPT !.used = CountUsed(arena, size)]
        /\ grants' = Append(grants, [block |-> h, start |-> blocks[h].mem,
                                     size |-> size])
    BY DEF AllocInHead, Grant
  <1> HIDE DEF b, h
  <1>6. /\ blocks' \in Seq(Headers) /\ BlockIds' = BlockIds
        /\ blocks'[h] = b
        /\ \A i \in BlockIds \ {h} : blocks'[i] = blocks[i]
    BY <1>2, <1>4, <1>5 DEF BlockIds
  <1>7. /\ arena' \in Arenas /\ arena'.head = h /\ arena'.tail = arena.tail
        /\ arena'.block_capacity = arena.block_capacity
    <2>1. CountUsed(arena, size) \in Nat
      BY <1>1, <1>2 DEF CountUsed, Arenas
    <2> QED
      BY <1>2, <1>5, <2>1 DEF Arenas, h
  <1>8. grants' \in Seq(Spans)
    <2>1. [block |-> h, start |-> blocks[h].mem, size |-> size] \in Spans
      BY <1>1, <1>2 DEF Spans, Headers, BlockIds
    <2> QED
      BY <1>5, <2>1 DEF TypeOK
  <1>9. TypeOK'
    BY <1>6, <1>7, <1>8 DEF TypeOK
  <1>10. HeadInv'
    BY <1>2, <1>4, <1>6, <1>7 DEF HeadInv, h
  <1>11. ChainInv'
    BY <1>2, <1>6, <1>7 DEF ChainInv, UsedIds, h
  <1>12. BlocksInv'
    <2>1. /\ b.mem = b.used /\ b.used <= b.capacity
      BY <1>1, <1>2, <1>3, <1>4 DEF Headers
    <2> QED
      BY <1>2, <1>6, <2>1 DEF BlocksInv
  <1> QED
    BY <1>9, <1>10, <1>11, <1>12 DEF Shape

(* The full head goes on the used list with its `next' set, and the block  *)
(* that replaces it is new.                                                *)
LEMMA InNewHeadTyped ==
  ASSUME TypeOK, Shape, NEW size \in Nat, phase = "live",
         AllocInNewHead(size), UNCHANGED <<phase, walk, freed>>
  PROVE  TypeOK' /\ Shape'
PROOF
  <1> DEFINE h == arena.head
             new == Len(blocks) + 1
             old == [blocks[h] EXCEPT !.next = arena.tail]
             b == Bump(BlockNew(arena.block_capacity), AlignUp(size))
  <1>1. /\ size \in Nat /\ AlignUp(size) \in Nat
        /\ UIntMod \in Nat /\ UIntMod > 0
        /\ Alignment \in Nat /\ Capacity \in Nat
        /\ AlignUp(Capacity) \in Nat
        /\ AlignUp(Capacity) <= Capacity + (Alignment - 1)
    BY ArenaAssumption, AlignUpBound
  <1>2. /\ HeadInv /\ ChainInv /\ BlocksInv
        /\ blocks \in Seq(Headers) /\ Len(blocks) \in Nat
        /\ h \in BlockIds /\ blocks[h] \in Headers /\ arena \in Arenas
    BY BlockTyped DEF Shape, TypeOK, HeadInv
  <1>3. /\ b \in Headers /\ b.capacity = arena.block_capacity
        /\ b.used = AlignUp(size) /\ b.mem = AlignUp(size)
    <2> DEFINE c == BlockNew(arena.block_capacity)
    <2>1. /\ c \in Headers /\ c.capacity = arena.block_capacity
          /\ c.used = 0 /\ c.mem = 0
      BY <1>2 DEF BlockNew, Headers, Arenas, Garbage
    <2>2. b = Bump(c, AlignUp(size))
      OBVIOUS
    <2> HIDE DEF b, c
    <2> QED
      <3>1. /\ b \in Headers /\ b.capacity = c.capacity
            /\ b.used = c.used + AlignUp(size) /\ b.mem = c.mem + AlignUp(size)
        BY <1>1, <2>1, <2>2, BumpTyped
      <3> QED
        BY <1>1, <2>1, <3>1
  <1>4. /\ old \in Headers /\ old.capacity = blocks[h].capacity
        /\ old.used = blocks[h].used /\ old.mem = blocks[h].mem
        /\ old.next = arena.tail
    BY <1>2 DEF Headers, Arenas
  <1>5. /\ AlignUp(size) <= arena.block_capacity
        /\ blocks' = Append([blocks EXCEPT ![h] = old], b)
        /\ arena' = [arena EXCEPT !.used = CountUsed(arena, size),
                                  !.tail = h, !.head = new]
        /\ grants' = Append(grants, [block |-> new, start |-> 0, size |-> size])
    BY Zenon DEF AllocInNewHead, Grant
  <1> HIDE DEF b, old, h
  <1>6. /\ blocks' \in Seq(Headers) /\ BlockIds' = BlockIds \cup {new}
        /\ new \notin BlockIds /\ blocks'[new] = b /\ blocks'[h] = old
        /\ \A i \in BlockIds \ {h} : blocks'[i] = blocks[i]
    <2> DEFINE s == [blocks EXCEPT ![h] = old]
    <2>1. /\ s \in Seq(Headers) /\ Len(s) = Len(blocks) /\ s[h] = old
          /\ \A i \in BlockIds \ {h} : s[i] = blocks[i]
      BY <1>2, <1>4 DEF BlockIds
    <2>2. blocks' = Append(s, b)
      BY <1>5
    <2> HIDE DEF s
    <2>3. /\ blocks' \in Seq(Headers) /\ Len(blocks') = new /\ blocks'[new] = b
          /\ \A i \in BlockIds : blocks'[i] = s[i]
      <3>1. b \in Headers /\ s \in Seq(Headers) /\ Len(s) = Len(blocks)
        BY <1>3, <2>1
      <3> QED
        BY <2>2, <3>1 DEF BlockIds
    <2>4. BlockIds' = BlockIds \cup {new} /\ new \notin BlockIds
      BY <1>2, <2>3 DEF BlockIds
    <2> QED
      BY <1>2, <2>1, <2>3, <2>4
  <1>7. CountUsed(arena, size) \in Nat
    BY <1>1, <1>2 DEF CountUsed, Arenas
  <1>8. /\ arena' \in Arenas /\ arena'.head = new /\ arena'.tail = h
        /\ arena'.block_capacity = arena.block_capacity
    <2> DEFINE a == [arena EXCEPT !.used = CountUsed(arena, size)]
               c == [a EXCEPT !.tail = h]
    <2>1. a \in Arenas /\ a.block_capacity = arena.block_capacity
      BY <1>2, <1>7 DEF Arenas
    <2>2. arena' = [c EXCEPT !.head = new] /\ new \in Nat /\ h \in Nat
      BY <1>2, <1>5 DEF BlockIds
    <2> HIDE DEF a, new
    <2>3. c \in Arenas /\ c.block_capacity = arena.block_capacity /\ c.tail = h
      BY <2>1, <2>2 DEF Arenas
    <2> HIDE DEF c
    <2> QED
      BY <2>2, <2>3 DEF Arenas
  <1>9. grants' \in Seq(Spans)
    BY <1>1, <1>2, <1>5 DEF TypeOK, Spans
  <1>10. TypeOK'
    BY <1>6, <1>8, <1>9 DEF TypeOK
  <1>11. HeadInv'
    BY <1>1, <1>2, <1>3, <1>6, <1>8 DEF HeadInv
  <1>12. UsedIds' = BlockIds
    BY <1>6, <1>8 DEF UsedIds
  <1>13. ChainInv'
    BY <1>2, <1>4, <1>6, <1>8, <1>12 DEF ChainInv, UsedIds, h
  <1>14. BlocksInv'
    <2> SUFFICES ASSUME NEW i \in BlockIds'
                 PROVE  /\ blocks'[i].mem = blocks'[i].used
                        /\ blocks'[i].used <= blocks'[i].capacity
      BY DEF BlocksInv
    <2>1. CASE i = new
      BY <1>3, <1>5, <1>6, <2>1
    <2>2. CASE i = h
      BY <1>2, <1>4, <1>6, <2>2 DEF BlocksInv
    <2>3. CASE i \in BlockIds \ {h}
      BY <1>2, <1>6, <2>3 DEF BlocksInv
    <2> QED
      BY <1>6, <2>1, <2>2, <2>3
  <1> QED
    BY <1>10, <1>11, <1>13, <1>14 DEF Shape

(* Releasing moves along the used list only, and writes no block.          *)
LEMMA ReleaseTyped ==
  ASSUME TypeOK, Shape, jsonAllocatorRelease
  PROVE  TypeOK' /\ Shape'
PROOF
  <1>1. CASE ReleaseHead
    <2>1. /\ phase = "live" /\ phase' = "releasing" /\ walk' = arena.tail
          /\ blocks' = blocks /\ arena' = arena /\ grants' = grants
          /\ HeadInv /\ ChainInv /\ BlocksInv /\ arena \in Arenas
      BY <1>1 DEF ReleaseHead, Shape, TypeOK
    <2>2. /\ arena.head \in BlockIds /\ blocks[arena.head] \in Headers
      BY <2>1, BlockTyped DEF HeadInv
    <2>3. freed' \in Seq([block : Int, at : Int])
      <3> DEFINE f == [block |-> arena.head,
                       at |-> blocks[arena.head].mem - blocks[arena.head].used]
      <3>1. f \in [block : Int, at : Int]
        BY <2>1, <2>2 DEF Headers, Arenas
      <3>2. freed' = Append(freed, f)
        BY <1>1 DEF ReleaseHead, FreeBlock
      <3> HIDE DEF f
      <3> QED
        BY <3>1, <3>2 DEF TypeOK
    <2>4. TypeOK'
      BY <2>1, <2>3 DEF TypeOK, Arenas
    <2>5. HeadInv' /\ ChainInv' /\ BlocksInv'
      BY <2>1 DEF HeadInv, ChainInv, BlocksInv, UsedIds, BlockIds
    <2> QED
      BY <2>1, <2>4, <2>5 DEF Shape
  <1>2. CASE ReleaseNext
    <2>1. /\ phase = "releasing" /\ phase' = phase /\ walk # NULL
          /\ walk' = blocks[walk].next
          /\ blocks' = blocks /\ arena' = arena /\ grants' = grants
          /\ HeadInv /\ ChainInv /\ BlocksInv
      BY <1>2 DEF ReleaseNext, Shape
    <2>2. /\ walk \in UsedIds /\ walk \in BlockIds /\ blocks[walk] \in Headers
      BY <2>1, BlockTyped DEF ChainInv, UsedIds
    <2>3. freed' \in Seq([block : Int, at : Int])
      <3> DEFINE f == [block |-> walk,
                       at |-> blocks[walk].mem - blocks[walk].used]
      <3>1. f \in [block : Int, at : Int]
        BY <2>2 DEF Headers, BlockIds
      <3>2. freed' = Append(freed, f)
        BY <1>2 DEF ReleaseNext, FreeBlock
      <3> HIDE DEF f
      <3> QED
        BY <3>1, <3>2 DEF TypeOK
    <2>4. walk' \in Nat \cup {Garbage} /\ walk' \in UsedIds \cup {NULL}
      BY <2>1, <2>2 DEF ChainInv, Headers
    <2>5. TypeOK'
      BY <2>1, <2>3, <2>4 DEF TypeOK
    <2>6. HeadInv' /\ ChainInv' /\ BlocksInv'
      BY <2>1, <2>4 DEF HeadInv, ChainInv, BlocksInv, UsedIds, BlockIds
    <2> QED
      BY <2>1, <2>5, <2>6 DEF Shape
  <1>3. CASE ReleaseDone
    BY <1>3 DEF ReleaseDone, TypeOK, Shape, HeadInv, ChainInv, BlocksInv,
                UsedIds, BlockIds
  <1> QED
    BY <1>1, <1>2, <1>3 DEF jsonAllocatorRelease

(* One call of the allocator, whatever the size it asks for.               *)
Call == jsonAllocatorNew \/ (\E size \in Nat : jsonAlloc(size)) \/ jsonAllocatorRelease

(* The steps of the specification are such calls.                          *)
LEMMA NextIsCall ==
  ASSUME [Next]_vars
  PROVE  [Call]_vars
PROOF
  <1>1. Sizes \subseteq Nat
    BY ArenaAssumption
  <1> QED
    BY <1>1 DEF Next, Call

(* Before jsonAllocatorNew everything is typed and there is no block.      *)
LEMMA InitTyped ==
  ASSUME Init
  PROVE  TypeOK /\ Shape
PROOF
  BY DEF Init, TypeOK, Shape, NoArena, Arenas, NULL, BlocksInv, BlockIds

(* A call keeps the types and the shape of the list of blocks.             *)
LEMMA CallTyped ==
  ASSUME TypeOK, Shape, [Call]_vars
  PROVE  TypeOK' /\ Shape'
PROOF
  <1>1. CASE jsonAllocatorNew
    BY <1>1, NewTyped
  <1>2. ASSUME NEW size \in Nat, jsonAlloc(size)
        PROVE  TypeOK' /\ Shape'
    BY <1>2, OversizedTyped, InHeadTyped, InNewHeadTyped DEF jsonAlloc
  <1>3. CASE jsonAllocatorRelease
    BY <1>3, ReleaseTyped
  <1>4. CASE UNCHANGED vars
    BY <1>4 DEF vars, TypeOK, Shape, HeadInv, ChainInv, BlocksInv,
                UsedIds, BlockIds
  <1> QED
    BY <1>1, <1>2, <1>3, <1>4 DEF Call

(* Every variable keeps the type its C declaration gives it, and the list  *)
(* of blocks keeps its shape, for every capacity, alignment and sizes, the *)
(* ones that wrap included.                                                *)
THEOREM Typing == Spec => [](TypeOK /\ Shape)
PROOF
  <1>1. Init => TypeOK /\ Shape
    BY InitTyped
  <1>2. TypeOK /\ Shape /\ [Next]_vars => TypeOK' /\ Shape'
    BY NextIsCall, CallTyped
  <1> QED
    BY <1>1, <1>2, PTL DEF Spec

(* The theorem above, of the type invariant alone.                         *)
THEOREM TypeCorrect == Spec => []TypeOK
PROOF
  <1>1. TypeOK /\ Shape => TypeOK
    OBVIOUS
  <1> QED
    BY <1>1, Typing, PTL

-----------------------------------------------------------------------------
(* Every free is given the very pointer malloc returned, because in every  *)
(* block, oversized ones included, mem is as far along as used says.       *)
THEOREM FreesAreExact == Spec => []FreesExact
PROOF
  <1>1. Init => FreesExact
    BY DEF Init, FreesExact
  <1>2. TypeOK /\ Shape /\ FreesExact /\ [Next]_vars => FreesExact'
    <2> SUFFICES ASSUME TypeOK, Shape, FreesExact, [Next]_vars
                 PROVE  FreesExact'
      OBVIOUS
    <2>1. ASSUME NEW b \in BlockIds, FreeBlock(b)
          PROVE  FreesExact'
      <3> DEFINE f == [block |-> b, at |-> blocks[b].mem - blocks[b].used]
      <3>1. blocks[b] \in Headers /\ blocks[b].mem = blocks[b].used
        BY BlockTyped DEF Shape, BlocksInv
      <3>2. f.at = 0
        BY <3>1 DEF Headers
      <3>3. freed' = Append(freed, f) /\ freed \in Seq([block : Int, at : Int])
        BY <2>1 DEF FreeBlock, TypeOK
      <3> HIDE DEF f
      <3> QED
        BY <3>2, <3>3 DEF FreesExact
    <2>2. CASE ReleaseHead
      BY <2>1, <2>2 DEF ReleaseHead, Shape, HeadInv
    <2>3. CASE ReleaseNext
      BY <2>1, <2>3 DEF ReleaseNext, Shape, ChainInv, UsedIds
    <2>4. CASE UNCHANGED freed
      BY <2>4 DEF FreesExact
    <2>5. jsonAllocatorNew \/ ReleaseDone => UNCHANGED freed
      BY DEF jsonAllocatorNew, ReleaseDone
    <2>6. (\E size \in Sizes : jsonAlloc(size)) => UNCHANGED freed
      BY DEF jsonAlloc
    <2> QED
      BY <2>2, <2>3, <2>4, <2>5, <2>6 DEF Next, jsonAllocatorRelease, vars
  <1> QED
    BY <1>1, <1>2, Typing, PTL DEF Spec

-----------------------------------------------------------------------------
(* Where a call of jsonAlloc puts its result, whichever path it takes: a   *)
(* span of a block that holds it, after everything that block already      *)
(* gave; no block loses capacity, and a head that stays keeps its spans.   *)
PlacedAt(g, size) ==
  /\ g \in Spans /\ g.size = size
  /\ grants' = Append(grants, g)
  /\ BlockIds \subseteq BlockIds'
  /\ \A b \in BlockIds : blocks'[b].capacity = blocks[b].capacity
  /\ g.block \in BlockIds'
  /\ g.start + g.size <= blocks'[g.block].capacity
  /\ g.block = arena'.head => g.start + g.size <= blocks'[g.block].used
  /\ g.block \in BlockIds => g.block = arena.head
                           /\ g.start = blocks[g.block].used
  /\ arena'.head \in BlockIds =>
       /\ arena'.head = arena.head
       /\ blocks'[arena.head].used >= blocks[arena.head].used

(* Each path of jsonAlloc places its result so, when its size does not     *)
(* wrap.                                                                   *)
LEMMA Placed ==
  ASSUME TypeOK, Shape, NEW size \in Nat, size + (Alignment - 1) < UIntMod,
         jsonAlloc(size)
  PROVE  \E g \in Spans : PlacedAt(g, size)
PROOF
  <1> DEFINE h == arena.head
             new == Len(blocks) + 1
  <1>1. /\ size \in Nat /\ AlignUp(size) \in Nat /\ AlignUp(size) >= size
        /\ Capacity \in Nat /\ AlignUp(Capacity) \in Nat
    BY ArenaAssumption, AlignUpBound, AlignUpCovers
  <1>2. /\ HeadInv /\ BlocksInv /\ blocks \in Seq(Headers)
        /\ Len(blocks) \in Nat /\ h \in BlockIds /\ blocks[h] \in Headers
        /\ blocks[h].mem = blocks[h].used /\ phase = "live"
        /\ arena \in Arenas /\ grants \in Seq(Spans)
    BY BlockTyped DEF Shape, TypeOK, HeadInv, BlocksInv, jsonAlloc
  <1>3. CASE AllocOversized(size)
    <2> DEFINE b == [BlockNew(AlignUp(size)) EXCEPT !.next = arena.tail]
               g == [block |-> new, start |-> 0, size |-> size]
    <2>1. b \in Headers /\ b.capacity = AlignUp(size)
      BY <1>1, <1>2 DEF BlockNew, Headers, Arenas
    <2>2. blocks' = Append(blocks, b) /\ grants' = Append(grants, g)
      BY <1>3 DEF AllocOversized, Grant
    <2>3. arena'.head = h
      BY <1>2, <1>3, Zenon DEF AllocOversized, Arenas
    <2>4. g \in Spans /\ g.block = new /\ g.start = 0 /\ g.size = size
      BY <1>1, <1>2 DEF Spans
    <2> HIDE DEF b, g
    <2>5. /\ BlockIds' = BlockIds \cup {new} /\ new \notin BlockIds
          /\ blocks'[new] = b /\ \A i \in BlockIds : blocks'[i] = blocks[i]
      BY <1>2, <2>1, <2>2 DEF BlockIds
    <2>6. PlacedAt(g, size)
      <3>1. /\ 0 + size <= AlignUp(size) /\ blocks[h].used \in Nat
            /\ blocks[h].used >= blocks[h].used
        BY <1>1, <1>2 DEF Headers
      <3> QED
        BY <1>2, <2>1, <2>2, <2>3, <2>4, <2>5, <3>1 DEF PlacedAt
    <2> QED
      BY <2>4, <2>6
  <1>4. CASE AllocInHead(size)
    <2> DEFINE b == Bump(blocks[h], AlignUp(size))
               g == [block |-> h, start |-> blocks[h].mem, size |-> size]
    <2>1. /\ b.capacity = blocks[h].capacity
          /\ b.used = blocks[h].used + AlignUp(size)
          /\ b \in Headers
      BY <1>1, <1>2, BumpTyped
    <2>2. blocks[h].used + AlignUp(size) < blocks[h].capacity
      <3>1. AlignUp(size) <= arena.block_capacity /\ ~HeadIsFull(size)
        BY <1>4 DEF AllocInHead
      <3>2. (blocks[h].used + AlignUp(size)) % UIntMod
              = blocks[h].used + AlignUp(size)
        BY <1>2, <3>1, HeadDoesNotWrap
      <3> QED
        BY <1>1, <1>2, <3>1, <3>2 DEF HeadIsFull, Headers
    <2>3. blocks' = [blocks EXCEPT ![h] = b] /\ grants' = Append(grants, g)
      BY <1>4 DEF AllocInHead, Grant
    <2>4. arena'.head = h
      BY <1>2, <1>4 DEF AllocInHead, Arenas
    <2>5. /\ g \in Spans /\ g.block = h /\ g.start = blocks[h].used
          /\ g.size = size
      BY <1>1, <1>2 DEF Spans, Headers, BlockIds
    <2> HIDE DEF b, g, h
    <2>6. /\ BlockIds' = BlockIds /\ blocks'[h] = b
          /\ \A i \in BlockIds \ {h} : blocks'[i] = blocks[i]
      BY <1>2, <2>1, <2>3 DEF BlockIds
    <2>7. PlacedAt(g, size)
      <3>1. \A i \in BlockIds : blocks'[i].capacity = blocks[i].capacity
        BY <2>1, <2>6
      <3>2. /\ blocks[h].used + size <= blocks'[h].capacity
            /\ blocks[h].used + size <= blocks'[h].used
            /\ blocks'[h].used >= blocks[h].used
        <4>1. blocks[h].used \in Nat /\ blocks[h].capacity \in Nat
          BY <1>2 DEF Headers
        <4> QED
          BY <1>1, <2>1, <2>2, <2>6, <4>1
      <3> QED
        BY <1>2, <2>3, <2>4, <2>5, <2>6, <3>1, <3>2 DEF PlacedAt, h
    <2> QED
      BY <2>5, <2>7
  <1>5. CASE AllocInNewHead(size)
    <2> DEFINE b == Bump(BlockNew(arena.block_capacity), AlignUp(size))
               old == [blocks[h] EXCEPT !.next = arena.tail]
               s == [blocks EXCEPT ![h] = old]
               g == [block |-> new, start |-> 0, size |-> size]
    <2>1. /\ b \in Headers /\ b.capacity = arena.block_capacity
          /\ b.used = AlignUp(size)
      <3> DEFINE c == BlockNew(arena.block_capacity)
      <3>1. /\ c \in Headers /\ c.capacity = arena.block_capacity
            /\ c.used = 0 /\ c.mem = 0
        BY <1>2 DEF BlockNew, Headers, Arenas, Garbage
      <3>2. b = Bump(c, AlignUp(size))
        OBVIOUS
      <3> HIDE DEF b, c
      <3>3. /\ b \in Headers /\ b.capacity = c.capacity
            /\ b.used = c.used + AlignUp(size)
        BY <1>1, <3>1, <3>2, BumpTyped
      <3> QED
        BY <1>1, <3>1, <3>3
    <2>2. old \in Headers /\ old.capacity = blocks[h].capacity
      BY <1>2 DEF Headers, Arenas
    <2>3. /\ AlignUp(size) <= arena.block_capacity
          /\ blocks' = Append(s, b) /\ grants' = Append(grants, g)
      BY <1>5, Zenon DEF AllocInNewHead, Grant
    <2>4. arena'.head = new
      BY <1>2, <1>5, Zenon DEF AllocInNewHead, Arenas
    <2>5. g \in Spans /\ g.block = new /\ g.start = 0 /\ g.size = size
      BY <1>1, <1>2 DEF Spans
    <2> HIDE DEF b, old, g, h
    <2>6. /\ s \in Seq(Headers) /\ Len(s) = Len(blocks)
          /\ \A i \in BlockIds : s[i].capacity = blocks[i].capacity
      BY <1>2, <2>2 DEF BlockIds
    <2> HIDE DEF s
    <2>7. /\ Len(blocks') = new /\ blocks'[new] = b
          /\ \A i \in BlockIds : blocks'[i] = s[i]
      BY <1>2, <2>1, <2>3, <2>6 DEF BlockIds
    <2>8. BlockIds' = BlockIds \cup {new} /\ new \notin BlockIds
      BY <1>2, <2>7 DEF BlockIds
    <2>9. PlacedAt(g, size)
      <3>1. /\ size <= AlignUp(size) /\ size <= arena.block_capacity
            /\ 0 + size = size
        BY <1>1, <1>2, <2>3 DEF Arenas
      <3> QED
        BY <2>1, <2>3, <2>4, <2>5, <2>6, <2>7, <2>8, <3>1 DEF PlacedAt
    <2> QED
      BY <2>5, <2>9
  <1> QED
    BY <1>3, <1>4, <1>5 DEF jsonAlloc

(* What a call leaves of the spans handed out before it.                   *)
LEMMA PlacedKeepsGrants ==
  ASSUME TypeOK, Shape, TypeOK', phase = "live", GrantsInv,
         NEW size, NEW g \in Spans, PlacedAt(g, size)
  PROVE  GrantsInv'
PROOF
  <1>1. /\ grants \in Seq(Spans) /\ grants' = Append(grants, g)
        /\ HeadInv /\ BlocksInv
    BY DEF TypeOK, Shape, PlacedAt
  <1>2. /\ DOMAIN grants' = DOMAIN grants \cup {Len(grants) + 1}
        /\ grants'[Len(grants) + 1] = g
        /\ \A i \in DOMAIN grants : grants'[i] = grants[i]
        /\ \A i \in DOMAIN grants : grants[i] \in Spans
    BY <1>1
  <1>3. SUFFICES ASSUME NEW i \in DOMAIN grants'
        PROVE  LET k == grants'[i]
               IN  /\ k.block \in BlockIds'
                   /\ k.start + k.size <= blocks'[k.block].capacity
                   /\ k.block = arena'.head =>
                        k.start + k.size <= blocks'[k.block].used
    BY DEF GrantsInv
  <1>4. \A b \in BlockIds' : blocks'[b] \in Headers
    BY DEF TypeOK, BlockIds
  <1>5. CASE i = Len(grants) + 1
    BY <1>2, <1>5 DEF PlacedAt
  <1>6. CASE i \in DOMAIN grants
    <2> DEFINE k == grants[i]
    <2>1. /\ k.block \in BlockIds /\ k.start + k.size \in Nat
          /\ k.start + k.size <= blocks[k.block].capacity
          /\ k.block = arena.head => k.start + k.size <= blocks[k.block].used
      BY <1>2, <1>6 DEF GrantsInv, Spans
    <2>2. blocks[arena.head].used \in Nat
      BY <1>1, BlockTyped DEF HeadInv, Headers
    <2>3. grants'[i] = k
      BY <1>2, <1>6
    <2> HIDE DEF k
    <2>4. /\ k.block \in BlockIds'
          /\ k.start + k.size <= blocks'[k.block].capacity
      BY <2>1 DEF PlacedAt
    <2>5. ASSUME k.block = arena'.head
          PROVE  k.start + k.size <= blocks'[k.block].used
      <3>1. /\ k.block = arena.head
            /\ blocks'[k.block].used >= blocks[k.block].used
        BY <2>1, <2>5 DEF PlacedAt
      <3>2. blocks'[k.block].used \in Nat
        BY <1>4, <2>4 DEF Headers
      <3> QED
        BY <2>1, <2>2, <3>1, <3>2
    <2> QED
      BY <2>3, <2>4, <2>5
  <1> QED
    BY <1>2, <1>5, <1>6

(* A call whose size does not wrap leaves every span in its block, its own *)
(* included.                                                               *)
LEMMA AllocKeepsGrants ==
  ASSUME TypeOK, Shape, TypeOK', GrantsInv,
         NEW size \in Nat, size + (Alignment - 1) < UIntMod, jsonAlloc(size)
  PROVE  GrantsInv'
PROOF
  <1>1. PICK g \in Spans : PlacedAt(g, size)
    BY Placed
  <1>2. phase = "live"
    BY DEF jsonAlloc
  <1> QED
    BY <1>1, <1>2, PlacedKeepsGrants

(* No other step grants a span or takes capacity from a block.             *)
LEMMA OthersKeepGrants ==
  ASSUME Shape, GrantsInv,
         jsonAllocatorNew \/ jsonAllocatorRelease \/ UNCHANGED vars
  PROVE  GrantsInv'
PROOF
  <1>1. CASE jsonAllocatorNew
    <2>1. grants = << >> /\ grants' = grants
      BY <1>1 DEF jsonAllocatorNew, Shape
    <2> QED
      BY <2>1 DEF GrantsInv
  <1>2. CASE jsonAllocatorRelease
    BY <1>2 DEF jsonAllocatorRelease, ReleaseHead, ReleaseNext, ReleaseDone,
                GrantsInv, BlockIds
  <1>3. CASE UNCHANGED vars
    BY <1>3 DEF vars, GrantsInv, BlockIds
  <1> QED
    BY <1>1, <1>2, <1>3

(* Of the sizes of the specification none wraps, when they fit.            *)
LEMMA FittingSize ==
  ASSUME SizesFit, NEW size \in Sizes
  PROVE  size \in Nat /\ size + (Alignment - 1) < UIntMod
PROOF
  BY ArenaAssumption DEF SizesFit

(* A span lies inside the block it was granted from, and no span reaches   *)
(* past the bump pointer of the block in use.                              *)
THEOREM GrantsHeld ==
  ASSUME SizesFit
  PROVE  Spec => []GrantsInv
PROOF
  <1>1. Init => GrantsInv
    BY DEF Init, GrantsInv
  <1>2. TypeOK /\ Shape /\ TypeOK' /\ GrantsInv /\ [Next]_vars => GrantsInv'
    <2> SUFFICES ASSUME TypeOK, Shape, TypeOK', GrantsInv, [Next]_vars
                 PROVE  GrantsInv'
      OBVIOUS
    <2>1. ASSUME NEW size \in Sizes, jsonAlloc(size)
          PROVE  GrantsInv'
      BY <2>1, FittingSize, AllocKeepsGrants
    <2> QED
      BY <2>1, OthersKeepGrants DEF Next
  <1> QED
    BY <1>1, <1>2, Typing, PTL DEF Spec

(* No result of jsonAlloc reaches past the chunk it lies in, for every     *)
(* block size, alignment, sequence of sizes and number of calls, as long   *)
(* as no size wraps when it is rounded up.                                 *)
THEOREM InBounds ==
  ASSUME SizesFit
  PROVE  Spec => []GrantsInBounds
PROOF
  <1>1. GrantsInv => GrantsInBounds
    BY DEF GrantsInv, GrantsInBounds
  <1> QED
    BY <1>1, GrantsHeld, PTL

(* A span that is placed overlaps none that was granted before.            *)
LEMMA AllocKeepsDisjoint ==
  ASSUME TypeOK, Shape, GrantsInv, GrantsDisjoint,
         NEW size \in Nat, size + (Alignment - 1) < UIntMod, jsonAlloc(size)
  PROVE  GrantsDisjoint'
PROOF
  <1>1. PICK g \in Spans : PlacedAt(g, size)
    BY Placed
  <1>2. /\ grants \in Seq(Spans) /\ grants' = Append(grants, g)
        /\ HeadInv
    BY <1>1 DEF TypeOK, Shape, PlacedAt, jsonAlloc
  <1>3. /\ DOMAIN grants' = DOMAIN grants \cup {Len(grants) + 1}
        /\ grants'[Len(grants) + 1] = g
        /\ \A i \in DOMAIN grants : grants'[i] = grants[i]
    BY <1>2
  <1>4. ASSUME NEW i \in DOMAIN grants, grants[i].block = g.block
        PROVE  grants[i].start + grants[i].size <= g.start
    <2>1. grants[i].block \in BlockIds
      BY DEF GrantsInv
    <2>2. g.block = arena.head /\ g.start = blocks[g.block].used
      BY <1>1, <1>4, <2>1 DEF PlacedAt
    <2> QED
      BY <1>4, <2>1, <2>2 DEF GrantsInv
  <1> SUFFICES ASSUME NEW i \in DOMAIN grants', NEW j \in DOMAIN grants',
                      i # j, grants'[i].block = grants'[j].block
               PROVE  \/ grants'[i].start + grants'[i].size
                           <= grants'[j].start
                      \/ grants'[j].start + grants'[j].size
                           <= grants'[i].start
    BY DEF GrantsDisjoint
  <1>5. CASE i \in DOMAIN grants /\ j \in DOMAIN grants
    BY <1>3, <1>5 DEF GrantsDisjoint
  <1>6. CASE i \in DOMAIN grants /\ j = Len(grants) + 1
    BY <1>3, <1>4, <1>6
  <1>7. CASE j \in DOMAIN grants /\ i = Len(grants) + 1
    BY <1>3, <1>4, <1>7
  <1> QED
    BY <1>3, <1>5, <1>6, <1>7

(* No other step grants a span.                                            *)
LEMMA OthersKeepDisjoint ==
  ASSUME GrantsDisjoint,
         jsonAllocatorNew \/ jsonAllocatorRelease \/ UNCHANGED vars
  PROVE  GrantsDisjoint'
PROOF
  <1>1. UNCHANGED grants
    BY DEF jsonAllocatorNew, jsonAllocatorRelease, ReleaseHead, ReleaseNext,
           ReleaseDone, vars
  <1> QED
    BY <1>1 DEF GrantsDisjoint

(* And no two results of jsonAlloc share a byte.                           *)
THEOREM Disjoint ==
  ASSUME SizesFit
  PROVE  Spec => []GrantsDisjoint
PROOF
  <1>1. Init => GrantsDisjoint
    BY DEF Init, GrantsDisjoint
  <1>2. TypeOK /\ Shape /\ GrantsInv /\ GrantsDisjoint /\ [Next]_vars
          => GrantsDisjoint'
    <2> SUFFICES ASSUME TypeOK, Shape, GrantsInv, GrantsDisjoint, [Next]_vars
                 PROVE  GrantsDisjoint'
      OBVIOUS
    <2>1. ASSUME NEW size \in Sizes, jsonAlloc(size)
          PROVE  GrantsDisjoint'
      BY <2>1, FittingSize, AllocKeepsDisjoint
    <2> QED
      BY <2>1, OthersKeepDisjoint DEF Next
  <1> QED
    BY <1>1, <1>2, Typing, GrantsHeld, PTL DEF Spec

-----------------------------------------------------------------------------
(* Why every result is aligned: every bump pointer is, since each moves by *)
(* a rounded size only.  Inductive with the typing above.                  *)
Multiple(n) == \E k \in Nat : n = Alignment * k

BumpsAligned == \A b \in BlockIds : Multiple(blocks[b].mem)

(* Rounding up gives a multiple of Alignment, wrapped or not.              *)
LEMMA AlignUpMultiple ==
  ASSUME NEW size \in Nat
  PROVE  Multiple(AlignUp(size))
PROOF
  <1> DEFINE sum == (size + (Alignment - 1)) % UIntMod
             q == sum \div Alignment
  <1>1. Alignment \in Nat /\ Alignment > 0 /\ UIntMod \in Nat /\ UIntMod > 0
    BY ArenaAssumption
  <1>2. sum \in Nat
    BY <1>1
  <1> HIDE DEF sum
  <1>3. q \in Nat /\ sum = Alignment * q + (sum % Alignment)
    BY <1>1, <1>2
  <1> HIDE DEF q
  <1>4. sum - (sum % Alignment) = Alignment * q
    BY <1>1, <1>2, <1>3
  <1> QED
    BY <1>3, <1>4 DEF AlignUp, Multiple, sum

(* Sums of multiples are multiples, zero is one, and none leaves a rest.   *)
LEMMA Multiples ==
  /\ Multiple(0)
  /\ \A m, n \in Nat : Multiple(m) /\ Multiple(n) => Multiple(m + n)
  /\ \A n \in Nat : Multiple(n) => n % Alignment = 0
PROOF
  <1>1. Alignment \in Nat \ {0}
    BY ArenaAssumption
  <1>2. Multiple(0)
    BY <1>1 DEF Multiple
  <1>3. ASSUME NEW m \in Nat, NEW n \in Nat, Multiple(m), Multiple(n)
        PROVE  Multiple(m + n)
    <2>1. PICK j \in Nat : m = Alignment * j
      BY <1>3 DEF Multiple
    <2>2. PICK k \in Nat : n = Alignment * k
      BY <1>3 DEF Multiple
    <2>3. m + n = Alignment * (j + k)
      BY <1>1, <2>1, <2>2
    <2> QED
      BY <2>3 DEF Multiple
  <1>4. ASSUME NEW n \in Nat, Multiple(n)
        PROVE  n % Alignment = 0
    <2>1. PICK k \in Nat : n = Alignment * k
      BY <1>4 DEF Multiple
    <2> QED
      BY <1>1, <2>1
  <1> QED
    BY <1>2, <1>3, <1>4

(* A result that is appended where a bump pointer stood is aligned too.    *)
LEMMA AppendedAligned ==
  ASSUME TypeOK, GrantsAligned, NEW g \in Spans, Multiple(g.start),
         grants' = Append(grants, g)
  PROVE  GrantsAligned'
PROOF
  <1>1. g.start % Alignment = 0 /\ grants \in Seq(Spans)
    BY Multiples DEF Spans, TypeOK
  <1>2. /\ DOMAIN grants' = DOMAIN grants \cup {Len(grants) + 1}
        /\ grants'[Len(grants) + 1] = g
        /\ \A i \in DOMAIN grants : grants'[i] = grants[i]
    BY <1>1
  <1> QED
    BY <1>1, <1>2 DEF GrantsAligned

(* Each path of jsonAlloc places its result at a bump pointer, and moves   *)
(* bump pointers by rounded sizes.                                         *)
LEMMA AllocAligned ==
  ASSUME TypeOK, Shape, BumpsAligned, GrantsAligned,
         NEW size \in Nat, jsonAlloc(size)
  PROVE  BumpsAligned' /\ GrantsAligned'
PROOF
  <1> DEFINE h == arena.head
             new == Len(blocks) + 1
  <1>1. /\ size \in Nat /\ AlignUp(size) \in Nat /\ Multiple(AlignUp(size))
        /\ blocks \in Seq(Headers) /\ Len(blocks) \in Nat
        /\ h \in BlockIds /\ blocks[h] \in Headers /\ arena \in Arenas
        /\ Multiple(blocks[h].mem) /\ blocks[h].mem \in Nat
    <2>1. size \in Nat /\ HeadInv /\ arena \in Arenas /\ blocks \in Seq(Headers)
      BY ArenaAssumption DEF jsonAlloc, Shape, TypeOK
    <2>2. h \in BlockIds /\ blocks[h] \in Headers
      BY <2>1, BlockTyped DEF HeadInv
    <2>3. AlignUp(size) \in Nat /\ Multiple(AlignUp(size))
      BY <2>1, AlignUpBound, AlignUpMultiple
    <2>4. Multiple(blocks[h].mem) /\ blocks[h].mem \in Nat
      BY <2>2 DEF BumpsAligned, Headers
    <2> QED
      BY <2>1, <2>2, <2>3, <2>4 DEF TypeOK
  <1>2. ASSUME NEW b \in Headers, Multiple(b.mem), NEW r \in Seq(Headers),
               Len(r) = Len(blocks), \A i \in BlockIds : r[i].mem = blocks[i].mem,
               blocks' = Append(r, b)
        PROVE  BumpsAligned'
    <2>1. /\ \A i \in BlockIds : blocks'[i] = r[i]
          /\ blocks'[new] = b /\ BlockIds' = BlockIds \cup {new}
      BY <1>1, <1>2 DEF BlockIds
    <2> QED
      BY <1>2, <2>1 DEF BumpsAligned
  <1>3. CASE AllocOversized(size)
    <2> DEFINE b == [BlockNew(AlignUp(size)) EXCEPT !.next = arena.tail]
               g == [block |-> new, start |-> 0, size |-> size]
    <2>1. b \in Headers /\ b.mem = 0
      BY <1>1 DEF BlockNew, Headers, Arenas
    <2>2. blocks' = Append(blocks, b) /\ grants' = Append(grants, g)
      BY <1>3 DEF AllocOversized, Grant
    <2>3. g \in Spans /\ g.start = 0
      BY <1>1 DEF Spans
    <2> HIDE DEF b, g
    <2>4. BumpsAligned'
      BY <1>1, <1>2, <2>1, <2>2, Multiples
    <2> QED
      BY <2>2, <2>3, <2>4, AppendedAligned, Multiples
  <1>4. CASE AllocInHead(size)
    <2> DEFINE b == Bump(blocks[h], AlignUp(size))
               g == [block |-> h, start |-> blocks[h].mem, size |-> size]
    <2>1. b.mem = blocks[h].mem + AlignUp(size)
      BY <1>1, BumpTyped
    <2>2. blocks' = [blocks EXCEPT ![h] = b] /\ grants' = Append(grants, g)
      BY <1>4 DEF AllocInHead, Grant
    <2>3. g \in Spans /\ g.start = blocks[h].mem
      BY <1>1 DEF Spans, BlockIds
    <2> HIDE DEF b, g, h
    <2>4. Multiple(b.mem)
      BY <1>1, <2>1, Multiples
    <2>5. /\ BlockIds' = BlockIds /\ blocks'[h] = b
          /\ \A i \in BlockIds \ {h} : blocks'[i] = blocks[i]
      BY <1>1, <2>2 DEF BlockIds
    <2>6. BumpsAligned'
      BY <2>4, <2>5 DEF BumpsAligned
    <2> QED
      BY <1>1, <2>2, <2>3, <2>6, AppendedAligned
  <1>5. CASE AllocInNewHead(size)
    <2> DEFINE c == BlockNew(arena.block_capacity)
               b == Bump(c, AlignUp(size))
               old == [blocks[h] EXCEPT !.next = arena.tail]
               r == [blocks EXCEPT ![h] = old]
               g == [block |-> new, start |-> 0, size |-> size]
    <2>1. c \in Headers /\ c.mem = 0
      BY <1>1 DEF BlockNew, Headers, Arenas, Garbage
    <2>2. old \in Headers /\ old.mem = blocks[h].mem
      BY <1>1 DEF Headers, Arenas
    <2>3. blocks' = Append(r, b) /\ grants' = Append(grants, g)
      BY <1>5, Zenon DEF AllocInNewHead, Grant
    <2>4. g \in Spans /\ g.start = 0
      BY <1>1 DEF Spans
    <2> HIDE DEF c, old, g, h
    <2>5. b \in Headers /\ b.mem = AlignUp(size)
      BY <1>1, <2>1, BumpTyped
    <2> HIDE DEF b
    <2>6. /\ r \in Seq(Headers) /\ Len(r) = Len(blocks)
          /\ \A i \in BlockIds : r[i].mem = blocks[i].mem
      BY <1>1, <2>2 DEF BlockIds
    <2> HIDE DEF r
    <2>7. BumpsAligned'
      BY <1>1, <1>2, <2>3, <2>5, <2>6
    <2> QED
      BY <2>3, <2>4, <2>7, AppendedAligned, Multiples
  <1> QED
    BY <1>3, <1>4, <1>5 DEF jsonAlloc

(* Every result of jsonAlloc lies at a multiple of Alignment from its      *)
(* chunk's start, for all sizes, the ones that wrap included.              *)
THEOREM Aligned == Spec => []GrantsAligned
PROOF
  <1>1. Init => BumpsAligned /\ GrantsAligned
    BY DEF Init, BumpsAligned, GrantsAligned, BlockIds
  <1>2. TypeOK /\ Shape /\ BumpsAligned /\ GrantsAligned /\ [Next]_vars
          => BumpsAligned' /\ GrantsAligned'
    <2> SUFFICES ASSUME TypeOK, Shape, BumpsAligned, GrantsAligned, [Next]_vars
                 PROVE  BumpsAligned' /\ GrantsAligned'
      OBVIOUS
    <2>1. CASE jsonAllocatorNew
      <3>1. /\ blocks' = <<BlockNew(Capacity)>> /\ BlockNew(Capacity).mem = 0
            /\ grants' = grants
        BY <2>1 DEF jsonAllocatorNew, BlockNew
      <3> HIDE DEF BlockNew
      <3> QED
        BY <3>1, Multiples DEF BumpsAligned, GrantsAligned, BlockIds
    <2>2. ASSUME NEW size \in Sizes, jsonAlloc(size)
          PROVE  BumpsAligned' /\ GrantsAligned'
      BY <2>2, AllocAligned, ArenaAssumption
    <2>3. jsonAllocatorRelease => UNCHANGED <<blocks, grants>>
      BY DEF jsonAllocatorRelease, ReleaseHead, ReleaseNext, ReleaseDone
    <2>4. UNCHANGED <<blocks, grants>> => BumpsAligned' /\ GrantsAligned'
      BY DEF BumpsAligned, GrantsAligned, BlockIds
    <2> QED
      BY <2>1, <2>2, <2>3, <2>4 DEF Next, vars
  <1> QED
    BY <1>1, <1>2, Typing, PTL DEF Spec

-----------------------------------------------------------------------------
(* The used list, from its oldest block to arena.tail.  A block's `next' is*)
(* the block in front of it: blocks are pushed in another order than they  *)
(* are made, since an oversized one is pushed at once.                     *)
In(s, i) == IF i = 0 THEN NULL ELSE s[i]

UsedList(s) ==
  /\ s \in Seq(UsedIds)
  /\ \A i, j \in DOMAIN s : s[i] = s[j] => i = j
  /\ \A b \in UsedIds : \E i \in DOMAIN s : s[i] = b
  /\ \A i \in DOMAIN s : blocks[s[i]].next = In(s, i - 1)
  /\ arena.tail = In(s, Len(s))

(* With k blocks of the list to go, the head and the others were freed, in *)
(* the order of the list.                                                  *)
FreedBut(s, k) ==
  /\ walk = In(s, k)
  /\ Len(freed) = (Len(s) - k) + 1
  /\ \A j \in DOMAIN freed :
       freed[j].block = IF j = 1 THEN arena.head ELSE s[(Len(s) + 2) - j]

(* The inductive invariant.                                                *)
Unreleased == phase \in {"unborn", "live"} => walk = NULL /\ freed = << >>
ListInv ==
  phase # "unborn" => \E s \in Seq(UsedIds) : UsedList(s)
ReleaseInv ==
  phase \in {"releasing", "released"} =>
    \E s \in Seq(UsedIds) : \E k \in 0 .. Len(s) :
      UsedList(s) /\ FreedBut(s, k) /\ (phase = "released" => k = 0)

ReleaseOrder == Unreleased /\ ListInv /\ ReleaseInv

-----------------------------------------------------------------------------
(* A block that is pushed behind the tail is the list's last.              *)
LEMMA PushKeepsList ==
  ASSUME NEW s, UsedList(s), NEW b \in Nat, b \notin UsedIds,
         UsedIds' = UsedIds \cup {b}, arena'.tail = b, b # NULL,
         blocks'[b].next = arena.tail,
         \A u \in UsedIds : blocks'[u].next = blocks[u].next
  PROVE  UsedList(Append(s, b))'
<1> DEFINE t == Append(s, b)
<1>1. /\ s \in Seq(UsedIds) /\ Len(s) \in Nat /\ DOMAIN s = 1 .. Len(s)
      /\ \A i \in 1 .. Len(s) : s[i] \in UsedIds
  BY DEF UsedList
<1>2. /\ t \in Seq(UsedIds') /\ Len(t) = Len(s) + 1 /\ DOMAIN t = 1 .. Len(s) + 1
      /\ t[Len(s) + 1] = b /\ \A i \in 1 .. Len(s) : t[i] = s[i]
  <2>1. s \in Seq(UsedIds \cup {b})
    BY <1>1
  <2> QED BY <1>1, <2>1
<1> HIDE DEF t
<1>3. ASSUME NEW i \in DOMAIN t, NEW j \in DOMAIN t, t[i] = t[j]
      PROVE  i = j
  <2>1. CASE i \in 1 .. Len(s) /\ j \in 1 .. Len(s)
    BY <1>1, <1>2, <1>3, <2>1 DEF UsedList
  <2>2. CASE i = Len(s) + 1 \/ j = Len(s) + 1
    BY <1>1, <1>2, <1>3, <2>2
  <2> QED BY <1>1, <1>2, <2>1, <2>2
<1>4. ASSUME NEW u \in UsedIds'
      PROVE  \E i \in DOMAIN t : t[i] = u
  <2>1. CASE u = b
    BY <1>1, <1>2, <2>1
  <2>2. CASE u \in UsedIds
    <3>1. PICK i \in DOMAIN s : s[i] = u
      BY <2>2 DEF UsedList
    <3> QED BY <1>1, <1>2, <3>1
  <2> QED BY <2>1, <2>2
<1>5. ASSUME NEW i \in DOMAIN t
      PROVE  blocks'[t[i]].next = In(t, i - 1)
  <2>1. CASE i \in 1 .. Len(s)
    <3>1. blocks'[t[i]].next = In(s, i - 1)
      BY <1>1, <1>2, <2>1 DEF UsedList
    <3>2. In(s, i - 1) = In(t, i - 1)
      BY <1>1, <1>2, <2>1 DEF In
    <3> QED BY <3>1, <3>2
  <2>2. CASE i = Len(s) + 1
    <3>1. blocks'[t[i]].next = In(s, Len(s))
      BY <1>2, <2>2 DEF UsedList
    <3>2. In(s, Len(s)) = In(t, i - 1)
      BY <1>1, <1>2, <2>2 DEF In
    <3> QED BY <3>1, <3>2
  <2> QED BY <1>1, <1>2, <2>1, <2>2
<1>6. arena'.tail = In(t, Len(t))
  BY <1>1, <1>2 DEF In
<1> QED BY <1>2, <1>3, <1>4, <1>5, <1>6 DEF UsedList, t

(* What leaves every `next' of the list, the tail and the head alone leaves*)
(* the list.                                                               *)
LEMMA ListStays ==
  ASSUME NEW s, UsedList(s), UsedIds' = UsedIds, arena'.tail = arena.tail,
         \A u \in UsedIds : blocks'[u].next = blocks[u].next
  PROVE  UsedList(s)'
<1>1. \A i \in DOMAIN s : s[i] \in UsedIds
  BY DEF UsedList
<1> QED BY <1>1 DEF UsedList, In

(* Each path of jsonAlloc pushes at most one block on the list, and leaves *)
(* the `next' of the blocks that are on it alone.                          *)
LEMMA AllocKeepsList ==
  ASSUME TypeOK, Shape, TypeOK', Shape', ListInv,
         NEW size \in Nat, jsonAlloc(size)
  PROVE  ListInv'
<1> DEFINE h == arena.head
           new == Len(blocks) + 1
<1>1. /\ phase = "live" /\ phase' = "live"
      /\ HeadInv /\ blocks \in Seq(Headers) /\ Len(blocks) \in Nat
      /\ h \in BlockIds /\ blocks[h] \in Headers /\ arena \in Arenas
  BY BlockTyped DEF jsonAlloc, Shape, HeadInv, TypeOK
<1>2. PICK s \in Seq(UsedIds) : UsedList(s)
  BY <1>1 DEF ListInv
<1>3. SUFFICES \E t \in Seq(UsedIds') : UsedList(t)'
  BY DEF ListInv
<1>4. \A t : UsedList(t)' => t \in Seq(UsedIds')
  BY DEF UsedList
<1>5. CASE AllocOversized(size)
  <2> DEFINE b == [BlockNew(AlignUp(size)) EXCEPT !.next = arena.tail]
             a == [arena EXCEPT !.used = CountUsed(arena, size)]
  <2>1. b.next = arena.tail
    BY DEF BlockNew
  <2>2. blocks' = Append(blocks, b)
    BY <1>5 DEF AllocOversized
  <2>3. arena' = [a EXCEPT !.tail = new]
    BY <1>5, Zenon DEF AllocOversized
  <2>4. a.head = h /\ {"tail", "head"} \subseteq DOMAIN a
    BY <1>1 DEF Arenas
  <2> HIDE DEF a, b
  <2>5. arena'.tail = new /\ arena'.head = h
    BY <2>3, <2>4
  <2>6. /\ BlockIds' = BlockIds \cup {new} /\ new \notin BlockIds
        /\ blocks'[new] = b /\ \A i \in BlockIds : blocks'[i] = blocks[i]
    BY <1>1, <2>2 DEF BlockIds
  <2>7. UsedIds' = UsedIds \cup {new} /\ new \notin UsedIds /\ new # NULL
    BY <1>1, <2>5, <2>6 DEF UsedIds, NULL
  <2>8. /\ new \in Nat /\ blocks'[new].next = arena.tail
        /\ \A u \in UsedIds : blocks'[u].next = blocks[u].next
    BY <1>1, <2>1, <2>6 DEF UsedIds
  <2>9. PICK n \in Nat : n = new
    BY <2>8
  <2> HIDE DEF new, h
  <2>10. UsedList(Append(s, n))'
    BY <1>2, <2>5, <2>7, <2>8, <2>9, PushKeepsList
  <2> QED BY <1>4, <2>10
<1>6. CASE AllocInHead(size)
  <2> DEFINE b == Bump(blocks[h], AlignUp(size))
  <2>1. AlignUp(size) \in Nat
    BY ArenaAssumption, AlignUpBound
  <2>2. blocks' = [blocks EXCEPT ![h] = b]
    BY <1>6 DEF AllocInHead
  <2>3. arena'.tail = arena.tail /\ arena'.head = h
    BY <1>1, <1>6 DEF AllocInHead, Arenas
  <2> HIDE DEF b, h
  <2>4. BlockIds' = BlockIds /\ \A i \in BlockIds \ {h} : blocks'[i] = blocks[i]
    BY <1>1, <2>2 DEF BlockIds
  <2>5. UsedIds' = UsedIds /\ \A u \in UsedIds : blocks'[u] = blocks[u]
    BY <2>3, <2>4 DEF UsedIds, h
  <2>6. UsedList(s)'
    BY <1>2, <2>3, <2>5, ListStays
  <2> QED BY <1>4, <2>6
<1>7. CASE AllocInNewHead(size)
  <2> DEFINE b == Bump(BlockNew(arena.block_capacity), AlignUp(size))
             old == [blocks[h] EXCEPT !.next = arena.tail]
             r == [blocks EXCEPT ![h] = old]
             a == [arena EXCEPT !.used = CountUsed(arena, size)]
             c == [a EXCEPT !.tail = h]
  <2>1. old.next = arena.tail
    BY <1>1 DEF Headers
  <2>2. blocks' = Append(r, b) /\ arena' = [c EXCEPT !.head = new]
    BY <1>7, Zenon DEF AllocInNewHead
  <2>3. DOMAIN a = DOMAIN arena /\ {"tail", "head"} \subseteq DOMAIN arena
    BY <1>1 DEF Arenas
  <2> HIDE DEF a, b, old
  <2>4. c.tail = h /\ DOMAIN c = DOMAIN arena
    BY <2>3
  <2> HIDE DEF c
  <2>5. arena'.tail = h /\ arena'.head = new
    BY <2>2, <2>3, <2>4
  <2>6. /\ Len(r) = Len(blocks) /\ r[h] = old /\ r \in Seq(Headers \cup {old, b})
        /\ \A i \in BlockIds \ {h} : r[i] = blocks[i]
    BY <1>1 DEF BlockIds
  <2> HIDE DEF r, h
  <2>7. /\ BlockIds' = BlockIds \cup {new} /\ new \notin BlockIds
        /\ \A i \in BlockIds : blocks'[i] = r[i]
    <3>1. Len(blocks') = new /\ \A i \in BlockIds : blocks'[i] = r[i]
      <4> HIDE DEF new
      <4> DEFINE S == Headers \cup {old, b}
      <4>1. r \in Seq(S) /\ b \in S /\ blocks' = Append(r, b)
        BY <2>2, <2>6
      <4> HIDE DEF S
      <4> QED BY <1>1, <2>6, <4>1 DEF BlockIds, new
    <3> QED BY <1>1, <3>1 DEF BlockIds
  <2>8. /\ UsedIds' = UsedIds \cup {h} /\ h \notin UsedIds /\ h # NULL
        /\ h \in Nat /\ blocks'[h].next = arena.tail
        /\ \A u \in UsedIds : blocks'[u].next = blocks[u].next
    BY <1>1, <2>1, <2>5, <2>6, <2>7 DEF UsedIds, NULL, BlockIds, h
  <2>9. PICK n \in Nat : n = h
    BY <2>8
  <2>10. UsedList(Append(s, n))'
    BY <1>2, <2>5, <2>8, <2>9, PushKeepsList
  <2> QED BY <1>4, <2>10
<1> QED BY <1>5, <1>6, <1>7 DEF jsonAlloc

(* What a free appends, and that the free of the (k+1)th last block is in  *)
(* the place FreedBut asks for.                                            *)
LEMMA FreeAppends ==
  ASSUME TypeOK, NEW b \in BlockIds, FreeBlock(b)
  PROVE  /\ Len(freed') = Len(freed) + 1
         /\ DOMAIN freed' = DOMAIN freed \cup {Len(freed) + 1}
         /\ freed'[Len(freed) + 1].block = b
         /\ \A j \in DOMAIN freed : freed'[j] = freed[j]
<1> DEFINE f == [block |-> b, at |-> blocks[b].mem - blocks[b].used]
<1>1. f \in [block : Int, at : Int] /\ f.block = b
  BY BlockTyped DEF Headers, BlockIds
<1>2. freed' = Append(freed, f) /\ freed \in Seq([block : Int, at : Int])
  BY DEF FreeBlock, TypeOK
<1> HIDE DEF f
<1> QED BY <1>1, <1>2

(* The release starts with the whole list to go.                           *)
LEMMA HeadBegins ==
  ASSUME TypeOK, Shape, ReleaseOrder, ReleaseHead
  PROVE  ReleaseInv'
<1>1. /\ phase = "live" /\ phase' = "releasing" /\ FreeBlock(arena.head)
      /\ walk' = arena.tail /\ blocks' = blocks /\ arena' = arena
      /\ freed = << >> /\ arena.head \in BlockIds
  BY DEF ReleaseHead, ReleaseOrder, Unreleased, Shape, HeadInv
<1>2. PICK s \in Seq(UsedIds) : UsedList(s)
  BY <1>1 DEF ReleaseOrder, ListInv
<1>3. UsedIds' = UsedIds
  BY <1>1 DEF UsedIds, BlockIds
<1>4. UsedList(s)'
  BY <1>1, <1>2, <1>3, ListStays
<1>5. /\ Len(freed') = 1 /\ DOMAIN freed' = {1} /\ freed'[1].block = arena.head
  BY <1>1, FreeAppends
<1>6. FreedBut(s, Len(s))'
  BY <1>1, <1>2, <1>5 DEF FreedBut, UsedList, In
<1>7. Len(s) \in 0 .. Len(s) /\ s \in Seq(UsedIds')
  BY <1>2, <1>3
<1> QED BY <1>1, <1>4, <1>6, <1>7 DEF ReleaseInv

(* Each turn of the loop frees the list's last remaining block.            *)
LEMMA NextGoesOn ==
  ASSUME TypeOK, Shape, ReleaseOrder, ReleaseNext
  PROVE  ReleaseInv'
<1>1. /\ phase = "releasing" /\ phase' = "releasing" /\ FreeBlock(walk)
      /\ walk # NULL /\ walk' = blocks[walk].next
      /\ blocks' = blocks /\ arena' = arena
  BY DEF ReleaseNext
<1> PICK s \in Seq(UsedIds) :
      \E k \in 0 .. Len(s) : UsedList(s) /\ FreedBut(s, k)
  BY <1>1 DEF ReleaseOrder, ReleaseInv
<1>2. PICK k \in 0 .. Len(s) : UsedList(s) /\ FreedBut(s, k)
  OBVIOUS
<1>3. UsedIds' = UsedIds /\ s \in Seq(UsedIds')
  BY <1>1, <1>2 DEF UsedIds, BlockIds
<1>4. UsedList(s)'
  BY <1>1, <1>2, <1>3, ListStays
<1>5. /\ Len(s) \in Nat /\ k \in 1 .. Len(s) /\ walk = s[k] /\ s[k] \in UsedIds
      /\ DOMAIN s = 1 .. Len(s)
  BY <1>1, <1>2 DEF FreedBut, In, NULL
<1>6. walk' = In(s, k - 1)
  BY <1>1, <1>2, <1>5 DEF UsedList
<1>7. /\ Len(freed') = Len(freed) + 1
      /\ DOMAIN freed' = DOMAIN freed \cup {Len(freed) + 1}
      /\ freed'[Len(freed) + 1].block = walk
      /\ \A j \in DOMAIN freed : freed'[j] = freed[j]
  BY <1>1, <1>5, FreeAppends DEF UsedIds
<1>8. FreedBut(s, k - 1)'
  <2>1. Len(freed) = (Len(s) - k) + 1 /\ Len(freed') = (Len(s) - (k - 1)) + 1
    BY <1>2, <1>5, <1>7 DEF FreedBut
  <2>2. ASSUME NEW j \in DOMAIN freed'
        PROVE  freed'[j].block =
                 IF j = 1 THEN arena.head ELSE s[(Len(s) + 2) - j]
    <3>1. CASE j \in DOMAIN freed
      BY <1>2, <1>7, <3>1 DEF FreedBut
    <3>2. CASE j = Len(freed) + 1
      <4>1. j # 1 /\ (Len(s) + 2) - j = k
        BY <1>5, <2>1, <3>2
      <4> QED BY <1>5, <1>7, <3>2, <4>1
    <3> QED BY <1>7, <3>1, <3>2
  <2> QED BY <1>1, <1>6, <2>1, <2>2 DEF FreedBut, In
<1>9. k - 1 \in 0 .. Len(s)
  BY <1>5
<1> QED BY <1>1, <1>3, <1>4, <1>8, <1>9 DEF ReleaseInv

(* The loop stops at NULL, which is where the list ends.                   *)
LEMMA DoneAtEnd ==
  ASSUME TypeOK, Shape, ReleaseOrder, ReleaseDone
  PROVE  ReleaseInv'
<1>1. /\ phase = "releasing" /\ phase' = "released" /\ walk = NULL
      /\ UNCHANGED <<blocks, arena, walk, freed>>
  BY DEF ReleaseDone
<1> PICK s \in Seq(UsedIds) :
      \E k \in 0 .. Len(s) : UsedList(s) /\ FreedBut(s, k)
  BY <1>1 DEF ReleaseOrder, ReleaseInv
<1>2. PICK k \in 0 .. Len(s) : UsedList(s) /\ FreedBut(s, k)
  OBVIOUS
<1>3. UsedIds' = UsedIds /\ s \in Seq(UsedIds')
  BY <1>1, <1>2 DEF UsedIds, BlockIds
<1>4. UsedList(s)' /\ FreedBut(s, k)'
  BY <1>1, <1>2, <1>3, ListStays DEF FreedBut, In
<1>5. k = 0
  BY <1>1, <1>2 DEF FreedBut, In, NULL, UsedIds, BlockIds
<1> QED BY <1>1, <1>2, <1>3, <1>4, <1>5 DEF ReleaseInv

(* Before jsonAllocatorNew there is no list.                               *)
LEMMA InitOrder ==
  ASSUME Init
  PROVE  ReleaseOrder
BY DEF Init, ReleaseOrder, Unreleased, ListInv, ReleaseInv

(* A call keeps the list, or goes down it.                                 *)
LEMMA CallOrder ==
  ASSUME TypeOK, Shape, TypeOK', Shape', ReleaseOrder, [Call]_vars
  PROVE  ReleaseOrder'
<1>1. CASE jsonAllocatorNew
  <2>1. /\ phase = "unborn" /\ phase' = "live" /\ walk' = walk /\ freed' = freed
        /\ BlockIds' = {1} /\ arena'.head = 1 /\ arena'.tail = NULL
    BY <1>1 DEF jsonAllocatorNew, BlockIds
  <2>2. UsedIds' = {}
    BY <2>1 DEF UsedIds
  <2>3. UsedList(<< >>)'
    BY <2>1, <2>2 DEF UsedList, In
  <2>4. << >> \in Seq(UsedIds')
    OBVIOUS
  <2> QED BY <2>1, <2>3, <2>4
          DEF ReleaseOrder, Unreleased, ListInv, ReleaseInv
<1>2. ASSUME NEW size \in Nat, jsonAlloc(size)
      PROVE  ReleaseOrder'
  <2>1. ListInv'
    BY <1>2, AllocKeepsList DEF ReleaseOrder
  <2> QED BY <1>2, <2>1 DEF jsonAlloc, ReleaseOrder, Unreleased, ReleaseInv
<1>3. CASE jsonAllocatorRelease
  <2>1. ReleaseInv'
    BY <1>3, HeadBegins, NextGoesOn, DoneAtEnd DEF jsonAllocatorRelease
  <2>2. phase' \in {"releasing", "released"}
    BY <1>3 DEF jsonAllocatorRelease, ReleaseHead, ReleaseNext, ReleaseDone
  <2>3. ListInv'
    BY <2>1, <2>2 DEF ReleaseInv, ListInv
  <2> QED BY <2>1, <2>2, <2>3 DEF ReleaseOrder, Unreleased
<1>4. CASE UNCHANGED vars
  <2>1. /\ UNCHANGED <<phase, walk, freed, arena, blocks>>
        /\ UsedIds' = UsedIds
    BY <1>4 DEF vars, UsedIds, BlockIds
  <2>2. \A s : UsedList(s) => UsedList(s)'
    BY <2>1 DEF UsedList, In
  <2>3. \A s, k : FreedBut(s, k) => FreedBut(s, k)'
    BY <2>1 DEF FreedBut, In
  <2>4. ListInv'
    BY <2>1, <2>2 DEF ReleaseOrder, ListInv
  <2>5. ReleaseInv'
    BY <2>1, <2>2, <2>3 DEF ReleaseOrder, ReleaseInv
  <2> QED BY <2>1, <2>4, <2>5 DEF ReleaseOrder, Unreleased
<1> QED BY <1>1, <1>2, <1>3, <1>4 DEF Call

(* From jsonAllocatorNew on there is one list of all the blocks but the    *)
(* head, and the release goes down it block by block, for every capacity,  *)
(* alignment and sizes, the ones that wrap included.                       *)
THEOREM ReleaseInvariant == Spec => []ReleaseOrder
<1>1. Init => ReleaseOrder
  BY InitOrder
<1>2. TypeOK /\ Shape /\ TypeOK' /\ Shape' /\ ReleaseOrder /\ [Next]_vars
        => ReleaseOrder'
  BY NextIsCall, CallOrder
<1> QED BY <1>1, <1>2, Typing, PTL DEF Spec

(* The order of the release frees no block twice, and leaves none.         *)
LEMMA OrderFreesOnce ==
  ASSUME TypeOK, Shape, ReleaseOrder
  PROVE  EachBlockFreedOnce
<1>1. CASE phase \in {"unborn", "live"}
  BY <1>1 DEF ReleaseOrder, Unreleased, EachBlockFreedOnce, NULL, Garbage
<1>2. CASE phase \in {"releasing", "released"}
  <2> PICK s \in Seq(UsedIds) : \E k \in 0 .. Len(s) :
        UsedList(s) /\ FreedBut(s, k) /\ (phase = "released" => k = 0)
    BY <1>2 DEF ReleaseOrder, ReleaseInv
  <2>1. PICK k \in 0 .. Len(s) :
          UsedList(s) /\ FreedBut(s, k) /\ (phase = "released" => k = 0)
    OBVIOUS
  <2>2. /\ Len(s) \in Nat /\ DOMAIN s = 1 .. Len(s)
        /\ \A i \in DOMAIN s : s[i] \in UsedIds
        /\ HeadInv /\ freed \in Seq([block : Int, at : Int])
        /\ DOMAIN freed = 1 .. (Len(s) - k) + 1
    BY <1>2, <2>1 DEF Shape, TypeOK, FreedBut
  <2>3. walk # Garbage
    BY <2>1, <2>2 DEF FreedBut, In, UsedIds, BlockIds, NULL, Garbage
  <2>4. ASSUME NEW j \in DOMAIN freed, j # 1
        PROVE  (Len(s) + 2) - j \in DOMAIN s /\ freed[j].block \in UsedIds
    <3>1. (Len(s) + 2) - j \in DOMAIN s
      BY <2>2, <2>4
    <3>2. freed[j].block = s[(Len(s) + 2) - j]
      BY <2>1, <2>4 DEF FreedBut
    <3> QED BY <2>2, <3>1, <3>2
  <2>5. ASSUME NEW i \in DOMAIN freed, NEW j \in DOMAIN freed, i # j
        PROVE  freed[i].block # freed[j].block
    <3>1. CASE i = 1 \/ j = 1
      BY <2>1, <2>4, <2>5, <3>1 DEF FreedBut, UsedIds
    <3>2. CASE i # 1 /\ j # 1
      <4>1. (Len(s) + 2) - i # (Len(s) + 2) - j
        BY <2>2, <2>5
      <4> QED BY <2>1, <2>4, <3>2, <4>1 DEF FreedBut, UsedList
    <3> QED BY <3>1, <3>2
  <2>6. ASSUME phase = "released"
        PROVE  Freed = BlockIds
    <3>1. \A j \in DOMAIN freed : freed[j].block \in BlockIds
      BY <2>1, <2>2, <2>4 DEF FreedBut, UsedIds, HeadInv
    <3>2. ASSUME NEW b \in BlockIds
          PROVE  \E j \in DOMAIN freed : freed[j].block = b
      <4>1. CASE b = arena.head
        <5>1. 1 \in DOMAIN freed
          BY <2>2
        <5> QED BY <2>1, <4>1, <5>1 DEF FreedBut
      <4>2. CASE b \in UsedIds
        <5>1. PICK i \in DOMAIN s : s[i] = b
          BY <2>1, <4>2 DEF UsedList
        <5>2. /\ (Len(s) + 2) - i \in DOMAIN freed /\ (Len(s) + 2) - i # 1
              /\ (Len(s) + 2) - ((Len(s) + 2) - i) = i
          BY <2>1, <2>2, <2>6
        <5> QED BY <2>1, <5>1, <5>2 DEF FreedBut
      <4> QED BY <4>1, <4>2 DEF UsedIds
    <3> QED BY <3>1, <3>2 DEF Freed
  <2> QED BY <2>3, <2>5, <2>6 DEF EachBlockFreedOnce
<1> QED BY <1>1, <1>2 DEF TypeOK

(* No block is freed twice, none is left when the release is done, and its *)
(* loop never follows a `next' that was not set.                           *)
THEOREM FreedOnce == Spec => []EachBlockFreedOnce
<1>1. TypeOK /\ Shape /\ ReleaseOrder => EachBlockFreedOnce
  BY OrderFreesOnce
<1> QED BY <1>1, Typing, ReleaseInvariant, PTL

-----------------------------------------------------------------------------
(* The refinement.  The chunks of JsonRegions are the blocks not yet freed,*)
(* its regions the grants of a live arena.                                 *)
Chunk(b) == [id |-> b, capacity |-> blocks[b].capacity]
Chunks   == {Chunk(b) : b \in BlockIds \ Freed}
Live     == IF phase = "live" THEN {grants[i] : i \in DOMAIN grants} ELSE {}

(* jsonAllocatorNew obtains the first chunk, and no region yet.            *)
LEMMA NewOpens ==
  ASSUME TypeOK, Shape, jsonAllocatorNew
  PROVE  Regions!Open
<1>1. /\ phase = "unborn" /\ phase' = "live" /\ freed' = << >> /\ grants' = << >>
      /\ grants = << >> /\ BlockIds' = {1}
  BY DEF jsonAllocatorNew, Shape, BlockIds
<1>2. Freed' = {} /\ Live = {} /\ Live' = {}
  BY <1>1 DEF Freed, Live
<1>3. Chunks' = {Chunk(1)'}
  BY <1>1, <1>2 DEF Chunks
<1>4. \E c \in Chunks' : Chunks' = {c}
  BY <1>3
<1> QED BY <1>1, <1>2, <1>4 DEF Regions!Open, Chunks, Chunk, Live

(* jsonAlloc obtains one block at most.                                    *)
LEMMA OneBlockAtMost ==
  ASSUME TypeOK, Shape, NEW size \in Nat, jsonAlloc(size)
  PROVE  BlockIds' = BlockIds \/ \E n : n \notin BlockIds
                                       /\ BlockIds' = BlockIds \cup {n}
<1>1. /\ blocks \in Seq(Headers) /\ Len(blocks) \in Nat /\ arena.head \in BlockIds
  BY DEF TypeOK, Shape, HeadInv, jsonAlloc
<1>2. CASE AllocOversized(size)
  <2> DEFINE b == [BlockNew(AlignUp(size)) EXCEPT !.next = arena.tail]
  <2>1. blocks' = Append(blocks, b)
    BY <1>2 DEF AllocOversized
  <2> HIDE DEF b
  <2>2. blocks \in Seq(Headers \cup {b})
    BY <1>1
  <2>3. BlockIds' = BlockIds \cup {Len(blocks) + 1}
    BY <1>1, <2>1, <2>2 DEF BlockIds
  <2> QED BY <1>1, <2>3 DEF BlockIds
<1>3. CASE AllocInHead(size)
  <2> DEFINE b == Bump(blocks[arena.head], AlignUp(size))
  <2>1. blocks' = [blocks EXCEPT ![arena.head] = b]
    BY <1>3 DEF AllocInHead
  <2> HIDE DEF b
  <2> QED BY <1>1, <2>1 DEF BlockIds
<1>4. CASE AllocInNewHead(size)
  <2> DEFINE b == Bump(BlockNew(arena.block_capacity), AlignUp(size))
             old == [blocks[arena.head] EXCEPT !.next = arena.tail]
             r == [blocks EXCEPT ![arena.head] = old]
  <2>1. blocks' = Append(r, b)
    BY <1>4, Zenon DEF AllocInNewHead
  <2> HIDE DEF b, old
  <2>2. r \in Seq(Headers \cup {old, b}) /\ Len(r) = Len(blocks)
    BY <1>1 DEF BlockIds
  <2> HIDE DEF r
  <2>3. BlockIds' = BlockIds \cup {Len(blocks) + 1}
    BY <1>1, <2>1, <2>2 DEF BlockIds
  <2> QED BY <1>1, <2>3 DEF BlockIds
<1> QED BY <1>2, <1>3, <1>4 DEF jsonAlloc

(* Each path of jsonAlloc hands out one region of the size asked for, apart*)
(* from all others, in a chunk held or just obtained.                      *)
LEMMA AllocAllocates ==
  ASSUME TypeOK, Shape, GrantsInv, Unreleased,
         NEW size \in Nat, size + (Alignment - 1) < UIntMod, jsonAlloc(size)
  PROVE  Regions!Allocate(size)
<1>1. PICK g \in Spans : PlacedAt(g, size)
  BY Placed
<1>2. /\ phase = "live" /\ phase' = "live" /\ freed = << >> /\ freed' = << >>
      /\ grants \in Seq(Spans)
  BY DEF jsonAlloc, Unreleased, TypeOK
<1>3. /\ Chunks = {Chunk(b) : b \in BlockIds}
      /\ Chunks' = {Chunk(b)' : b \in BlockIds'}
  BY <1>2 DEF Chunks, Freed
<1>4. g \in Live' /\ Live' = Live \cup {g}
  <2>1. /\ DOMAIN grants' = DOMAIN grants \cup {Len(grants) + 1}
        /\ grants'[Len(grants) + 1] = g
        /\ \A i \in DOMAIN grants : grants'[i] = grants[i]
    BY <1>1, <1>2 DEF PlacedAt
  <2>2. /\ Live = {grants[i] : i \in DOMAIN grants}
        /\ Live' = {grants'[i] : i \in DOMAIN grants'}
    BY <1>2 DEF Live
  <2> QED BY <2>1, <2>2
<1>5. ASSUME NEW h \in Live
      PROVE  Regions!Apart(g, h)
  <2>1. PICK i \in DOMAIN grants : h = grants[i]
    BY <1>2 DEF Live
  <2>2. h.block \in BlockIds /\ (h.block = arena.head =>
                                   h.start + h.size <= blocks[h.block].used)
    BY <2>1 DEF GrantsInv
  <2>3. g.block \in BlockIds => g.block = arena.head
                             /\ g.start = blocks[g.block].used
    BY <1>1 DEF PlacedAt
  <2> QED BY <2>2, <2>3 DEF Regions!Apart
<1>6. \E c \in Chunks' : Regions!Within(g, c)
  <2>1. /\ g.block \in BlockIds'
        /\ g.start + g.size <= blocks'[g.block].capacity
    BY <1>1 DEF PlacedAt
  <2>2. Chunk(g.block)' \in Chunks'
    BY <1>3, <2>1
  <2> QED BY <2>1, <2>2 DEF Regions!Within, Chunk
<1>7. Chunks' = Chunks \/ \E c \in Chunks' \ Chunks : Chunks' = Chunks \cup {c}
  <2>1. \A b \in BlockIds : Chunk(b)' = Chunk(b)
    BY <1>1 DEF PlacedAt, Chunk
  <2>2. CASE BlockIds' = BlockIds
    BY <1>3, <2>1, <2>2
  <2>3. ASSUME NEW n, n \notin BlockIds, BlockIds' = BlockIds \cup {n}
        PROVE  \E c \in Chunks' \ Chunks : Chunks' = Chunks \cup {c}
    <3>1. \A b : Chunk(b).id = b /\ Chunk(b)'.id = b
      BY DEF Chunk
    <3>2. Chunk(n)' \in Chunks' /\ Chunk(n)' \notin Chunks
      BY <1>3, <2>3, <3>1
    <3>3. Chunks' = Chunks \cup {Chunk(n)'}
      BY <1>3, <2>1, <2>3
    <3> QED BY <3>2, <3>3
  <2> QED BY <2>2, <2>3, OneBlockAtMost
<1>8. g.size = size
  BY <1>1 DEF PlacedAt
<1> QED BY <1>2, <1>4, <1>5, <1>6, <1>7, <1>8
        DEF Regions!Allocate, Chunks, Chunk, Live

(* Freeing a block that was not freed takes its chunk away.                *)
LEMMA FreeTakes ==
  ASSUME TypeOK, NEW b \in BlockIds, FreeBlock(b), EachBlockFreedOnce',
         blocks' = blocks
  PROVE  \E c \in Chunks : Chunks' = Chunks \ {c}
<1>1. /\ DOMAIN freed' = DOMAIN freed \cup {Len(freed) + 1}
      /\ freed'[Len(freed) + 1].block = b
      /\ \A j \in DOMAIN freed : freed'[j] = freed[j]
  BY FreeAppends
<1>2. freed \in Seq([block : Int, at : Int]) /\ Len(freed) + 1 \notin DOMAIN freed
  BY DEF TypeOK
<1>3. Freed' = Freed \cup {b}
  BY <1>1 DEF Freed
<1>4. b \notin Freed
  BY <1>1, <1>2 DEF EachBlockFreedOnce, Freed
<1>5. BlockIds' = BlockIds /\ \A x : Chunk(x)' = Chunk(x) /\ Chunk(x).id = x
  BY DEF BlockIds, Chunk
<1>6. Chunk(b) \in Chunks /\ Chunks' = Chunks \ {Chunk(b)}
  BY <1>3, <1>4, <1>5 DEF Chunks
<1> QED BY <1>6

(* Each step of the release ends the regions, gives one chunk back, or     *)
(* finds none left.                                                        *)
LEMMA ReleaseCloses ==
  ASSUME TypeOK, Shape, EachBlockFreedOnce', jsonAllocatorRelease
  PROVE  Regions!Close \/ Regions!GiveBack \/ Regions!Closed
<1>1. CASE ReleaseHead
  <2>1. /\ phase = "live" /\ phase' = "releasing" /\ FreeBlock(arena.head)
        /\ blocks' = blocks /\ arena.head \in BlockIds
    BY <1>1 DEF ReleaseHead, Shape, HeadInv
  <2>2. \E c \in Chunks : Chunks' = Chunks \ {c}
    BY <2>1, FreeTakes
  <2>3. Live' = {}
    BY <2>1 DEF Live
  <2> QED BY <2>1, <2>2, <2>3 DEF Regions!Close, Chunks, Chunk, Live
<1>2. CASE ReleaseNext
  <2>1. /\ phase = "releasing" /\ phase' = "releasing" /\ FreeBlock(walk)
        /\ blocks' = blocks /\ walk \in BlockIds
    BY <1>2 DEF ReleaseNext, Shape, ChainInv, UsedIds
  <2>2. \E c \in Chunks : Chunks' = Chunks \ {c}
    BY <2>1, FreeTakes
  <2>3. Live' = {} /\ Live = {}
    BY <2>1 DEF Live
  <2> QED BY <2>1, <2>2, <2>3 DEF Regions!GiveBack, Chunks, Chunk, Live
<1>3. CASE ReleaseDone
  <2>1. /\ phase = "releasing" /\ phase' = "released"
        /\ blocks' = blocks /\ freed' = freed
    BY <1>3 DEF ReleaseDone
  <2>2. Freed' = BlockIds' /\ Freed' = Freed /\ BlockIds' = BlockIds
    BY <2>1 DEF EachBlockFreedOnce, Freed, BlockIds
  <2>3. Chunks = {} /\ Chunks' = {} /\ Live' = {} /\ Live = {}
    BY <2>1, <2>2 DEF Live, Chunks
  <2> QED BY <2>1, <2>3 DEF Regions!Closed, Chunks, Chunk, Live
<1> QED BY <1>1, <1>2, <1>3 DEF jsonAllocatorRelease

(* The arena implements JsonRegions, for every block size, alignment and   *)
(* sequence of sizes of which none wraps: each of its steps is a step of   *)
(* that specification, or leaves regions and chunks as they are.           *)
THEOREM ArenaImplements ==
  ASSUME SizesFit
  PROVE  Spec => ImplementsRegions
<1>1. Init => Regions!Init
  BY DEF Init, Regions!Init, BlockIds, Freed
<1>2. TypeOK /\ Shape /\ GrantsInv /\ ReleaseOrder /\ EachBlockFreedOnce'
        /\ [Next]_vars => [Regions!Next]_Regions!vars
  <2> SUFFICES ASSUME TypeOK, Shape, GrantsInv, ReleaseOrder,
                      EachBlockFreedOnce', [Next]_vars
               PROVE  Regions!Next \/ UNCHANGED Regions!vars
    OBVIOUS
  <2>1. CASE jsonAllocatorNew
    BY <2>1, NewOpens DEF Regions!Next
  <2>2. ASSUME NEW size \in Sizes, jsonAlloc(size)
        PROVE  Regions!Next
    <3>1. Regions!Allocate(size)
      BY <2>2, FittingSize, AllocAllocates DEF ReleaseOrder
    <3> QED BY <3>1 DEF Regions!Next
  <2>3. CASE jsonAllocatorRelease
    BY <2>3, ReleaseCloses DEF Regions!Next
  <2>4. CASE UNCHANGED vars
    BY <2>4 DEF vars, Regions!vars, BlockIds, Freed
  <2> QED BY <2>1, <2>2, <2>3, <2>4 DEF Next
<1> QED BY <1>1, <1>2, Typing, GrantsHeld, ReleaseInvariant, FreedOnce, PTL
        DEF Spec, ImplementsRegions, Regions!Spec
=============================================================================
