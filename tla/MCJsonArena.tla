---------------------------- MODULE MCJsonArena ----------------------------
(* JsonArena on a small instance: blocks of eight bytes, rounded to two.   *)
(* The sizes reach every path of jsonAlloc: 1 and 3 share a block, 5 leaves *)
(* a rest that is too small, 8 is exactly a block, 9 is larger than one.   *)
EXTENDS JsonArena

MCSizes == {1, 3, 5, 8, 9}

(* A size in the last Alignment - 1 values of unsigned int.                *)
MCWideSizes == {1, 9, UIntMod - 1}
=============================================================================
