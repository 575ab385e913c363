CONSTANT Alphabet <- SomeHex
SPECIFICATION Spec
INVARIANTS HexIsConverted PairEncodes
CHECK_DEADLOCK FALSE
