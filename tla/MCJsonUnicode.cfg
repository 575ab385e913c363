CONSTANT Alphabet <- Mixed
SPECIFICATION Spec
INVARIANTS EscapeEncodes BasicPlaneEncodes
CHECK_DEADLOCK FALSE
