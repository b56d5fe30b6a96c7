SPECIFICATION Spec
CONSTANT Scenarios <- Freezes
INVARIANTS FrozenIsQuiet
CHECK_DEADLOCK FALSE
