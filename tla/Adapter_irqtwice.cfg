SPECIFICATION Spec
CONSTANT Scenarios <- Recovers
INVARIANTS IrqFreedOnce
