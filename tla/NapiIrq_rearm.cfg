SPECIFICATION Spec
CONSTANTS
    CPUs = {c1, c2}
    Cycles = {"reinit"}
SYMMETRY Symmetry
INVARIANT VectorArmed
