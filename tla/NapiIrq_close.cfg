SPECIFICATION FairSpec
CONSTANTS
    CPUs = {c1, c2}
    Cycles = {"close"}
INVARIANTS TypeOK RingsQuiet VectorArmed
PROPERTIES ReceiveServed LinkChangeNoted
