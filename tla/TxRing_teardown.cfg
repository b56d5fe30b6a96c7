SPECIFICATION Spec
CONSTANTS
    Packets = {p1, p2}
    NoSkb = NoSkb
    Count = 15
    MaxDesc = 4
    WorkLimit = 1
    Shapes <- LongShape
    Features = {"link", "life"}
SYMMETRY Symmetry
INVARIANTS TypeOK HeldOnce FetchedIsMapped QuietTeardown
