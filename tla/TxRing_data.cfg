SPECIFICATION Spec
CONSTANTS
    Packets = {p1, p2}
    NoSkb = NoSkb
    Count = 14
    MaxDesc = 3
    WorkLimit = 2
    Shapes <- MixedShapes
    Features = {"more", "fail"}
SYMMETRY Symmetry
INVARIANTS GapKept HeldOnce FetchedIsMapped MappingsOwned
PROPERTY RingIsQueue
