SPECIFICATION FairSpec
CONSTANTS
    Packets = {p1, p2, p3}
    NoSkb = NoSkb
    Count = 15
    MaxDesc = 4
    WorkLimit = 1
    Shapes <- LongShape
    Features = {"more", "timeout"}
PROPERTIES QueueRestarts PacketsReturn RingIsQueue
