SPECIFICATION FairSpec
CONSTANTS
    CPUs = {c1}
    Cycles = {"reinit", "recover"}
INVARIANT RingsQuiet
PROPERTIES TransmitRecovers DownCompletes
