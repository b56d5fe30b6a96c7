SPECIFICATION FairSpec
CONSTANT Scenarios <- Calls
INVARIANTS TypeOK UpHasResources StoppedHoldsNothing RunningIsUp EnableBalanced IrqFreedAsRequested
PROPERTIES ResetKeepsDown CallsReturn ResetServed GoneGoesDown
CHECK_DEADLOCK FALSE
