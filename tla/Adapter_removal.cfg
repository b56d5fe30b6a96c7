SPECIFICATION FairSpec
CONSTANT Scenarios <- Removed
PROPERTIES CallsReturn
CHECK_DEADLOCK FALSE
