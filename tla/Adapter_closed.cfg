SPECIFICATION Spec
CONSTANT Scenarios <- Closed
PROPERTIES ResetKeepsDown
