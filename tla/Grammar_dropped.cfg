\* The same command strings.
CONSTANT Inputs <- MC_Inputs
SPECIFICATION Spec
INVARIANTS
    NothingDropped
CHECK_DEADLOCK FALSE
