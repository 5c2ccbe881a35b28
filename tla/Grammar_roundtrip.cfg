\* About five thousand command strings of every verb, with fields empty,
\* padded, with inner whitespace, and with too few or too many separators.
\* A parse that fails ends the exchange, so the system stops there.
CONSTANT Inputs <- MC_Inputs
SPECIFICATION Spec
INVARIANTS
    TypeOK
    RoundTrip
CHECK_DEADLOCK FALSE
