\* The same inputs: explicit default ports ("http://h:80") and a --host
\* without a scheme ("h:8042"), as the init help text allows.
CONSTANTS
    NoPort = NoPort
    NoHost = NoHost
    NoDigits = NoDigits
    NoUrl = NoUrl
    ParseError = ParseError
    AddErr = AddErr
    Schemes <- MC_Schemes
    Hosts <- MC_Hosts
    Ports <- MC_Ports
    Digits <- MC_Digits
SPECIFICATION Spec
INVARIANTS ReachesTypedPort
CHECK_DEADLOCK FALSE
