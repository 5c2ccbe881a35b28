\* Six schemes, explicit ports 80 and 443 (defaults) and 8042, "h:8042" and "h".
CONSTANTS
    NoPort = NoPort
    NoHost = NoHost
    NoDigits = NoDigits
    NoUrl = NoUrl
    ParseError = ParseError
    AddErr = AddErr
    Schemes <- MC_Schemes
    Hosts <- MC_Hosts
    Ports <- MC_Ports
    Digits <- MC_Digits
SPECIFICATION Spec
INVARIANTS TypeOK DialsTypedHost
CHECK_DEADLOCK FALSE
