\* One clock correction: the clock may go back to before every cached
\* date.  The system stops here because the loop spins for ever.
CONSTANTS
    p1 = p1
    p2 = p2
    Projects <- MC_Projects
    MaxDay = 3
    Cap = 2
    MaxClockBacks = 1
SPECIFICATION Spec
PROPERTIES
    SetReportReturns
CHECK_DEADLOCK FALSE
