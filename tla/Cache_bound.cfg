\* Two projects, a bound of two reports, five days and one clock
\* correction: eviction happens, a report older than every cached one can
\* be set, and the clock can go back to before every cached date.  A call
\* made before the clock went back returns; after, the loop may spin for
\* ever (Cache_clockback), which is why deadlock is not checked.
CONSTANTS
    p1 = p1
    p2 = p2
    Projects <- MC_Projects
    MaxDay = 4
    Cap = 2
    MaxClockBacks = 1
SPECIFICATION Spec
INVARIANTS
    TypeOK
    CacheBounded
    CachedNotAfterCapturedToday
PROPERTIES
    SetReportReturnsClockForward
CHECK_DEADLOCK FALSE
