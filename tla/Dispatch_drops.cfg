\* One request, each link may drop once: a put, an update or a snapshot
\* can be lost in flight, and the queued list is replayed after a resync.
CONSTANTS
    Portal = p
    Slurm = s
    Account = a
    r1 = r1
    p = p
    s = s
    a = a
    Requests <- MC_Requests
    MaxDrops = 1
SPECIFICATION Spec
INVARIANTS
    TypeOK
    DestinationNotBehind
    IInv
PROPERTIES
    LifecycleRefined
    Convergence
    RemoveUserTerminalWithoutDrops
CHECK_DEADLOCK FALSE
