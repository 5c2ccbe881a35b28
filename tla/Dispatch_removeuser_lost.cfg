CONSTANTS
    Portal = p
    Slurm = s
    Account = a
    r1 = r1
    p = p
    s = s
    a = a
    Requests <- MC_Requests
    MaxDrops = 1
SPECIFICATION Spec
PROPERTIES
    RemoveUserEventuallyTerminal
CHECK_DEADLOCK FALSE
