\* No drops: the account link is up when the request is refused.
CONSTANTS
    Portal = p
    Slurm = s
    Account = a
    r1 = r1
    p = p
    s = s
    a = a
    Requests <- MC_Requests
    MaxDrops = 0
SPECIFICATION Spec
PROPERTIES
    NoSpuriousNoAccount
CHECK_DEADLOCK FALSE
