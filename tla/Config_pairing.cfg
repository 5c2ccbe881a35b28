\* Three services, three key pairs: enough for a client to be removed and
\* re-added, and for an old invitation to be loaded after a newer one.
CONSTANTS
    s1 = s1
    s2 = s2
    s3 = s3
    Services <- MC_Services
    MaxKeys = 3
SYMMETRY MC_Symmetry
SPECIFICATION Spec
INVARIANTS
    NamesUnique
    ServerKeysIdentify
