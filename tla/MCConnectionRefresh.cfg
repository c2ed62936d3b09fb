\* Two callers, three ageing steps, two faults.
SPECIFICATION FairSpec
CONSTANTS
    Callers = {c1, c2}
    Nobody = nobody
    MaxAges = 3
    MaxFaults = 2
INVARIANTS
    TypeOK
    DispatchableIsCurrent
    RevokedForCause
PROPERTIES
    RefreshRecovers
    ImplementsCustody
\* A revoked Connection does nothing more.
CHECK_DEADLOCK FALSE
