\* Two processes and two secrets: a rotation has one behind it and one ahead.
SPECIFICATION Spec
CONSTANTS
    Procs = {p1, p2}
    Secrets = {s1, s2}
    NoSecret = NoSecret
    MaxPuts = 2
    MaxRotations = 2
    MaxAbandoned = 1
SYMMETRY Symmetric
INVARIANTS
    StoredOpens
    StoredIsLastPut
    UnreadableIsBeingWritten
    MismatchHasCause
