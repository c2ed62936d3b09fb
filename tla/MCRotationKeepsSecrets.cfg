\* The same store, and what the documentation promises of a rotation.
SPECIFICATION Spec
CONSTANTS
    Procs = {p1, p2}
    Secrets = {s1, s2}
    NoSecret = NoSecret
    MaxPuts = 2
    MaxRotations = 2
    MaxAbandoned = 1
SYMMETRY Symmetric
INVARIANT
    RotationKeepsSecrets
