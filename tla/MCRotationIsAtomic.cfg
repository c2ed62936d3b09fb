\* The provider rotates the refresh token and the secret store fails.
SPECIFICATION Spec
CONSTANTS
    Callers = {c1, c2}
    Nobody = nobody
    MaxAges = 2
    MaxFaults = 1
INVARIANT RotationIsAtomic
CHECK_DEADLOCK FALSE
