SPECIFICATION Spec
CONSTANTS
    Jobs = {j1, j2, j3}
    Requests = {r1, r2}
    j1 = j1
    j2 = j2
    j3 = j3
    r1 = r1
    r2 = r2
    Faults = {}
    None = None
SYMMETRY Interchangeable
INVARIANTS
    RetryIsNotBlocked
