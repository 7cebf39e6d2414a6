SPECIFICATION Spec
CONSTANTS
    Tracks = {t1, t2}
    t1 = t1
    t2 = t2
    Elements = {e1, e2, e3}
    e1 = e1
    e2 = e2
    e3 = e3
    None = None
INVARIANTS
    OneAtATime
CHECK_DEADLOCK FALSE
