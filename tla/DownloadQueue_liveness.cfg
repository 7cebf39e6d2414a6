SPECIFICATION FairSpec
CONSTANTS
    MaxJobs = 2
    Workers = {w1, w2}
    w1 = w1
    w2 = w2
    Callers = {c1}
    c1 = c1
    MaxItems = 2
    Ops = {}
    Faults = {"crash", "stop"}
    NoWorker = NoWorker
PROPERTIES
    Lifecycle
    EveryJobSettles
    StopCompletes
