SPECIFICATION Spec
CONSTANTS
    MaxJobs = 2
    Workers = {w1, w2}
    w1 = w1
    w2 = w2
    Callers = {c1}
    c1 = c1
    MaxItems = 2
    Ops = {"cancel", "retry", "clear"}
    Faults = {"crash", "stop", "escape"}
    NoWorker = NoWorker
SYMMETRY Interchangeable
INVARIANTS
    OneWorkerPerJob
    ActiveIsOwned
    CompletedMeansDelivered
    ArtifactKeepsRow
    IInv
PROPERTIES
    SettledCancelIsFinal
    LifecycleButForCancels
