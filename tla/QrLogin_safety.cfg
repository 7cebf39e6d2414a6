SPECIFICATION FairSpec
CONSTANTS
    Challenges = {c1, c2}
    Requests = {r1, r2}
    None = None
    MaxRuns = 3
    Faults = {"loss", "failure", "crash"}
INVARIANTS
    VoidedStayOut
    VerdictIsOwn
    PollsOnce
    NoOrphans
PROPERTY
    PollingStops
