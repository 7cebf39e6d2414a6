SPECIFICATION Spec
CONSTANTS
    Songs = {s1, s2}
    s1 = s1
    s2 = s2
    Qualities = {1, 2, 3}
    Lossy = {1, 2}
    MaxJobs = 2
    MaxForeign = 0
    Covers = {TRUE, FALSE}
    Outside = {}
    Faults = {"crash", "error"}
    Plain = Plain
    NoFile = NoFile
    Foreign = Foreign
    NoEntry = NoEntry
SYMMETRY Interchangeable
INVARIANTS
    OneCopy
PROPERTIES
    QualityNeverDrops
