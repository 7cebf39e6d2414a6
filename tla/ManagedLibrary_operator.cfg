SPECIFICATION Spec
CONSTANTS
    Songs = {s1, s2}
    s1 = s1
    s2 = s2
    Qualities = {1, 2}
    Lossy = {1}
    MaxJobs = 1
    MaxForeign = 2
    Covers = {TRUE}
    Outside = {"place", "delete", "lyrics"}
    Faults = {"crash", "error"}
    Plain = Plain
    NoFile = NoFile
    Foreign = Foreign
    NoEntry = NoEntry
CONSTRAINT FewForeign
SYMMETRY Interchangeable
INVARIANTS
    IndexNamesTheSong
PROPERTIES
    PlayableStays
    ForeignUntouched
