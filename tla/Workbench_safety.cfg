SPECIFICATION Spec
CONSTANTS
    Tracks = {t1}
    t1 = t1
    Options = {1, 2}
    Texts = {x}
    x = x
    Title = Title
    Refs = {a}
    a = a
    Sorts = {d, e}
    d = d
    e = e
    Modes = {"search", "liked", "artist"}
    Slots = {p, q}
    p = p
    q = q
    MaxPage = 2
    MaxAsks = 2
    MaxBatches = 2
    MaxInFlight = 2
    None = None
SYMMETRY Interchangeable
CONSTRAINT Few
INVARIANTS
    ListIsWhole
    PickedAreShown
    ReadyIsChosen
    LoadingIsAsked
PROPERTIES
    SendsSoundItems
