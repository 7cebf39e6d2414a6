SPECIFICATION MCSpec
CONSTANTS
    c1 = c1
    c2 = c2
    pre = pre
    dow = dow
    api = api
    log = log
    Requests <- Requested
    Kind <- KindOf
    Control = control
    MediaHosts = {m1, m2}
    CoverHosts = {i1}
    OtherHosts = {x}
    MaxRedirects = 1
    MaxBytes = 2
    Levels = 2
    ImageTypes = {jpeg, png}
    TTL = 1
    MaxNow = 2
    None = None
INVARIANTS
    NetTypeOK
    KeepsToItsHosts
    CacheTypeOK
    ServedFits
    ServedIsRecent
PROPERTIES
    Transfers
    RequestsEnd
CHECK_DEADLOCK FALSE
