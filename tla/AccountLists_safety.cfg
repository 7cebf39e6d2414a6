SPECIFICATION ListsSpec
CONSTANTS
    Accounts = {a, b}
    AccountOf <- TwiceThenOther
    Tracks = {t}
    Jobs = {j}
    Requests = {r1, r2}
    a = a
    b = b
    t = t
    j = j
    r1 = r1
    r2 = r2
    MaxVersion = 2
    MaxLogins = 3
    Faults = {"crash", "failure", "damage"}
SYMMETRY Interchangeable
CONSTRAINT OneKind
INVARIANTS
    VersionNamesOneLogin
    GrantKeepsOffer
    CachesKeepAccounts
    HeartsAgree
