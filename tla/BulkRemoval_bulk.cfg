SPECIFICATION Spec
CONSTANTS
    m1 = m1
    m2 = m2
    m3 = m3
    p1 = p1
    p2 = p2
    l1 = l1
    g1 = g1
    Messages = {m1, m2, m3}
    Phones = {p1, p2}
    Lids = {l1}
    Groups = {g1}
    PhoneOf <- PhoneEach
    LidOf <- LidEach
    GroupOf <- OneGroup
    Untraceable = {}
    Spam = {m1}
    Hits = {m3}
    Operators = {o1}
    Target <- AllAtOne
    Similar <- Contains
    Sweeps = {s2}
    AllDays = {}
    Limited = {}
    Initial <- Beginning
    Addable <- ForGood
    Withdrawable <- ForATime
    MaxEdits = 1
    MaxMishaps = 1
    None = None
    Everywhere = Everywhere
INVARIANTS BulkTypeOK NoneSlipsThrough ProtectedStay
CHECK_DEADLOCK FALSE
