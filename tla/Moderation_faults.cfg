SPECIFICATION Spec
CONSTANTS
    m1 = m1
    m2 = m2
    m3 = m3
    w1 = w1
    w2 = w2
    w3 = w3
    s1 = s1
    s2 = s2
    s3 = s3
    g1 = g1
    c1 = c1
    Messages = {m1, m2}
    Contents = {c1}
    Senders = {s1}
    Groups = {g1}
    ContentOf <- OneContent
    SenderOf <- OneSender
    GroupOf <- OneGroup
    Webhooks = {w1, w2, w3}
    EventOf <- ThreeDeliveries
    Untraceable = {}
    Hits = {m1, m2}
    Bypassed = {}
    Blacklisted = {}
    Phoneless = {}
    Verdicts = {v1, v2}
    Runs = {r1, r2}
    MaxRetries = 1
    MaxFaults = 1
    MaxMishaps = 1
    MaxExpiries = 1
    NoMessage = NoMessage
    NoVerdict = NoVerdict
SYMMETRY Symmetry
INVARIANTS ModerationTypeOK ForgottenPaidFor CopiesAgree KicksDeduplicated EscapesPaidFor
CHECK_DEADLOCK FALSE
