SPECIFICATION Spec
CONSTANTS
    m1 = m1
    m2 = m2
    m3 = m3
    w1 = w1
    w2 = w2
    w3 = w3
    s1 = s1
    s2 = s2
    s3 = s3
    g1 = g1
    c1 = c1
    Messages = {m1}
    Contents = {c1}
    Senders = {s1, s2}
    Groups = {g1}
    ContentOf <- OneContent
    SenderOf <- SenderEach
    GroupOf <- OneGroup
    Webhooks = {w1}
    EventOf <- OneDelivery
    Untraceable = {}
    Hits = {m1}
    Bypassed = {s2}
    Blacklisted = {s1}
    Phoneless = {}
    Verdicts = {v1}
    Runs = {r1}
    MaxRetries = 1
    MaxFaults = 0
    MaxMishaps = 1
    MaxExpiries = 0
    NoMessage = NoMessage
    NoVerdict = NoVerdict
INVARIANTS ReturnedMeansConcluded
CHECK_DEADLOCK FALSE
