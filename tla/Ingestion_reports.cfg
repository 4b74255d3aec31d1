SPECIFICATION Spec
CONSTANTS
    image1 = image1
    image2 = image2
    list1 = list1
    gif1 = gif1
    Posts = {image1, image2, list1, gif1}
    s1 = s1
    s2 = s2
    Senders = {s1, s2}
    w1 = w1
    w2 = w2
    Words = {w1, w2}
    u1 = u1
    Urls = {u1}
    None = None
    Empty = Empty
    Blank = Blank
    SenderOf <- SenderEach
    SentAt <- Times
    Shown <- Payloads
    Window = 2
    sure = sure
    unsure = unsure
    Analyses = {sure, unsure}
    Doubtful = {unsure}
    MaxTime = 2
    MaxReports = 3
    MaxFailures = 1
INVARIANTS CopiesCollapse NothingPassesUnread VerdictFitsText
CHECK_DEADLOCK FALSE
