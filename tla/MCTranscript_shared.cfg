\* SessionStore: two messages, two pushes and a turn that orders write the row, whatever
\* transactions overlap; the context and the archive are soon full.  ReplyDelivery: two
\* replies with a picture this process uploads, a push, one report and one mishap.
SPECIFICATION EitherSpec
CONSTANTS
    m1 = m1
    m2 = m2
    p1 = p1
    p2 = p2
    Inbound = {m1, m2}
    Pushes = {p1, p2}
    HistoryCap = 3
    ExpiryCarry = 2
    ArchiveCap = 7
    MaxIdle = 1
    ph1 = ph1
    Pictures = {ph1}
    OnDisk = {ph1}
    UploadsRace = TRUE
    Statuses = {"read"}
    MaxReplies = 2
    MaxPushes = 1
    MaxReports = 1
    MaxMishaps = 1
SYMMETRY Interchangeable
INVARIANTS
    PairsStayTogether
    NothingLost
    ShownWasSent
    IdsNameTheirMessage
CHECK_DEADLOCK FALSE
