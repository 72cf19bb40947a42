CONSTANTS
    u1 = u1
    u2 = u2
    n1 = n1
    n2 = n2
    n3 = n3
    Units = {u1, u2}
    Notices = {n1, n2, n3}
    By <- TwoUnits
    MayBe <- OneOfEach
    Subject <- SameCustomer
    MaxSavepoints <- SavepointInTheTurn
    MaxRestarts = 1
SPECIFICATION FairSpec
INVARIANTS
    ShownAsSentOrKnown
    AlertsTravel
    OnlyWhatWasWritten
PROPERTIES
    NoticesSettle
CHECK_DEADLOCK FALSE
