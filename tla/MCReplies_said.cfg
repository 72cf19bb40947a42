\* Comments: one person's four comments, two processes.  ReplyPictures: two messages, any
\* look-ups and sentences, one refused claim.  ModelCalls: two turns, with two notes or photos
\* each, and a deploy between them.
CONSTANTS
    c1 = c1
    c2 = c2
    c3 = c3
    c4 = c4
    p1 = p1
    Comments = {c1, c2, c3, c4}
    People = {p1}
    Commenter <- OnePerson
    Under <- FollowUp
    Says <- OfEachKind
    Instances = {i1, i2}
    FloodLimit = 2
    DmLimit = 1
    MaxDeliveries = 3
    MaxFaults = 1
    None = None
    ColoursOf <- TwoProducts
    InStock <- AllInStock
    Charted = {"tee"}
    Wishes <- Asks
    Sentences <- Writes
    Lookups <- LooksUp
    Searches <- Finds
    PromiseRetries = 1
    LoopCap = 2
    MaxMessages = 2
    MaxRefusals = 1
    BusyRetries = 1
    TruncationRetries = 1
    HopCap = 2
    Window = 2
    MostMedia = 2
    MaxTurns = 2
SPECIFICATION OneOfThree
SYMMETRY Interchangeable
INVARIANTS
    OneReplyEach
    NobodyIgnored
    PromisesKeptOrKnown
    PicturesBelong
    ClaimsBacked
    CutNeverPasses
CHECK_DEADLOCK FALSE
