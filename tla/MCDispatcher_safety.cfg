CONSTANTS
    m1 = m1
    m2 = m2
    m3 = m3
    k1 = k1
    k2 = k2
    Messages = {m1, m2, m3}
    Conversations = {k1}
    ConvOf <- OneCustomer
    Workers = {w1, w2}
    Locks = {l1, l2}
    NoLock = NoLock
    NoTask = NoTask
    MaxSupersedes = 1
    Deploys = TRUE
SPECIFICATION Spec
SYMMETRY Interchangeable
INVARIANTS
    OneTurnPerConversation
    NeitherLostNorTwice
    CarryHasTaker
