SPECIFICATION Spec
CONSTANTS
    m1 = m1
    m2 = m2
    m3 = m3
    client = client
    r1 = r1
    Model = {m1, m2, m3}
    Resource = {r1, r2}
    Activity = {a, b}
    ClientOf <- TheClients
    NoClient = NoClient
    Follows <- Followers
    All = All
    Loose <- Changing
    Unsaved = Unsaved
    MaxNested = 1
    MaxWaiting = 1
SYMMETRY Same
INVARIANTS SharedTypeOK OrderIsSaved SameArrangement
PROPERTY OrdersAreKept

