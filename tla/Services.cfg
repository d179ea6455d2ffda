SPECIFICATION ServicesSpec
CONSTANTS
    bob = bob
    Bob = Bob
    FetchKeys = {k1}
    Gets = {g1, g2}
    MaxSource = 1
    HostRequests = {q1, q2, q3}
    MaxBan = 3
    Suspects = {x}
    Suggestions = {p}
    TaskIds = {t1, t2}
    Handlers = {h1, h2}
    keysHalfTtl = 1
    oneDay = 1
    MaxTime = 6
    Usernames = {bob, Bob}
    toLowerCase <- lowered
    Accounts = {a1, a2}
    Signups = {c1, c2}
    LockTtl = 1
    MaxCreation = 1
    Posters = {p1}
    MaxMessages = 2
    IndexedDocs = {d1}
    MaxSeq = 3
    MaxGap = 1
    MaxRestarts = 1
    alice = alice
    Users = {alice, bob}
    Memberships <- OneEach
    Slots = {h1, h2}
INVARIANTS
    ServicesTypeOK
    EachWaitsInOneGroup
    RefreshIsFresh
    BansAreEarned
    
    NoSuggestionTwice
    SessionsLiveLong
    OneAccountPerSpelling
PROPERTIES
    GetsEnd
    MessagesAreNoticed
    IndexCatchesUp
    AdminlessGroupsEnd
CHECK_DEADLOCK FALSE
