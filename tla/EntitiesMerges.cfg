SPECIFICATION Spec
CONSTANTS
    w1 = w1
    w2 = w2
    h1 = h1
    dw = dw
    dh = dh
    en = en
    i1 = i1
    s1 = s1
    s2 = s2
    NoUri = NoUri
    Works = {w1, w2}
    Humans = {h1}
    WdWorks = {dw}
    WdHumans = {dh}
    Labels = {en}
    Labelled = {w1, w2}
    Items = {i1}
    Slots = {s1, s2}
    MaxAuthors = 2
    MaxRequests = 3
    CanCrash = TRUE
SYMMETRY Symmetry
CHECK_DEADLOCK FALSE
INVARIANTS
    TypeOK
    HistoryIsFaithful
    RedirectionsEnd
    ItemsFollowMerges
    MergesLeaveNothingBehind
    RevertUndoesMerge
PROPERTIES
    RedirectionsStand
