SPECIFICATION Spec
CONSTANTS
    w1 = w1
    w2 = w2
    h1 = h1
    i1 = i1
    s1 = s1
    NoUri = NoUri
    Works = {w1, w2}
    Humans = {h1}
    WdWorks = {}
    WdHumans = {}
    Labels = {}
    Labelled = {}
    Items = {i1}
    Slots = {s1}
    MaxAuthors = 1
    MaxRequests = 3
    CanCrash = FALSE
CHECK_DEADLOCK FALSE
PROPERTIES
    OnlyObsoleteAuthorsAreRemoved
