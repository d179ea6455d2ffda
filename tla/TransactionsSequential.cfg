SPECIFICATION Spec
CONSTANTS
    Users = {alice, bob, carol}
    Items = {book}
    TransactionIds = {t1, t2}
    Slots = {s1}
    Offers = {"giving", "lending", "inventorying"}
    Audiences = {"public", "private"}
    MaxRev = 3
    CanCrash = TRUE
SYMMETRY Symmetry
INVARIANTS AtMostOneHolder LegalActions OneActiveRequestPerUser PagesFollowTheServer
CHECK_DEADLOCK FALSE
