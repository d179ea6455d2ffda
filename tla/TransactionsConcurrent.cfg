SPECIFICATION Spec
CONSTANTS
    Users = {alice, bob, carol}
    Items = {book}
    TransactionIds = {t1, t2}
    Slots = {s1, s2}
    Offers = {"giving", "inventorying"}
    Audiences = {"public"}
    MaxRev = 2
    CanCrash = TRUE
SYMMETRY Symmetry
INVARIANTS TypeOK MovedByConsent OwnershipChain HoldersAreActive
PROPERTIES HistoryOnlyGrows ImplementsOwnership
CHECK_DEADLOCK FALSE
