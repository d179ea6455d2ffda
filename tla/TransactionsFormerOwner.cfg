SPECIFICATION Spec
CONSTANTS
    Users = {alice, bob, carol}
    Items = {book}
    TransactionIds = {t1, t2}
    Slots = {s1}
    Offers = {"giving"}
    Audiences = {"public"}
    MaxRev = 1
    CanCrash = FALSE
SYMMETRY Symmetry
INVARIANT ConfirmedHasMoved
CHECK_DEADLOCK FALSE
