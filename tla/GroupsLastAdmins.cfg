SPECIFICATION Spec
CONSTANTS
    s1 = s1
    s2 = s2
    Slots = {s1, s2}
    alice = alice
    bob = bob
    carol = carol
    Users = {alice, bob, carol}
    Memberships <- OneEach
CHECK_DEADLOCK FALSE
SYMMETRY Symmetry
INVARIANT NoAdminsNoMembers
