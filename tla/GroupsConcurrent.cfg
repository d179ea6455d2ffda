SPECIFICATION Spec
CONSTANTS
    s1 = s1
    s2 = s2
    Slots = {s1, s2}
    alice = alice
    bob = bob
    Users = {alice, bob}
    Memberships <- TwoForOne
CHECK_DEADLOCK FALSE
SYMMETRY Symmetry
INVARIANTS
    TypeOK
    MembershipIsMutual
PROPERTIES
    AdminsOnlyLeave
    SettingsKeepMemberships
