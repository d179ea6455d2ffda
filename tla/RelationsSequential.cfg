SPECIFICATION Spec
CONSTANTS
    s1 = s1
    Slots = {s1}
    Users = {1, 2, 3}
    Invitations <- InvitedBoth
    CanCrash = FALSE
CHECK_DEADLOCK FALSE
INVARIANTS
    FriendsBothWantIt
    MutualRequestsMakeFriends
PROPERTIES
    FriendsUntilRemoval
    ImplementsFriendship
