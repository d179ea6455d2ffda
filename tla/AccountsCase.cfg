SPECIFICATION AccountsSpec
CONSTANTS
    bob = bob
    Bob = Bob
    Usernames = {bob, Bob}
    toLowerCase <- lowered
    Accounts = {a1, a2}
    Signups = {c1, c2}
    LockTtl = 1
    MaxCreation = 1
CHECK_DEADLOCK FALSE
INVARIANT OneAccountPerUsername
