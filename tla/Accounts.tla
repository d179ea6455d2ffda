------------------------------- MODULE Accounts -------------------------------
(***************************************************************************)
(* The usernames of accounts (controllers/user/lib): a signup locks the    *)
(* username in memory, checks that no account has it, hashes the password, *)
(* which is slow, and creates the account; a change of username checks     *)
(* its availability too, and takes no lock.  Usernames are available in a  *)
(* lower case view, and locked as they are spelled.                        *)
(***************************************************************************)
EXTENDS Naturals, FiniteSets

CONSTANTS
    Usernames, toLowerCase,   \* spellings, and the lower case of each
    Accounts,                 \* bounds the accounts ever created
    Signups,                  \* signups and renamings that can be in progress at once
    LockTtl,                  \* the life of a lock: 5 seconds
    MaxCreation               \* the longest creation

\* "it has 5 seconds to create the account (which should be at least twice more than what
\* is needed)" (prevent_multi_accounts_creation.js:27-28)
ASSUME AccountsAssumption ==
    /\ LockTtl \in Nat /\ MaxCreation \in Nat /\ MaxCreation <= LockTtl
    /\ "none" \notin Usernames

VARIABLES
    accounts,          \* id -> its document
    signups,           \* slot -> a signup or a renaming in progress
    lockedUsernames    \* the locks and their age

accountsVars == <<accounts, signups, lockedUsernames>>

NoAccount == [username |-> "none"]
NoSignup == [pc |-> "idle"]
NoName == "none"

AccountsInit ==
    /\ accounts = [a \in Accounts |-> NoAccount]
    /\ signups = [c \in Signups |-> NoSignup]
    /\ lockedUsernames = {}

-----------------------------------------------------------------------------
Registered == {a \in Accounts : accounts[a] # NoAccount}

\* the view emits the username and the stable username, if any, of each account
namesOf(doc) == {toLowerCase[n] : n \in {doc.username, doc.stableUsername} \ {NoName}}
byUsername(u) == {a \in Registered : toLowerCase[u] \in namesOf(accounts[a])}

(* Signups: create.js *)

\* mutant: the lock is checked and not taken
CheckLockOnly(u) ==
    /\ \A l \in lockedUsernames : l.username # u
    /\ UNCHANGED lockedUsernames

\* a signup of a locked username throws, and is no step
preventMultiAccountsCreation(u) ==
    /\ \A l \in lockedUsernames : l.username # u
    /\ lockedUsernames' = lockedUsernames \union {[username |-> u, age |-> 0]}

SignUp(c, u) ==
    /\ signups[c] = NoSignup
    /\ preventMultiAccountsCreation(u)
    /\ signups' = [signups EXCEPT ![c] = [pc |-> "checking", username |-> u, age |-> 0]]
    /\ UNCHANGED accounts

\* the username is taken, or invalid, or reserved; the lock stays
Unavailable(c) ==
    /\ signups[c].pc = "checking"
    /\ byUsername(signups[c].username) # {}
    /\ signups' = [signups EXCEPT ![c] = NoSignup]
    /\ UNCHANGED <<accounts, lockedUsernames>>

Available(c) ==
    /\ signups[c].pc = "checking"
    /\ byUsername(signups[c].username) = {}
    /\ signups' = [signups EXCEPT ![c].pc = "hashing"]
    /\ UNCHANGED <<accounts, lockedUsernames>>

\* the document of the account, or of its invitation, is written
Create(c) ==
    /\ signups[c].pc = "hashing"
    /\ \E a \in Accounts \ Registered :
          accounts' = [accounts EXCEPT ![a] =
                          [username |-> signups[c].username, stableUsername |-> NoName,
                           renamed |-> FALSE]]
    /\ signups' = [signups EXCEPT ![c] = NoSignup]
    /\ UNCHANGED lockedUsernames

\* an invalid password or email, a conflict on the invitation, an error of the database
CreationFails(c) ==
    /\ signups[c].pc # "idle"
    /\ signups' = [signups EXCEPT ![c] = NoSignup]
    /\ UNCHANGED <<accounts, lockedUsernames>>

-----------------------------------------------------------------------------
(* Changes of username: update.js *)

\* another case of the current username needs no check
AskToRename(c, a, u) ==
    /\ signups[c] = NoSignup
    /\ a \in Registered
    /\ u # accounts[a].username
    /\ \/ toLowerCase[u] = toLowerCase[accounts[a].username]
       \/ byUsername(u) = {}
    /\ signups' = [signups EXCEPT ![c] =
                      [pc |-> "renaming", account |-> a, username |-> u]]
    /\ UNCHANGED <<accounts, lockedUsernames>>

Rename(c) ==
    /\ signups[c].pc = "renaming"
    /\ accounts' = [accounts EXCEPT ![signups[c].account] =
                       [@ EXCEPT !.username = signups[c].username, !.renamed = TRUE]]
    /\ signups' = [signups EXCEPT ![c] = NoSignup]
    /\ UNCHANGED lockedUsernames

\* the account opens to the fediverse, where its username is to stay
setStableUsername(a) ==
    /\ a \in Registered
    /\ accounts[a].stableUsername = NoName
    /\ accounts' = [accounts EXCEPT ![a].stableUsername = accounts[a].username]
    /\ UNCHANGED <<signups, lockedUsernames>>

-----------------------------------------------------------------------------
(* Time and restarts *)

\* time passes; a signup in progress is younger than MaxCreation
AccountsTick ==
    /\ \A c \in Signups : signups[c].pc \in {"checking", "hashing"} =>
                              signups[c].age < MaxCreation
    /\ signups' = [c \in Signups |-> IF signups[c].pc \in {"checking", "hashing"}
                                     THEN [signups[c] EXCEPT !.age = @ + 1] ELSE signups[c]]
    /\ lockedUsernames' = {[l EXCEPT !.age = IF @ > LockTtl THEN @ ELSE @ + 1] :
                              l \in lockedUsernames}
    /\ UNCHANGED accounts

\* mutant: a lock that is as old as it may be is removed
RemoveLocksTooSoon ==
    /\ lockedUsernames' = {l \in lockedUsernames : l.age < LockTtl}
    /\ UNCHANGED <<accounts, signups>>

\* every 10 seconds
removeExpiredLocks ==
    /\ lockedUsernames' = {l \in lockedUsernames : l.age <= LockTtl}
    /\ UNCHANGED <<accounts, signups>>

AccountsRestart ==
    /\ signups' = [c \in Signups |-> NoSignup]
    /\ lockedUsernames' = {}
    /\ UNCHANGED accounts

AccountsNext ==
    \/ \E c \in Signups, u \in Usernames :
          SignUp(c, u) \/ \E a \in Accounts : AskToRename(c, a, u)
    \/ \E c \in Signups :
          Unavailable(c) \/ Available(c) \/ Create(c) \/ CreationFails(c) \/ Rename(c)
    \/ \E a \in Accounts : setStableUsername(a)
    \/ AccountsTick
    \/ removeExpiredLocks
    \/ AccountsRestart

AccountsSpec == AccountsInit /\ [][AccountsNext]_accountsVars

-----------------------------------------------------------------------------
(* Properties *)

Names == Usernames \union {NoName}
LockAges == 0..(LockTtl + 1)

AccountsTypeOK ==
    /\ accounts \in [Accounts ->
          {NoAccount} \union [username : Usernames, stableUsername : Names,
                              renamed : BOOLEAN]]
    /\ signups \in [Signups ->
          {NoSignup}
            \union [pc : {"checking", "hashing"}, username : Usernames, age : 0..MaxCreation]
            \union [pc : {"renaming"}, username : Usernames, account : Accounts]]
    /\ lockedUsernames \subseteq [username : Usernames, age : LockAges]

NewAccounts == {a \in Registered : ~accounts[a].renamed}

\* Two signups never get the same username, however they overlap, as long as a creation
\* takes less than the life of a lock: "preventing several accounts to be created at the
\* same time" (prevent_multi_accounts_creation.js:1).  A change of username takes no lock,
\* and renamed accounts are left out
OneAccountPerSpelling ==
    \A a, b \in NewAccounts : accounts[a].username = accounts[b].username => a = b

\* ... and, as usernames are compared in lower case, never two cases of the same username:
\* the lock compares them as they are spelled (prevent_multi_accounts_creation.js:12)
OneAccountPerUsername ==
    \A a, b \in NewAccounts :
        toLowerCase[accounts[a].username] = toLowerCase[accounts[b].username] => a = b
=============================================================================
