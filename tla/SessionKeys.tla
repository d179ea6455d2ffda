----------------------------- MODULE SessionKeys -----------------------------
(***************************************************************************)
(* The keys that sign the session cookies (lib/auto_rotated_keys.js), on   *)
(* the instance that rotates them: a new key each time the newest one gets *)
(* older than the life of a cookie, two keys in memory, and a file they    *)
(* are written to without waiting, to be recovered from at the next start. *)
(* A key is the time it was generated at.  The 100 milliseconds of slack   *)
(* of the code are a unit of time here.                                    *)
(***************************************************************************)
EXTENDS Naturals, FiniteSets

CONSTANTS keysHalfTtl,   \* the life of a cookie, cookieMaxAge
          oneDay,        \* the longest time between two checks, after a generation
          MaxTime        \* bound on time

ASSUME SessionKeysAssumption ==
    keysHalfTtl \in Nat \ {0} /\ oneDay \in Nat \ {0} /\ MaxTime \in Nat

VARIABLES
    clock,     \* Date.now()
    keys,      \* the keys in memory, the newest one first
    file,      \* the keys in the file
    savings,   \* the writes of the file in progress
    nextCheck, \* when the timeout of checkState rings, or none while the server is down
    lostKeys,  \* keys generated by a server that stopped before it had written them
    session    \* the time and the key that some session was signed at and with

sessionKeysVars == <<clock, keys, file, savings, nextCheck, lostKeys, session>>

Times == 0..MaxTime
Down == MaxTime + oneDay + keysHalfTtl + 2
NoSession == [at |-> MaxTime + 1, key |-> MaxTime + 1]
slack == 1

newest(ks) == CHOOSE k \in ks : \A other \in ks : other <= k
lesser(a, b) == IF a < b THEN a ELSE b

\* mutant: the newest key only
OneKey(ks) == IF ks = {} THEN {} ELSE {newest(ks)}

\* mutant: no key is ever dropped
AllKeys(ks) == ks

\* the two newest: "The more keys, the worst performance gets"
twoNewest(ks) == {k \in ks : \A a, b \in ks : a > k /\ b > k => a = b}

SessionKeysInit ==
    /\ clock = 0
    /\ keys = {} /\ file = {} /\ savings = {}
    /\ nextCheck = Down
    /\ lostKeys = {}
    /\ session = NoSession

-----------------------------------------------------------------------------
\* recoverKeysFromFile, then checkState, before the server listens
KeysStart ==
    /\ nextCheck = Down
    /\ keys' = file
    /\ nextCheck' = clock
    /\ UNCHANGED <<clock, file, savings, lostKeys, session>>

\* the time left to the newest key is negative
isOutdated == clock > newest(keys) + keysHalfTtl + slack

needsNewKey == IF keys = {} THEN TRUE ELSE isOutdated

\* the write starts, and is not waited for
generateNewKey ==
    /\ needsNewKey
    /\ keys' = twoNewest(keys \union {clock})
    /\ savings' = savings \union {keys'}
    /\ nextCheck' = clock + lesser(oneDay, keysHalfTtl + slack)
    /\ UNCHANGED <<clock, file, lostKeys, session>>

\* the next check is at the end of the half life of the newest key, with the slack twice
\* (the code caps the timeout at 10 days, which only adds checks of this kind)
checkLater ==
    /\ ~needsNewKey
    /\ nextCheck' = newest(keys) + keysHalfTtl + slack + slack
    /\ UNCHANGED <<clock, keys, file, savings, lostKeys, session>>

checkState ==
    /\ nextCheck # Down
    /\ clock >= nextCheck
    /\ generateNewKey \/ checkLater

saveKeysToDisk(w) ==
    /\ w \in savings
    /\ file' = w
    /\ savings' = savings \ {w}
    /\ UNCHANGED <<clock, keys, nextCheck, lostKeys, session>>

\* the error is logged
SaveFails(w) ==
    /\ savings' = savings \ {w}
    /\ lostKeys' = lostKeys \union {newest(w)}
    /\ UNCHANGED <<clock, keys, file, nextCheck, session>>

\* the server stops; what was not written is lost
KeysStop ==
    /\ nextCheck # Down
    /\ nextCheck' = Down
    /\ keys' = {} /\ savings' = {}
    /\ lostKeys' = lostKeys \union {newest(w) : w \in savings}
    /\ UNCHANGED <<clock, file, session>>

\* a cookie is signed with the first key
SignIn ==
    /\ nextCheck # Down
    /\ keys # {}
    /\ session' = [at |-> clock, key |-> newest(keys)]
    /\ UNCHANGED <<clock, keys, file, savings, nextCheck, lostKeys>>

\* checks may be late, a file is written within a unit of time
Tick ==
    /\ clock < MaxTime
    /\ savings = {}
    /\ clock' = clock + 1
    /\ UNCHANGED <<keys, file, savings, nextCheck, lostKeys, session>>

SessionKeysNext ==
    \/ KeysStart \/ checkState \/ KeysStop
    \/ \E w \in savings : saveKeysToDisk(w) \/ SaveFails(w)
    \/ SignIn
    \/ Tick

SessionKeysSpec == SessionKeysInit /\ [][SessionKeysNext]_sessionKeysVars

-----------------------------------------------------------------------------
(* Properties *)

SessionKeysTypeOK ==
    /\ clock \in Times
    /\ keys \subseteq Times /\ Cardinality(keys) <= 2
    /\ file \subseteq Times
    /\ savings \subseteq SUBSET Times
    /\ nextCheck \in 0..Down
    /\ lostKeys \subseteq Times
    /\ session \in [at : Times, key : Times] \union {NoSession}

\* A session is verified with the keys of the server for the life of its cookie, whenever
\* it was opened in the life of its key, and across restarts: "If a session is started at
\* the end-of-life of a key that session should be allowed to live for cookieMaxAge time"
\* (auto_rotated_keys.js:20-21).  The exception is a key whose write failed or was
\* cut by the end of the server
SessionsLiveLong ==
    (session # NoSession /\ nextCheck # Down /\ keys # {}
       /\ clock <= session.at + keysHalfTtl /\ session.key \notin lostKeys)
    => session.key \in keys
=============================================================================
