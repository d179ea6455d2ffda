---------------------------- MODULE ServicesProofs ----------------------------
(***************************************************************************)
(* What keeps five services right for every value of their constants: a    *)
(* host's ban was earned, a session outlives its keys for half their life, *)
(* the deduplication tasks of a suspect follow it, the request grouper     *)
(* answers every call once, and a refresh with a fresh answer, and one     *)
(* account has each spelling of a username.                                *)
(***************************************************************************)
EXTENDS HostBans, SessionKeys, Tasks, Fetching, Accounts, FiniteSetTheorems, TLAPS

(* Bans are earned, for any number of requests and any bound on bans *)

BansInv == HostBansTypeOK /\ BansAreEarned

LEMMA NoBanIsEarned == NoBan \in Bans /\ EarnedBy(NoBan)
<1>1. NoBan.level = 0 /\ NoBan.ranOut = 0 /\ ~NoBan.running
    BY DEF NoBan
<1>2. NoBan \in Bans
    <2>1. 0 \in 0..MaxBan /\ 0 \in Nat
        BY HostBansAssumption
    <2> QED BY <2>1 DEF Bans, NoBan
<1>3. 0 <= 0 + 0
    OBVIOUS
<1> QED BY <1>1, <1>2, <1>3 DEF EarnedBy

LEMMA BansStart == HostBansInit => BansInv
BY NoBanIsEarned DEF HostBansInit, BansInv, HostBansTypeOK, BansAreEarned

\* what the two operations on a ban do to a ban that is earned
LEMMA BanIncreases ==
    ASSUME NEW ban \in Bans, EarnedBy(ban), ~ban.running, ban.level < MaxBan,
           NEW next, next = [ban EXCEPT !.level = @ + 1, !.running = TRUE]
    PROVE  next \in Bans /\ EarnedBy(next)
<1>1. /\ next.level = ban.level + 1 /\ next.running = TRUE /\ next.ranOut = ban.ranOut
      /\ ban.level \in 0..MaxBan /\ ban.ranOut \in Nat
    BY DEF Bans
<1>2. ban.level <= ban.ranOut + 0
    BY DEF EarnedBy
<1>3. ban.level + 1 \in 0..MaxBan /\ ban.level + 1 <= ban.ranOut + 1
    BY <1>1, <1>2, HostBansAssumption
<1>4. next \in Bans
    BY <1>3 DEF Bans
<1> QED BY <1>1, <1>3, <1>4 DEF EarnedBy

LEMMA BanRunsOut ==
    ASSUME NEW ban \in Bans, EarnedBy(ban), ban.running
    PROVE  RunOut(ban) \in Bans /\ EarnedBy(RunOut(ban))
<1> DEFINE next == RunOut(ban)
<1>1. /\ next.level = ban.level /\ next.running = FALSE /\ next.ranOut = ban.ranOut + 1
      /\ ban.level \in 0..MaxBan /\ ban.ranOut \in Nat
    BY DEF Bans, RunOut
<1>2. ban.level <= ban.ranOut + 1
    BY DEF EarnedBy
<1>3. ban.ranOut + 1 \in Nat /\ ban.level <= (ban.ranOut + 1) + 0
    BY <1>1, <1>2, HostBansAssumption
<1>4. next \in Bans
    BY <1>3 DEF Bans, RunOut
<1> HIDE DEF next
<1>5. EarnedBy(next)
    BY <1>1, <1>3 DEF EarnedBy
<1> QED BY <1>4, <1>5 DEF next

LEMMA BansGoOn == BansInv /\ [HostBansNext]_hostBansVars => BansInv'
<1> SUFFICES ASSUME BansInv, [HostBansNext]_hostBansVars PROVE BansInv'
    OBVIOUS
<1> USE DEF BansInv, HostBansTypeOK, BansAreEarned
<1>1. ASSUME NEW q \in HostRequests,
             Request(q) \/ Reset(q) \/ Fails(q)
      PROVE  BansInv'
    <2>1. /\ requests' \in [HostRequests -> {"none", "sent", "retried"}]
          /\ UNCHANGED <<banData, backedUp, lazyBackup, restoring>>
        BY <1>1 DEF Request, Reset, Fails
    <2> QED BY <2>1 DEF EarnedBy
<1>2. ASSUME NEW q \in HostRequests, TimesOut(q) PROVE BansInv'
    <2>1. /\ requests' \in [HostRequests -> {"none", "sent", "retried"}]
          /\ UNCHANGED <<backedUp, restoring>>
        BY <1>2 DEF TimesOut
    <2>2. CASE isBanned
        <3>1. UNCHANGED <<banData, lazyBackup>>
            BY <1>2, <2>2 DEF TimesOut, declareHostError
        <3> QED BY <2>1, <3>1 DEF EarnedBy
    <2>3. CASE ~isBanned
        <3>1. /\ banData' = [banData EXCEPT !.level = @ + 1, !.running = TRUE]
              /\ lazyBackup' = TRUE
              /\ banData.level < MaxBan
            BY <1>2, <2>3 DEF TimesOut, declareHostError
        <3>2. ~banData.running
            BY <2>3 DEF isBanned, NoBan
        <3>3. banData' \in Bans /\ EarnedBy(banData')
            BY <3>1, <3>2, BanIncreases
        <3> QED BY <2>1, <3>1, <3>3 DEF EarnedBy
    <2> QED BY <2>2, <2>3
<1>3. ASSUME NEW q \in HostRequests, Succeeds(q) PROVE BansInv'
    <2>1. /\ requests' \in [HostRequests -> {"none", "sent", "retried"}]
          /\ UNCHANGED <<backedUp, restoring>>
          /\ banData' = NoBan /\ lazyBackup' = TRUE
        BY <1>3 DEF Succeeds, resetBanData
    <2> QED BY <2>1, NoBanIsEarned DEF EarnedBy
<1>4. CASE BanExpires
    <2>1. /\ banData.running /\ banData' = RunOut(banData)
          /\ backedUp' = IF backedUp.running THEN RunOut(backedUp) ELSE backedUp
          /\ UNCHANGED <<requests, lazyBackup, restoring>>
        BY <1>4 DEF BanExpires
    <2>2. banData' \in Bans /\ EarnedBy(banData')
        BY <2>1, BanRunsOut
    <2>3. backedUp' \in Bans /\ EarnedBy(backedUp')
        BY <2>1, BanRunsOut
    <2> QED BY <2>1, <2>2, <2>3 DEF EarnedBy
<1>5. CASE BackupExpires
    <2>1. /\ backedUp.running /\ backedUp' = RunOut(backedUp)
          /\ UNCHANGED <<requests, banData, lazyBackup, restoring>>
        BY <1>5 DEF BackupExpires
    <2>2. backedUp' \in Bans /\ EarnedBy(backedUp')
        BY <2>1, BanRunsOut
    <2> QED BY <2>1, <2>2 DEF EarnedBy
<1>6. CASE backup
    BY <1>6 DEF backup, EarnedBy
<1>7. CASE HostBansRestart
    <2>1. /\ requests' \in [HostRequests -> {"none", "sent", "retried"}]
          /\ banData' = NoBan
          /\ lazyBackup' \in BOOLEAN /\ restoring' \in BOOLEAN
          /\ UNCHANGED backedUp
        BY <1>7 DEF HostBansRestart
    <2> QED BY <2>1, NoBanIsEarned DEF EarnedBy
<1>8. CASE restoreNonExpiredBans
    BY <1>8 DEF restoreNonExpiredBans, EarnedBy
<1>9. CASE UNCHANGED hostBansVars
    BY <1>9 DEF hostBansVars, EarnedBy
<1> QED BY <1>1, <1>2, <1>3, <1>4, <1>5, <1>6, <1>7, <1>8, <1>9 DEF HostBansNext

\* The ban of a host is increased once per ban that ran out, however many requests are in
\* progress at once, across backups and restarts (requests_temporary_host_ban.js:50-60)
THEOREM BansAreAlwaysEarned == HostBansSpec => []BansAreEarned
<1>1. BansInv => BansAreEarned
    BY DEF BansInv
<1> QED BY <1>1, BansStart, BansGoOn, PTL DEF HostBansSpec

\* Requests, the ban and its backup keep their types, the ban its bound
\* (requests_temporary_host_ban.js:12)
THEOREM BansTypeCorrectness == HostBansSpec => []HostBansTypeOK
<1>1. BansInv => HostBansTypeOK
    BY DEF BansInv
<1> QED BY <1>1, BansStart, BansGoOn, PTL DEF HostBansSpec

-----------------------------------------------------------------------------
(* Keys of sessions *)

up == nextCheck # Down

\* sets of two keys, which may be one, or none
Pairs(now) == {ks \in SUBSET Nat : ks = {} \/ \E a, b \in 0..now : ks = {a, b}}

Shapes ==
    /\ clock \in Nat /\ clock <= MaxTime
    /\ keys \in Pairs(clock) /\ file \in Pairs(clock)
    /\ session = NoSession \/ session \in [at : 0..clock, key : Nat]

\* what is being written is what is in memory, and was generated just now
SavingsAreNew ==
    /\ savings \subseteq {keys}
    /\ savings # {} => up /\ clock \in keys

\* the keys of the file are not newer than those in memory
FileIsOlder == up => \A f \in file : \E k \in keys : f <= k

\* a key is in the file, or about to be, unless it is lost
KeysAreSaved ==
    up => \A k \in keys : k \in file \/ k \in lostKeys \/ (savings # {} /\ k = clock)

alive == session # NoSession /\ clock <= session.at + keysHalfTtl /\ session.key \notin lostKeys

\* a key that is newer than that of a session was generated after the session was opened
SessionIsKnown ==
    alive => /\ session.key \in IF up THEN keys ELSE file
             /\ \A k \in keys \union file : k > session.key => session.at <= k

KeysInv == Shapes /\ SavingsAreNew /\ FileIsOlder /\ KeysAreSaved /\ SessionIsKnown

-----------------------------------------------------------------------------
LEMMA NewestIsGreatest ==
    ASSUME NEW now \in Nat, NEW ks \in Pairs(now), ks # {}
    PROVE  /\ newest(ks) \in ks /\ newest(ks) \in 0..now
           /\ \A k \in ks : k <= newest(ks)
<1>1. PICK a, b \in 0..now : ks = {a, b}
    BY DEF Pairs
<1>2. \E k \in ks : \A other \in ks : other <= k
    <2>1. CASE a <= b
        BY <1>1, <2>1
    <2>2. CASE b <= a
        BY <1>1, <2>2
    <2> QED BY <1>1, <2>1, <2>2
<1>3. newest(ks) \in ks /\ \A k \in ks : k <= newest(ks)
    BY <1>2 DEF newest
<1> QED BY <1>1, <1>3

\* time widens what a set of keys may be
LEMMA PairsGrow ==
    ASSUME NEW now \in Nat, NEW later \in Nat, now <= later
    PROVE  Pairs(now) \subseteq Pairs(later)
<1>1. 0..now \subseteq 0..later
    OBVIOUS
<1> QED BY <1>1 DEF Pairs

LEMMA TwoNewestOfTheNext ==
    ASSUME NEW now \in Nat, NEW ks \in Pairs(now),
           ks # {} => now > newest(ks)
    PROVE  twoNewest(ks \union {now}) = (IF ks = {} THEN {} ELSE {newest(ks)}) \union {now}
<1>1. CASE ks = {}
    BY <1>1 DEF twoNewest
<1>2. CASE ks # {}
    <2>1. /\ newest(ks) \in ks /\ newest(ks) \in Nat
          /\ \A k \in ks : k <= newest(ks) /\ k \in Nat
        BY <1>2, NewestIsGreatest DEF Pairs
    <2> DEFINE m == newest(ks)
    <2> HIDE DEF m
    <2>2. m \in ks /\ m \in Nat /\ m < now /\ \A k \in ks : k <= m /\ k \in Nat
        BY <1>2, <2>1 DEF m
    <2>3. m \in twoNewest(ks \union {now}) /\ now \in twoNewest(ks \union {now})
        BY <2>2 DEF twoNewest
    <2>4. ASSUME NEW k \in twoNewest(ks \union {now}), k # now, k # m PROVE FALSE
        <3>1. k \in ks /\ m > k /\ now > k
            BY <2>2, <2>4 DEF twoNewest
        <3> QED BY <2>2, <3>1 DEF twoNewest
    <2>5. twoNewest(ks \union {now}) = {m} \union {now}
        BY <2>3, <2>4
    <2> QED BY <1>2, <2>5 DEF m
<1> QED BY <1>1, <1>2

LEMMA KeysBegin == SessionKeysInit => KeysInv
<1> SUFFICES ASSUME SessionKeysInit PROVE KeysInv
    OBVIOUS
<1>1. Shapes
    BY SessionKeysAssumption DEF SessionKeysInit, Shapes, Pairs
<1> QED BY <1>1 DEF SessionKeysInit, KeysInv, SavingsAreNew, FileIsOlder, KeysAreSaved,
                    SessionIsKnown, alive, up

LEMMA KeysGoOn == KeysInv /\ [SessionKeysNext]_sessionKeysVars => KeysInv'
<1> SUFFICES ASSUME KeysInv, [SessionKeysNext]_sessionKeysVars PROVE KeysInv'
    OBVIOUS
<1> USE DEF KeysInv
<1>c. /\ clock \in Nat /\ clock <= MaxTime /\ MaxTime \in Nat
      /\ keysHalfTtl \in Nat /\ keysHalfTtl > 0 /\ oneDay \in Nat /\ oneDay > 0
    BY SessionKeysAssumption DEF Shapes
<1>p. keys \in Pairs(clock) /\ file \in Pairs(clock)
    BY DEF Shapes
<1>k. \A k \in keys \union file : k \in Nat /\ k <= clock
    BY <1>c DEF Shapes, Pairs
<1>n. keys # {} => /\ newest(keys) \in keys /\ newest(keys) \in Nat
                   /\ newest(keys) <= clock /\ \A k \in keys : k <= newest(keys)
    BY <1>c, <1>k, <1>p, NewestIsGreatest
<1>s. session # NoSession => session.at \in Nat /\ session.at <= clock /\ session.key \in Nat
    BY <1>c DEF Shapes
<1>1. CASE KeysStart
    <2>1. /\ ~up /\ up' /\ keys' = file /\ savings = {}
          /\ UNCHANGED <<clock, file, savings, lostKeys, session>>
        BY <1>1, <1>c DEF KeysStart, up, Down, SavingsAreNew
    <2>2. Shapes'
        BY <2>1 DEF Shapes
    <2>3. SavingsAreNew' /\ FileIsOlder' /\ KeysAreSaved'
        BY <1>k, <2>1 DEF SavingsAreNew, FileIsOlder, KeysAreSaved
    <2>4. SessionIsKnown'
        BY <2>1 DEF SessionIsKnown, alive
    <2> QED BY <2>2, <2>3, <2>4
<1>2. CASE checkState /\ generateNewKey
    <2>1. /\ up /\ needsNewKey
          /\ keys' = twoNewest(keys \union {clock})
          /\ savings' = savings \union {keys'}
          /\ nextCheck' = clock + lesser(oneDay, keysHalfTtl + slack)
          /\ UNCHANGED <<clock, file, lostKeys, session>>
        BY <1>2 DEF checkState, generateNewKey, up
    <2>2. up'
        <3>1. lesser(oneDay, keysHalfTtl + slack) \in Nat
              /\ lesser(oneDay, keysHalfTtl + slack) <= oneDay
            BY <1>c DEF lesser, slack
        <3> QED BY <1>c, <2>1, <3>1 DEF up, Down
    <2>3. keys # {} => clock > newest(keys) + keysHalfTtl + 1
        BY <2>1 DEF needsNewKey, isOutdated, slack
    <2>4. keys # {} => clock > newest(keys)
        BY <1>c, <1>n, <2>3
    <2>5. keys' = (IF keys = {} THEN {} ELSE {newest(keys)}) \union {clock}
        BY <1>c, <1>p, <2>1, <2>4, TwoNewestOfTheNext
    <2>6. savings = {}
        BY <1>n, <1>c, <2>4 DEF SavingsAreNew
    <2>7. Shapes'
        <3>1. CASE keys = {}
            <4>1. keys' = {clock, clock} /\ clock \in 0..clock
                BY <1>c, <2>5, <3>1
            <4>2. keys' \in Pairs(clock)
                BY <4>1 DEF Pairs
            <4> QED BY <2>1, <4>2 DEF Shapes
        <3>2. CASE keys # {}
            <4>1. keys' = {newest(keys), clock} /\ clock \in 0..clock /\ newest(keys) \in 0..clock
                BY <1>c, <1>n, <2>5, <3>2
            <4>2. keys' \in Pairs(clock)
                BY <4>1 DEF Pairs
            <4> QED BY <2>1, <4>2 DEF Shapes
        <3> QED BY <3>1, <3>2
    <2>8. SavingsAreNew'
        BY <2>1, <2>2, <2>5, <2>6 DEF SavingsAreNew
    <2>9. FileIsOlder'
        BY <1>k, <2>1, <2>5 DEF FileIsOlder
    <2>10. KeysAreSaved'
        <3>1. \A k \in keys' : k = clock \/ k \in keys
            BY <1>n, <2>5
        <3>2. savings' # {}
            BY <2>1
        <3> QED BY <2>1, <2>6, <3>1, <3>2 DEF KeysAreSaved
    <2>11. SessionIsKnown'
        <3> SUFFICES ASSUME alive'
                     PROVE  /\ session.key \in keys'
                            /\ \A k \in keys' \union file : k > session.key => session.at <= k
            BY <2>1, <2>2 DEF SessionIsKnown
        <3>1. alive
            BY <2>1 DEF alive
        <3>2. /\ session.key \in keys
              /\ \A k \in keys \union file : k > session.key => session.at <= k
            BY <2>1, <3>1 DEF SessionIsKnown
        <3>3. ~(newest(keys) > session.key)
            <4> SUFFICES ASSUME newest(keys) > session.key PROVE FALSE
                OBVIOUS
            <4>1. session.at <= newest(keys) /\ clock <= session.at + keysHalfTtl
                BY <1>n, <3>1, <3>2 DEF alive
            <4> QED BY <1>c, <1>n, <1>s, <2>3, <3>1, <3>2, <4>1 DEF alive
        <3>4. session.key = newest(keys)
            BY <1>n, <1>s, <3>1, <3>2, <3>3 DEF alive
        <3>5. session.key \in keys'
            BY <2>5, <3>2, <3>4
        <3>6. \A k \in keys' : k = clock \/ k \in keys
            BY <1>n, <2>5
        <3> QED BY <1>s, <3>1, <3>2, <3>5, <3>6 DEF alive
    <2> QED BY <2>7, <2>8, <2>9, <2>10, <2>11
<1>3. CASE checkState /\ checkLater
    <2>1. /\ up /\ keys # {}
          /\ nextCheck' = newest(keys) + keysHalfTtl + slack + slack
          /\ UNCHANGED <<clock, keys, file, savings, lostKeys, session>>
        BY <1>3 DEF checkState, checkLater, needsNewKey, up
    <2>2. up'
        BY <1>c, <1>n, <2>1 DEF up, Down, slack
    <2> QED BY <2>1, <2>2 DEF Shapes, SavingsAreNew, FileIsOlder, KeysAreSaved,
                              SessionIsKnown, alive
<1>4. ASSUME NEW w \in savings, saveKeysToDisk(w) PROVE KeysInv'
    <2>1. /\ file' = keys /\ savings' = {} /\ up /\ up'
          /\ UNCHANGED <<clock, keys, nextCheck, lostKeys, session>>
        BY <1>4 DEF saveKeysToDisk, SavingsAreNew, up
    <2>2. Shapes' /\ SavingsAreNew' /\ KeysAreSaved'
        BY <2>1 DEF Shapes, SavingsAreNew, KeysAreSaved
    <2>3. FileIsOlder'
        BY <1>k, <2>1 DEF FileIsOlder
    <2>4. SessionIsKnown'
        BY <2>1 DEF SessionIsKnown, alive
    <2> QED BY <2>2, <2>3, <2>4
<1>5. ASSUME NEW w \in savings, SaveFails(w) \/ KeysStop PROVE KeysInv'
    <2>1. w = keys /\ up /\ clock \in keys
        BY DEF SavingsAreNew
    <2>2. newest(keys) = clock
        BY <1>c, <1>n, <2>1
    <2>3. /\ savings' = {} /\ clock \in lostKeys' /\ lostKeys \subseteq lostKeys'
          /\ UNCHANGED <<clock, file, session>>
          /\ (up' /\ keys' = keys) \/ (~up' /\ keys' = {})
        BY <1>5, <2>1, <2>2 DEF SaveFails, KeysStop, SavingsAreNew, up, Down
    <2>4. \A k \in keys : k \in file \/ k \in lostKeys'
        BY <2>1, <2>3 DEF KeysAreSaved
    <2>5. Shapes'
        BY <2>3 DEF Shapes, Pairs
    <2>6. SavingsAreNew' /\ FileIsOlder' /\ KeysAreSaved'
        BY <2>1, <2>3, <2>4 DEF SavingsAreNew, FileIsOlder, KeysAreSaved
    <2>7. SessionIsKnown'
        BY <2>1, <2>3, <2>4 DEF SessionIsKnown, alive
    <2> QED BY <2>5, <2>6, <2>7
<1>6. CASE KeysStop /\ savings = {}
    <2>1. /\ up /\ ~up' /\ savings' = {} /\ keys' = {} /\ lostKeys' = lostKeys
          /\ UNCHANGED <<clock, file, session>>
        BY <1>6 DEF KeysStop, up, Down
    <2>2. \A k \in keys : k \in file \/ k \in lostKeys
        BY <1>6, <2>1 DEF KeysAreSaved
    <2>3. Shapes'
        BY <2>1 DEF Shapes, Pairs
    <2>4. SavingsAreNew' /\ FileIsOlder' /\ KeysAreSaved'
        BY <2>1 DEF SavingsAreNew, FileIsOlder, KeysAreSaved
    <2>5. SessionIsKnown'
        BY <2>1, <2>2 DEF SessionIsKnown, alive
    <2> QED BY <2>3, <2>4, <2>5
<1>7. CASE SignIn
    <2>1. /\ up /\ up' /\ keys # {}
          /\ session' = [at |-> clock, key |-> newest(keys)]
          /\ UNCHANGED <<clock, keys, file, savings, lostKeys>>
        BY <1>7 DEF SignIn, up
    <2>2. Shapes'
        BY <1>c, <1>n, <2>1 DEF Shapes
    <2>3. SavingsAreNew' /\ FileIsOlder' /\ KeysAreSaved'
        BY <2>1 DEF SavingsAreNew, FileIsOlder, KeysAreSaved
    <2>4. \A k \in keys \union file : ~(k > newest(keys))
        <3>1. \A f \in file : \E k \in keys : f <= k
            BY <2>1 DEF FileIsOlder
        <3> QED BY <1>k, <1>n, <2>1, <3>1
    <2>5. SessionIsKnown'
        BY <1>n, <2>1, <2>4 DEF SessionIsKnown
    <2> QED BY <2>2, <2>3, <2>5
<1>8. CASE Tick
    <2>1. /\ clock < MaxTime /\ savings = {} /\ clock' = clock + 1
          /\ UNCHANGED <<keys, file, savings, nextCheck, lostKeys, session>>
        BY <1>8 DEF Tick
    <2>2. Shapes'
        <3>1. Pairs(clock) \subseteq Pairs(clock')
            BY <1>c, <2>1, PairsGrow
        <3>2. 0..clock \subseteq 0..clock'
            BY <1>c, <2>1
        <3> QED BY <1>c, <2>1, <3>1, <3>2 DEF Shapes
    <2>3. SavingsAreNew' /\ FileIsOlder' /\ KeysAreSaved'
        BY <2>1 DEF SavingsAreNew, FileIsOlder, KeysAreSaved, up, Down
    <2>4. alive' => alive
        BY <1>c, <1>s, <2>1 DEF alive
    <2>5. SessionIsKnown'
        BY <2>1, <2>4 DEF SessionIsKnown, up, Down
    <2> QED BY <2>2, <2>3, <2>5
<1>9. CASE UNCHANGED sessionKeysVars
    BY <1>9 DEF sessionKeysVars, Shapes, SavingsAreNew, FileIsOlder, KeysAreSaved,
                SessionIsKnown, alive, up
<1> QED BY <1>1, <1>2, <1>3, <1>4, <1>5, <1>6, <1>7, <1>8, <1>9
        DEF SessionKeysNext, checkState

\* A server that has keys knows that of every session whose cookie is still valid, except
\* for keys lost with their file, for any life of a cookie, delays of the checks, failures
\* of the file and restarts (auto_rotated_keys.js)
THEOREM SessionsOutliveKeys == SessionKeysSpec => []SessionsLiveLong
<1>1. KeysInv => SessionsLiveLong
    BY DEF KeysInv, SessionIsKnown, SessionsLiveLong, alive, up
<1> QED BY KeysBegin, KeysGoOn, <1>1, PTL DEF SessionKeysSpec

-----------------------------------------------------------------------------
(* Tasks: a suspect in order has handlers that do not clash, one of which covers  *)
(* every task that has yet to follow it, and checks that know what is suggested  *)

\* what a handler in progress has read: tasks of its suspect, which still exist once they
\* have been read by id
ShapedAs(handler) ==
    \/ /\ handler.kind = "check" /\ handler.pc \in {"resolved", "searching"}
       /\ handler.suspect \in Suspects /\ handler.entity \in Suspects
    \/ /\ handler.kind = "score" /\ handler.pc \in {"scoring", "updating", "writing"}
       /\ handler.suspect \in Suspects
    \/ /\ handler.kind = "dismiss" /\ handler.pc \in {"updating", "writing"}
       /\ handler.suspect \in Suspects
    \/ /\ handler.kind \in Listeners /\ handler.pc \in {"written", "updating", "writing"}
       /\ handler.suspect \in Suspects
    \/ handler.kind = "delete" /\ handler.pc = "writing" /\ handler.suspect = "none"

Reads(handler) ==
    \A t \in handler.ids :
       /\ tasks[t] # NoTask
       /\ handler.pc = "writing" => t \in Created
       /\ (handler.kind # "delete" /\ t \in Created) => tasks[t].suspectUri = handler.suspect

HandlersInv == \A h \in Handlers : inProgress(h) => /\ ShapedAs(handlers[h])
                                                    /\ Reads(handlers[h])

tasksOf(s) == {t \in TaskIds : tasks[t].suspectUri = s}

\* handlers of s do not clash, and are those of an entity that is gone or that is there
NoClash(s) ==
    \A g1, g2 \in Handlers : (g1 # g2 /\ isAbout(g1, s) /\ isAbout(g2, s))
                             => ~clash(handlers[g1].kind, handlers[g2].kind)
Matches(s) ==
    \A g \in Handlers : isAbout(g, s) =>
        /\ handlers[g].kind = "archive" => gone(s)
        /\ handlers[g].kind \in {"revert", "check"} => ~gone(s)

\* a task that has not followed yet is one that a listener will write
covers(g, s, t) ==
    /\ isAbout(g, s) /\ handlers[g].kind \in Listeners
    /\ handlers[g].pc = "written" \/ t \in handlers[g].ids
toFollow(s) == IF gone(s) THEN "live" ELSE "merged"
Covered(s) ==
    \A t \in tasksOf(s) : tasks[t].state = toFollow(s) => \E g \in Handlers : covers(g, s, t)

\* a check knows what is suggested already
Knows(s) ==
    \A g \in Handlers, t \in tasksOf(s) :
        (isAbout(g, s) /\ handlers[g].pc = "searching" /\ tasks[t].state = "live")
        => tasks[t].suggestionUri \in handlers[g].known

\* the tasks that are live, that may be again, or that a listener will make so
held(s, t) ==
    /\ t \in tasksOf(s)
    /\ \/ tasks[t].state \in {"live", "merged"}
       \/ \E g \in Handlers : /\ isAbout(g, s) /\ handlers[g].kind \in Listeners
                              /\ t \in handlers[g].ids
Distinct(s) ==
    \A t1, t2 \in TaskIds : (held(s, t1) /\ held(s, t2) /\ t1 # t2)
                            => tasks[t1].suggestionUri # tasks[t2].suggestionUri

InOrder(s) == NoClash(s) /\ Matches(s) /\ Covered(s) /\ Knows(s) /\ Distinct(s)

TasksInv == /\ TasksTypeOK /\ HandlersInv
            /\ \A s \in Suspects \ (lapsed \union strays) : InOrder(s)
-----------------------------------------------------------------------------

\* a handler in progress has the type of one, an idle slot has none
LEMMA Slots_ ==
    ASSUME TasksTypeOK, NEW g \in Handlers
    PROVE  /\ inProgress(g) => handlers[g] \in Progress
           /\ ~inProgress(g) => handlers[g] = NoHandler
<1>1. handlers[g] \in Progress \union {NoHandler}
    BY DEF TasksTypeOK
<1>2. \A handler \in Progress : handler.kind # "none"
    BY DEF Progress
<1>3. NoHandler.kind = "none"
    BY DEF NoHandler
<1> QED
    BY <1>1, <1>2, <1>3 DEF inProgress

\* the documents of tasks that are neither deleted nor to come
LEMMA Documents_ ==
    ASSUME TasksTypeOK, NEW t \in TaskIds
    PROVE  /\ t \in Created => tasks[t] \in TaskDocs
           /\ t \in Created <=> tasks[t] \notin {NoTask, DeletedTask}
           /\ \A s \in Suspects : t \in tasksOf(s) => t \in Created
<1>1. tasks[t] \in TaskDocs \union {NoTask, DeletedTask}
    BY DEF TasksTypeOK
<1>2. NoTask.suspectUri = "none" /\ DeletedTask.suspectUri = "deleted"
    BY DEF NoTask, DeletedTask
<1>3. \A task \in TaskDocs : task.suspectUri \in Suspects
    BY DEF TaskDocs
<1>4. "none" \notin Suspects /\ "deleted" \notin Suspects
    BY TasksAssumption
<1> QED
    BY <1>1, <1>2, <1>3, <1>4 DEF Created, tasksOf

\* a new handler, and one that loses ids, have the type of handlers
LEMMA NewHandler ==
    ASSUME NEW kind \in {"check", "score", "dismiss", "archive", "revert", "delete"},
           NEW pc \in {"resolved", "searching", "scoring", "written", "updating", "writing"},
           NEW s \in Suspects \union {"none"}
    PROVE  /\ Handler(kind, pc, s) \in Progress
           /\ Handler(kind, pc, s).kind = kind
           /\ Handler(kind, pc, s).pc = pc
           /\ Handler(kind, pc, s).suspect = s
           /\ Handler(kind, pc, s).ids = {}
    BY DEF Handler, Progress

LEMMA LosingIds ==
    ASSUME NEW handler \in Progress \union {NoHandler}, NEW ids
    PROVE  /\ withoutWritten(handler, ids) \in Progress \union {NoHandler}
           /\ withoutWritten(handler, ids).kind = handler.kind
           /\ handler.kind # "none" =>
                 /\ withoutWritten(handler, ids).pc = handler.pc
                 /\ withoutWritten(handler, ids).suspect = handler.suspect
                 /\ withoutWritten(handler, ids).entity = handler.entity
                 /\ withoutWritten(handler, ids).known = handler.known
                 /\ withoutWritten(handler, ids).ids =
                       IF handler.pc = "writing" THEN handler.ids \ ids ELSE handler.ids
<1>1. CASE handler = NoHandler
    BY <1>1 DEF withoutWritten, NoHandler
<1>2. CASE handler \in Progress
    BY <1>2 DEF withoutWritten, Progress
<1> QED
    BY <1>1, <1>2

LEMMA LosingNothing ==
    ASSUME NEW handler \in Progress \union {NoHandler}
    PROVE  withoutWritten(handler, {}) = handler
<1>1. CASE handler = NoHandler
    BY <1>1 DEF withoutWritten, NoHandler
<1>2. CASE handler \in Progress
  <2>1. handler.ids \ {} = handler.ids
      OBVIOUS
  <2>2. [handler EXCEPT !.ids = handler.ids] = handler
      BY <1>2 DEF Progress
  <2> QED
      BY <2>1, <2>2 DEF withoutWritten
<1> QED
    BY <1>1, <1>2

-----------------------------------------------------------------------------
(* A step moves one slot; the others lose the documents that it writes *)

Move(h, ids) ==
    /\ handlers' \in [Handlers -> Progress \union {NoHandler}]
    /\ \A g \in Handlers \ {h} : handlers'[g] = withoutWritten(handlers[g], ids)

LEMMA GoesOnMoves ==
    ASSUME TasksTypeOK, NEW h \in Handlers, NEW handler \in Progress \union {NoHandler},
           handlers' = [handlers EXCEPT ![h] = handler]
    PROVE  Move(h, {}) /\ handlers'[h] = handler
<1>1. handlers \in [Handlers -> Progress \union {NoHandler}]
    BY DEF TasksTypeOK
<1>2. \A g \in Handlers : handlers[g] = withoutWritten(handlers[g], {})
    BY <1>1, LosingNothing
<1>3. handlers' \in [Handlers -> Progress \union {NoHandler}] /\ handlers'[h] = handler
    BY <1>1
<1>4. \A g \in Handlers \ {h} : handlers'[g] = handlers[g]
    BY <1>1
<1> QED
    BY <1>2, <1>3, <1>4 DEF Move

LEMMA EndsMoves ==
    ASSUME TasksTypeOK, NEW h \in Handlers, Ends(h)
    PROVE  Move(h, {}) /\ handlers'[h] = NoHandler /\ ~inProgress(h)' /\ lapsed' = lapsed
<1>1. handlers' = [handlers EXCEPT ![h] = NoHandler] /\ lapsed' = lapsed
    BY DEF Ends
<1>2. Move(h, {}) /\ handlers'[h] = NoHandler
    BY <1>1, GoesOnMoves
<1> QED
    BY <1>1, <1>2 DEF inProgress, NoHandler

LEMMA WritesMove ==
    ASSUME TasksTypeOK, NEW h \in Handlers, NEW handler \in Progress \union {NoHandler}, NEW ids,
           handlers' = [g \in Handlers |-> IF g = h THEN handler
                                           ELSE withoutWritten(handlers[g], ids)]
    PROVE  Move(h, ids) /\ handlers'[h] = handler
<1>1. \A g \in Handlers : withoutWritten(handlers[g], ids) \in Progress \union {NoHandler}
    BY LosingIds DEF TasksTypeOK
<1>2. handlers' \in [Handlers -> Progress \union {NoHandler}]
    BY <1>1
<1> QED
    BY <1>2 DEF Move

LEMMA OthersMove ==
    ASSUME TasksTypeOK, NEW h \in Handlers, NEW ids, Move(h, ids), NEW g \in Handlers \ {h}
    PROVE  /\ inProgress(g)' <=> inProgress(g)
           /\ \A s : isAbout(g, s)' <=> isAbout(g, s)
           /\ inProgress(g) =>
                 /\ handlers'[g].kind = handlers[g].kind
                 /\ handlers'[g].pc = handlers[g].pc
                 /\ handlers'[g].suspect = handlers[g].suspect
                 /\ handlers'[g].entity = handlers[g].entity
                 /\ handlers'[g].known = handlers[g].known
                 /\ handlers'[g].ids = IF handlers[g].pc = "writing" THEN handlers[g].ids \ ids
                                       ELSE handlers[g].ids
<1>1. handlers'[g] = withoutWritten(handlers[g], ids)
    BY DEF Move
<1>2. handlers[g] \in Progress \union {NoHandler}
    BY DEF TasksTypeOK
<1> DEFINE handler == handlers[g]
<1> HIDE DEF handler
<1>3. /\ withoutWritten(handler, ids).kind = handler.kind
      /\ handler.kind # "none" =>
            /\ withoutWritten(handler, ids).pc = handler.pc
            /\ withoutWritten(handler, ids).suspect = handler.suspect
            /\ withoutWritten(handler, ids).entity = handler.entity
            /\ withoutWritten(handler, ids).known = handler.known
            /\ withoutWritten(handler, ids).ids = IF handler.pc = "writing"
                                                  THEN handler.ids \ ids ELSE handler.ids
  <2>1. handler \in Progress \union {NoHandler}
      BY <1>2 DEF handler
  <2> QED
      BY <2>1, LosingIds
<1>4. /\ handlers'[g].kind = handlers[g].kind
      /\ handlers[g].kind # "none" =>
            /\ handlers'[g].pc = handlers[g].pc
            /\ handlers'[g].suspect = handlers[g].suspect
            /\ handlers'[g].entity = handlers[g].entity
            /\ handlers'[g].known = handlers[g].known
            /\ handlers'[g].ids = IF handlers[g].pc = "writing" THEN handlers[g].ids \ ids
                                  ELSE handlers[g].ids
    BY <1>1, <1>3 DEF handler
<1> QED
    BY <1>4, Zenon DEF inProgress, isAbout

\* what a step does to the tasks there are: none is forgotten, and those that it deletes
\* are among the ids it writes
TasksKept(ids) ==
    \A t \in TaskIds : tasks[t] # NoTask =>
        /\ tasks'[t] # NoTask
        /\ t \in Created' => t \in Created /\ tasks'[t].suspectUri = tasks[t].suspectUri
        /\ t \in Created => t \in Created' \/ t \in ids

LEMMA UnchangedTasks == ASSUME TasksTypeOK, tasks' = tasks PROVE TasksKept({})
    BY DEF TasksKept, Created

LEMMA OthersRead ==
    ASSUME TasksTypeOK, HandlersInv, NEW h \in Handlers, NEW ids, Move(h, ids), TasksKept(ids),
           inProgress(h)' => ShapedAs(handlers'[h]) /\ Reads(handlers[h])'
    PROVE  HandlersInv'
<1> SUFFICES ASSUME NEW g \in Handlers, g # h, inProgress(g)'
             PROVE  ShapedAs(handlers'[g]) /\ Reads(handlers[g])'
    BY DEF HandlersInv
<1>1. /\ inProgress(g)
      /\ handlers'[g].kind = handlers[g].kind
      /\ handlers'[g].pc = handlers[g].pc
      /\ handlers'[g].suspect = handlers[g].suspect
      /\ handlers'[g].entity = handlers[g].entity
      /\ handlers'[g].ids = IF handlers[g].pc = "writing" THEN handlers[g].ids \ ids
                            ELSE handlers[g].ids
    BY OthersMove
<1>2. ShapedAs(handlers[g]) /\ Reads(handlers[g])
    BY <1>1 DEF HandlersInv
<1>3. ShapedAs(handlers'[g])
    BY <1>1, <1>2 DEF ShapedAs
<1>4. handlers[g].ids \subseteq TaskIds
    BY <1>1, Slots_ DEF Progress
<1>5. Reads(handlers[g])'
    BY <1>1, <1>2, <1>4 DEF Reads, TasksKept
<1> QED
    BY <1>3, <1>5

-----------------------------------------------------------------------------
(* What keeps a suspect in order *)

LEMMA ClashIsMutual == \A a, b : clash(a, b) <=> clash(b, a)
    BY Zenon DEF clash

settled(s) == IF gone(s) THEN "merged" ELSE "live"

\* the tasks of s are left as they are, dismissed, deleted, or follow the entity
TasksFollow(s) ==
    \A t \in TaskIds : t \in tasksOf(s)' =>
        /\ t \in tasksOf(s)
        /\ tasks'[t].suggestionUri = tasks[t].suggestionUri
        /\ \/ tasks'[t].state \in {tasks[t].state, "dismissed"}
           \/ /\ held(s, t) /\ tasks'[t].state = settled(s)
              /\ \A g \in Handlers : isAbout(g, s) => handlers[g].kind # "check"

\* no listener loses a task that has yet to follow
NoneLost(s, h, ids) ==
    \A t \in ids, g \in Handlers \ {h} :
        ~ ( /\ t \in tasksOf(s)' /\ tasks'[t].state = toFollow(s)
            /\ isAbout(g, s) /\ handlers[g].kind \in Listeners )

\* h fits among the handlers of s
Fits(h, s) ==
    isAbout(h, s)' =>
        /\ \A g \in Handlers \ {h} :
              isAbout(g, s) => ~clash(handlers'[h].kind, handlers[g].kind)
        /\ handlers'[h].kind = "archive" => gone(s)
        /\ handlers'[h].kind \in {"revert", "check"} => ~gone(s)
        /\ handlers'[h].pc = "searching" =>
              \A t \in tasksOf(s)' : tasks'[t].state = "live"
                                        => tasks'[t].suggestionUri \in handlers'[h].known
        /\ handlers'[h].kind \in Listeners =>
              \A t \in handlers'[h].ids : t \in tasksOf(s)' => held(s, t)

\* h still covers what it covered, unless it has followed
StillCovers(h, s) ==
    \A t \in tasksOf(s)' : ( /\ tasks'[t].state = toFollow(s)
                             /\ tasks[t].state = toFollow(s)
                             /\ covers(h, s, t) ) => covers(h, s, t)'

LEMMA StaysInOrder ==
    ASSUME TasksTypeOK, HandlersInv, NEW s \in Suspects, InOrder(s),
           NEW h \in Handlers, NEW ids, Move(h, ids),
           gone(s)' <=> gone(s), TasksFollow(s), NoneLost(s, h, ids), Fits(h, s),
           StillCovers(h, s)
    PROVE  InOrder(s)'
<1>0. \A g \in Handlers \ {h} :
         /\ isAbout(g, s)' <=> isAbout(g, s)
         /\ isAbout(g, s) =>
               /\ handlers'[g].kind = handlers[g].kind
               /\ handlers'[g].pc = handlers[g].pc
               /\ handlers'[g].known = handlers[g].known
               /\ handlers'[g].ids = IF handlers[g].pc = "writing" THEN handlers[g].ids \ ids
                                     ELSE handlers[g].ids
    BY OthersMove, Zenon DEF isAbout
<1>1. NoClash(s)'
  <2> SUFFICES ASSUME NEW g1 \in Handlers, NEW g2 \in Handlers, g1 # g2,
                      isAbout(g1, s)', isAbout(g2, s)'
               PROVE  ~clash(handlers'[g1].kind, handlers'[g2].kind)
      BY Zenon DEF NoClash, clash
  <2>1. CASE g1 # h /\ g2 # h
      BY <1>0, <2>1 DEF InOrder, NoClash
  <2>2. CASE g1 = h
      BY <1>0, <2>2 DEF Fits
  <2>3. CASE g2 = h
      BY <1>0, <2>3, ClashIsMutual DEF Fits
  <2> QED
      BY <2>1, <2>2, <2>3
<1>2. Matches(s)'
  <2> SUFFICES ASSUME NEW g \in Handlers, isAbout(g, s)'
               PROVE  /\ handlers'[g].kind = "archive" => gone(s)
                      /\ handlers'[g].kind \in {"revert", "check"} => ~gone(s)
      BY Zenon DEF Matches
  <2>1. CASE g = h
      BY <2>1 DEF Fits
  <2>2. CASE g # h
      BY <1>0, <2>2 DEF InOrder, Matches
  <2> QED
      BY <2>1, <2>2
<1>3. Covered(s)'
  <2> SUFFICES ASSUME NEW t \in TaskIds, t \in tasksOf(s)', tasks'[t].state = toFollow(s)
               PROVE  \E g \in Handlers : covers(g, s, t)'
    <3>1. toFollow(s)' = toFollow(s)
        BY DEF toFollow
    <3>2. \A t \in tasksOf(s)' : t \in TaskIds
        BY DEF tasksOf
    <3> QED
        BY <3>1, <3>2 DEF Covered
  <2>1. t \in tasksOf(s) /\ tasks[t].state = toFollow(s)
      BY DEF TasksFollow, toFollow, settled
  <2>2. PICK g \in Handlers : covers(g, s, t)
      BY <2>1 DEF InOrder, Covered
  <2>3. CASE g = h
      BY <2>1, <2>2, <2>3 DEF StillCovers
  <2>4. CASE g # h
    <3>1. isAbout(g, s) /\ handlers[g].kind \in Listeners
        BY <2>2 DEF covers
    <3>2. t \notin ids
        BY <2>4, <3>1 DEF NoneLost
    <3> QED
        BY <1>0, <2>2, <2>4, <3>1, <3>2 DEF covers
  <2> QED
      BY <2>3, <2>4
<1>4. Knows(s)'
  <2> SUFFICES ASSUME NEW g \in Handlers, NEW t \in TaskIds, t \in tasksOf(s)', isAbout(g, s)',
                      handlers'[g].pc = "searching", tasks'[t].state = "live"
               PROVE  tasks'[t].suggestionUri \in handlers'[g].known
    <3>1. \A t \in tasksOf(s)' : t \in TaskIds
        BY DEF tasksOf
    <3> QED
        BY <3>1 DEF Knows
  <2>1. CASE g = h
      BY <2>1 DEF Fits
  <2>2. CASE g # h
    <3>1. isAbout(g, s) /\ handlers[g].pc = "searching"
        BY <1>0, <2>2
    <3>2. handlers[g].kind = "check"
        BY <3>1 DEF HandlersInv, ShapedAs, isAbout
    <3>3. t \in tasksOf(s) /\ tasks[t].state = "live"
        BY <3>1, <3>2 DEF TasksFollow
    <3> QED
        BY <1>0, <2>2, <3>1, <3>3 DEF InOrder, Knows, TasksFollow
  <2> QED
      BY <2>1, <2>2
<1>5. Distinct(s)'
  <2>1. ASSUME NEW t \in TaskIds, held(s, t)'
        PROVE  held(s, t) /\ tasks'[t].suggestionUri = tasks[t].suggestionUri
    <3>1. /\ t \in tasksOf(s)' /\ t \in tasksOf(s)
          /\ tasks'[t].suggestionUri = tasks[t].suggestionUri
        BY <2>1 DEF held, TasksFollow
    <3>2. CASE tasks'[t].state \in {"live", "merged"}
        BY <3>1, <3>2 DEF held, TasksFollow
    <3>3. ASSUME NEW g \in Handlers, isAbout(g, s)', handlers'[g].kind \in Listeners,
                 t \in handlers'[g].ids
          PROVE  held(s, t)
      <4>1. CASE g = h
          BY <3>1, <3>3, <4>1 DEF Fits
      <4>2. CASE g # h
          BY <1>0, <3>1, <3>3, <4>2 DEF held
      <4> QED
          BY <4>1, <4>2
    <3> QED
        BY <2>1, <3>1, <3>2, <3>3 DEF held
  <2> QED
      BY <2>1 DEF InOrder, Distinct
<1> QED
    BY <1>1, <1>2, <1>3, <1>4, <1>5 DEF InOrder

-----------------------------------------------------------------------------
(* The steps that write neither entities nor tasks *)

inOrderOnes == Suspects \ (lapsed \union strays)

\* who is in order after a step was before it, and its handlers do not clash
LEMMA NoClashes ==
    ASSUME NEW h \in Handlers, NEW handler, NEW s \in Suspects, handler.suspect = s,
           clashing(h, handler) \subseteq lapsed', s \notin lapsed'
    PROVE  \A g \in Handlers \ {h} :
              isAbout(g, s) => ~clash(handler.kind, handlers[g].kind)
    BY Zenon DEF clashing

\* what handler says of a suspect in order
FitsAs(handler, s) ==
    /\ handler.kind = "archive" => gone(s)
    /\ handler.kind \in {"revert", "check"} => ~gone(s)
    /\ handler.pc = "searching" =>
          \A t \in tasksOf(s) : tasks[t].state = "live"
                                   => tasks[t].suggestionUri \in handler.known
    /\ handler.kind \in Listeners => \A t \in handler.ids : t \in tasksOf(s) => held(s, t)

\* handler covers the tasks of s that slot h was to write
CoversAs(handler, h, s) ==
    \A t \in tasksOf(s) : (tasks[t].state = toFollow(s) /\ covers(h, s, t)) =>
        /\ handler.kind \in Listeners /\ handler.suspect = s
        /\ handler.pc = "written" \/ t \in handler.ids

LEMMA GoesOnKeeps ==
    ASSUME TasksInv, NEW h \in Handlers, NEW handler \in Progress \union {NoHandler},
           handlers' = [handlers EXCEPT ![h] = handler], UNCHANGED <<entities, tasks>>,
           lapsed \subseteq lapsed', lapsed' \subseteq Suspects,
           strays \subseteq strays', strays' \subseteq Suspects,
           handler # NoHandler => /\ ShapedAs(handler) /\ Reads(handler)
                                  /\ clashing(h, handler) \subseteq lapsed',
           \A s \in inOrderOnes' : /\ handler # NoHandler /\ handler.suspect = s
                                         => FitsAs(handler, s)
                                   /\ CoversAs(handler, h, s)
    PROVE  TasksInv'
<1>1. TasksTypeOK /\ HandlersInv
    BY DEF TasksInv
<1>2. Move(h, {}) /\ handlers'[h] = handler
    BY <1>1, GoesOnMoves
<1>3. TasksTypeOK'
    BY <1>1, <1>2 DEF TasksTypeOK, Move
<1>4. inProgress(h)' => handler # NoHandler
    BY <1>2 DEF inProgress, NoHandler
<1>5. HandlersInv'
  <2>1. TasksKept({})
      BY <1>1, UnchangedTasks
  <2>2. inProgress(h)' => ShapedAs(handlers'[h]) /\ Reads(handlers[h])'
      BY <1>2, <1>4 DEF Reads, Created
  <2> QED
      BY <1>1, <1>2, <2>1, <2>2, OthersRead
<1>6. ASSUME NEW s \in inOrderOnes'
      PROVE  InOrder(s)'
  <2>1. s \in Suspects /\ s \notin lapsed' /\ InOrder(s)
      BY DEF inOrderOnes, TasksInv
  <2>2. gone(s)' <=> gone(s)
      BY DEF gone, isRedirection
  <2>3. TasksFollow(s) /\ NoneLost(s, h, {})
      BY DEF TasksFollow, NoneLost, tasksOf
  <2>4. tasksOf(s)' = tasksOf(s)
      BY DEF tasksOf
  <2>5. Fits(h, s)
    <3> SUFFICES ASSUME isAbout(h, s)'
                 PROVE  /\ \A g \in Handlers \ {h} :
                              isAbout(g, s) => ~clash(handler.kind, handlers[g].kind)
                        /\ FitsAs(handler, s)
        BY <1>2, <2>4 DEF Fits, FitsAs
    <3>1. handler # NoHandler /\ handler.suspect = s
        BY <1>2, <1>4 DEF isAbout
    <3>2. FitsAs(handler, s)
        BY <3>1
    <3>3. clashing(h, handler) \subseteq lapsed'
        BY <3>1
    <3> QED
        BY <2>1, <3>1, <3>2, <3>3, NoClashes
  <2>6. StillCovers(h, s)
    <3> SUFFICES ASSUME NEW t \in tasksOf(s), tasks[t].state = toFollow(s), covers(h, s, t)
                 PROVE  covers(h, s, t)'
        BY <2>4 DEF StillCovers
    <3>1. /\ handler.kind \in Listeners /\ handler.suspect = s
          /\ handler.pc = "written" \/ t \in handler.ids
        BY DEF CoversAs
    <3> QED
        BY <1>2, <3>1 DEF covers, isAbout, inProgress, Listeners
  <2> QED
      BY <1>1, <1>2, <2>1, <2>2, <2>3, <2>5, <2>6, StaysInOrder
<1> QED
    BY <1>3, <1>5, <1>6 DEF TasksInv, inOrderOnes

LEMMA HandlerFailsKeeps ==
    ASSUME TasksInv, NEW h \in Handlers, HandlerFails(h)
    PROVE  TasksInv'
<1>1. ASSUME NEW s \in inOrderOnes'
      PROVE  CoversAs(NoHandler, h, s)
    BY DEF inOrderOnes, CoversAs, covers, isAbout, HandlerFails
<1>2. lapsed \subseteq Suspects /\ strays \subseteq Suspects
    BY DEF TasksInv, TasksTypeOK
<1> QED
    BY <1>1, <1>2, GoesOnKeeps DEF HandlerFails

LEMMA byIdsKeeps ==
    ASSUME TasksInv, NEW h \in Handlers, byIds(h)
    PROVE  TasksInv'
<1> DEFINE handler == [handlers[h] EXCEPT !.pc = "writing",
                                          !.ids = handlers[h].ids \intersect Created]
<1>1. TasksTypeOK /\ inProgress(h) /\ handlers[h].pc = "updating" /\ handlers[h] \in Progress
    BY Slots_ DEF TasksInv, byIds
<1>2. /\ handler \in Progress /\ handler # NoHandler
      /\ handler.kind = handlers[h].kind /\ handler.suspect = handlers[h].suspect
      /\ handler.entity = handlers[h].entity
      /\ handler.pc = "writing" /\ handler.ids = handlers[h].ids \intersect Created
  <2>1. handler \in Progress
      BY <1>1 DEF Progress
  <2>2. handler # NoHandler
      BY <1>1, <2>1, Slots_ DEF NoHandler, Progress
  <2> QED
      BY <1>1, <2>1, <2>2 DEF Progress
<1> HIDE DEF handler
<1>3. ShapedAs(handler) /\ Reads(handler)
  <2>1. ShapedAs(handlers[h]) /\ Reads(handlers[h])
      BY <1>1 DEF TasksInv, HandlersInv
  <2> QED
      BY <1>1, <1>2, <2>1 DEF ShapedAs, Reads
<1>4. /\ handlers' = [handlers EXCEPT ![h] = handler]
      /\ lapsed' = lapsed \union clashing(h, handler) /\ UNCHANGED <<entities, tasks, strays>>
    BY DEF byIds, GoesOn, handler
<1>5. ASSUME NEW s \in inOrderOnes'
      PROVE  /\ handler.suspect = s => FitsAs(handler, s)
             /\ CoversAs(handler, h, s)
  <2>1. InOrder(s) /\ s \in Suspects
      BY <1>4 DEF inOrderOnes, TasksInv
  <2>2. \A t \in tasksOf(s) : t \in Created
      BY <1>1, <2>1, Documents_ DEF tasksOf
  <2>3. handler.suspect = s => FitsAs(handler, s)
    <3> SUFFICES ASSUME handler.suspect = s
                 PROVE  FitsAs(handler, s)
        OBVIOUS
    <3>1. isAbout(h, s)
        BY <1>1, <1>2 DEF isAbout
    <3> QED
        BY <1>2, <2>1, <3>1 DEF FitsAs, InOrder, Matches, held
  <2>4. CoversAs(handler, h, s)
      BY <1>1, <1>2, <2>2 DEF CoversAs, covers, isAbout
  <2> QED
      BY <2>3, <2>4
<1>6. /\ lapsed \subseteq Suspects /\ strays \subseteq Suspects
      /\ clashing(h, handler) \subseteq Suspects
    BY DEF TasksInv, TasksTypeOK, clashing
<1> QED
    BY <1>2, <1>3, <1>4, <1>5, <1>6, GoesOnKeeps

LEMMA EndsKeeps ==
    ASSUME TasksInv, NEW h \in Handlers, Ends(h), UNCHANGED <<entities, tasks, strays>>,
           \A s \in inOrderOnes : CoversAs(NoHandler, h, s)
    PROVE  TasksInv'
<1>1. lapsed \subseteq Suspects /\ strays \subseteq Suspects /\ lapsed' = lapsed
    BY DEF TasksInv, TasksTypeOK, Ends
<1>2. \A s \in inOrderOnes' : CoversAs(NoHandler, h, s)
    BY <1>1 DEF inOrderOnes
<1> QED
    BY <1>1, <1>2, GoesOnKeeps DEF Ends

\* a handler of the same kind goes on to update the tasks it has read
LEMMA UpdatingKeeps ==
    ASSUME TasksInv, NEW h \in Handlers, NEW ids \in SUBSET Created,
           inProgress(h), handlers[h].kind \in {"score", "archive", "revert"},
           \A t \in ids : tasks[t].suspectUri = handlers[h].suspect,
           handlers[h].kind \in Listeners =>
              /\ handlers[h].pc = "written"
              /\ \A t \in ids : tasks[t].state \in {"live", "merged"}
              /\ \A s \in inOrderOnes : \A t \in tasksOf(s) :
                    (isAbout(h, s) /\ tasks[t].state = toFollow(s)) => t \in ids,
           GoesOn(h, [handlers[h] EXCEPT !.pc = "updating", !.ids = ids], {}),
           UNCHANGED <<entities, tasks, strays>>
    PROVE  TasksInv'
<1> DEFINE handler == [handlers[h] EXCEPT !.pc = "updating", !.ids = ids]
<1>1. TasksTypeOK /\ handlers[h] \in Progress
    BY Slots_ DEF TasksInv
<1>2. /\ handler \in Progress /\ handler # NoHandler
      /\ handler.kind = handlers[h].kind /\ handler.suspect = handlers[h].suspect
      /\ handler.pc = "updating" /\ handler.ids = ids
  <2>1. handler \in Progress
      BY <1>1 DEF Progress, Created
  <2>2. handler # NoHandler
      BY <1>1, <2>1 DEF NoHandler, Progress
  <2> QED
      BY <1>1, <2>1, <2>2 DEF Progress
<1>3. /\ handlers' = [handlers EXCEPT ![h] = handler]
      /\ lapsed' = lapsed \union clashing(h, handler) /\ UNCHANGED <<entities, tasks, strays>>
    BY DEF GoesOn
<1> HIDE DEF handler
<1>4. ShapedAs(handler) /\ Reads(handler)
  <2>1. ShapedAs(handlers[h])
      BY <1>1 DEF TasksInv, HandlersInv
  <2>2. \A t \in ids : tasks[t] # NoTask
      BY <1>1, Documents_ DEF Created
  <2> QED
      BY <1>1, <1>2, <2>1, <2>2 DEF ShapedAs, Reads, Listeners
<1>5. ASSUME NEW s \in inOrderOnes'
      PROVE  /\ handler.suspect = s => FitsAs(handler, s)
             /\ CoversAs(handler, h, s)
  <2>1. InOrder(s) /\ s \in inOrderOnes
      BY <1>3 DEF inOrderOnes, TasksInv
  <2>2. handler.suspect = s => FitsAs(handler, s)
    <3> SUFFICES ASSUME handler.suspect = s
                 PROVE  FitsAs(handler, s)
        OBVIOUS
    <3>1. isAbout(h, s)
        BY <1>1, <1>2 DEF isAbout
    <3> QED
        BY <1>2, <2>1, <3>1 DEF FitsAs, InOrder, Matches, held
  <2>3. CoversAs(handler, h, s)
      BY <1>2, <2>1 DEF CoversAs, covers, isAbout
  <2> QED
      BY <2>2, <2>3
<1>6. /\ lapsed \subseteq Suspects /\ strays \subseteq Suspects
      /\ clashing(h, handler) \subseteq Suspects
    BY DEF TasksInv, TasksTypeOK, clashing
<1> QED
    BY <1>2, <1>3, <1>4, <1>5, <1>6, GoesOnKeeps

LEMMA ViewsRead ==
    ASSUME NEW s, NEW state
    PROVE  /\ bySuspectUriAndState(s, state) \in SUBSET Created
           /\ \A t \in bySuspectUriAndState(s, state) :
                 tasks[t].suspectUri = s /\ tasks[t].state = state
           /\ s \in Suspects => \A t \in tasksOf(s) :
                 tasks[t].state = state => t \in bySuspectUriAndState(s, state)
    BY DEF bySuspectUriAndState, Created, tasksOf

LEMMA updateRelationScoreKeeps ==
    ASSUME TasksInv, NEW h \in Handlers, updateRelationScore(h)
    PROVE  TasksInv'
<1>1. inProgress(h) /\ handlers[h].pc = "scoring" /\ UNCHANGED <<entities, tasks, strays>>
    BY DEF updateRelationScore
<1>2. handlers[h].kind = "score"
    BY <1>1 DEF TasksInv, HandlersInv, ShapedAs
<1>3. PICK outdated \in SUBSET bySuspectUri(handlers[h].suspect) :
          IF outdated = {} THEN Ends(h)
          ELSE GoesOn(h, [handlers[h] EXCEPT !.pc = "updating", !.ids = outdated], {})
    BY DEF updateRelationScore
<1>4. CASE outdated = {}
  <2>1. \A s \in inOrderOnes : CoversAs(NoHandler, h, s)
      BY <1>2 DEF CoversAs, covers, Listeners
  <2> QED
      BY <1>1, <1>3, <1>4, <2>1, EndsKeeps
<1>5. CASE outdated # {}
  <2>1. /\ outdated \in SUBSET Created
        /\ \A t \in outdated : tasks[t].suspectUri = handlers[h].suspect
      BY ViewsRead DEF bySuspectUri
  <2> QED
      BY <1>1, <1>2, <1>3, <1>5, <2>1, UpdatingKeeps DEF Listeners
<1> QED
    BY <1>4, <1>5

LEMMA listensKeeps ==
    ASSUME TasksInv, NEW h \in Handlers, inProgress(h), handlers[h].pc = "written",
           handlers[h].kind \in Listeners, NEW state \in {"live", "merged"},
           \A s \in inOrderOnes : isAbout(h, s) => toFollow(s) = state,
           listens(h, bySuspectUriAndState(handlers[h].suspect, state)),
           UNCHANGED <<entities, tasks, strays>>
    PROVE  TasksInv'
<1> DEFINE ids == bySuspectUriAndState(handlers[h].suspect, state)
<1>1. /\ ids \in SUBSET Created
      /\ \A t \in ids : tasks[t].suspectUri = handlers[h].suspect /\ tasks[t].state = state
    BY ViewsRead
<1>2. \A s \in inOrderOnes : \A t \in tasksOf(s) :
         (isAbout(h, s) /\ tasks[t].state = toFollow(s)) => t \in ids
    BY ViewsRead DEF isAbout, inOrderOnes
<1>3. IF ids = {} THEN Ends(h)
      ELSE GoesOn(h, [handlers[h] EXCEPT !.pc = "updating", !.ids = ids], {})
    BY DEF listens
<1> HIDE DEF ids
<1>4. CASE ids = {}
  <2>1. \A s \in inOrderOnes : CoversAs(NoHandler, h, s)
      BY <1>2, <1>4 DEF CoversAs, covers
  <2> QED
      BY <1>3, <1>4, <2>1, EndsKeeps
<1>5. CASE ids # {}
  <2>1. handlers[h].kind \in {"score", "archive", "revert"}
      BY DEF Listeners
  <2>2. \A t \in ids : /\ tasks[t].suspectUri = handlers[h].suspect
                       /\ tasks[t].state \in {"live", "merged"}
      BY <1>1
  <2> QED
      BY <1>1, <1>2, <1>3, <1>5, <2>1, <2>2, UpdatingKeeps
<1> QED
    BY <1>4, <1>5

LEMMA archiveObsoleteEntityUriTasksKeeps ==
    ASSUME TasksInv, NEW h \in Handlers, archiveObsoleteEntityUriTasks(h)
    PROVE  TasksInv'
<1>1. /\ inProgress(h) /\ handlers[h].pc = "written" /\ handlers[h].kind = "archive"
      /\ listens(h, bySuspectUriAndState(handlers[h].suspect, "live"))
      /\ UNCHANGED <<entities, tasks, strays>>
    BY DEF archiveObsoleteEntityUriTasks, obsoleteTasks, bySuspectUri
<1>2. \A s \in inOrderOnes : isAbout(h, s) => toFollow(s) = "live"
    BY <1>1 DEF TasksInv, inOrderOnes, InOrder, Matches, toFollow
<1> QED
    BY <1>1, <1>2, listensKeeps DEF Listeners

LEMMA revertArchiveKeeps ==
    ASSUME TasksInv, NEW h \in Handlers, revertArchive(h)
    PROVE  TasksInv'
<1>1. /\ inProgress(h) /\ handlers[h].pc = "written" /\ handlers[h].kind = "revert"
      /\ listens(h, bySuspectUriAndState(handlers[h].suspect, "merged"))
      /\ UNCHANGED <<entities, tasks, strays>>
    BY DEF revertArchive
<1>2. \A s \in inOrderOnes : isAbout(h, s) => toFollow(s) = "merged"
    BY <1>1 DEF TasksInv, inOrderOnes, InOrder, Matches, toFollow
<1> QED
    BY <1>1, <1>2, listensKeeps DEF Listeners

LEMMA ReadExistingTasksKeeps ==
    ASSUME TasksInv, NEW h \in Handlers, ReadExistingTasks(h)
    PROVE  TasksInv'
<1> DEFINE known == {tasks[t].suggestionUri : t \in bySuspectUri(handlers[h].suspect)}
           handler == [handlers[h] EXCEPT !.pc = "searching", !.known = known]
<1>1. TasksTypeOK /\ inProgress(h) /\ handlers[h].pc = "resolved" /\ handlers[h] \in Progress
    BY Slots_ DEF TasksInv, ReadExistingTasks
<1>2. known \subseteq Suggestions
  <2>1. \A t \in bySuspectUri(handlers[h].suspect) : t \in Created /\ t \in TaskIds
      BY DEF bySuspectUri, bySuspectUriAndState, Created
  <2> QED
      BY <1>1, <2>1, Documents_ DEF TaskDocs
<1>3. /\ handler \in Progress /\ handler # NoHandler
      /\ handler.kind = handlers[h].kind /\ handler.suspect = handlers[h].suspect
      /\ handler.entity = handlers[h].entity /\ handler.ids = handlers[h].ids
      /\ handler.pc = "searching" /\ handler.known = known
  <2>1. handler \in Progress
      BY <1>1, <1>2 DEF Progress
  <2>2. handler # NoHandler
      BY <1>1, <2>1 DEF NoHandler, Progress
  <2> QED
      BY <1>1, <2>1, <2>2 DEF Progress
<1>4. /\ handlers' = [handlers EXCEPT ![h] = handler]
      /\ lapsed' = lapsed \union clashing(h, handler) /\ UNCHANGED <<entities, tasks, strays>>
    BY DEF ReadExistingTasks, GoesOn, getExistingTasks
<1>5. ShapedAs(handlers[h]) /\ Reads(handlers[h])
    BY <1>1 DEF TasksInv, HandlersInv
<1>6. handlers[h].kind = "check"
    BY <1>1, <1>5 DEF ShapedAs
<1> HIDE DEF handler
<1>7. ShapedAs(handler) /\ Reads(handler)
    BY <1>1, <1>3, <1>5, <1>6 DEF ShapedAs, Reads, Listeners
<1>8. ASSUME NEW s \in inOrderOnes'
      PROVE  /\ handler.suspect = s => FitsAs(handler, s)
             /\ CoversAs(handler, h, s)
  <2>1. InOrder(s) /\ s \in Suspects
      BY <1>4 DEF inOrderOnes, TasksInv
  <2>2. handler.suspect = s => FitsAs(handler, s)
    <3> SUFFICES ASSUME handler.suspect = s
                 PROVE  FitsAs(handler, s)
        OBVIOUS
    <3>1. ~gone(s)
        BY <1>1, <1>3, <1>6, <2>1 DEF InOrder, Matches, isAbout
    <3>2. \A t \in tasksOf(s) : tasks[t].state = "live" => tasks[t].suggestionUri \in known
        BY <1>3, <2>1, ViewsRead DEF bySuspectUri
    <3> QED
        BY <1>3, <1>6, <3>1, <3>2 DEF FitsAs, Listeners
  <2>3. CoversAs(handler, h, s)
      BY <1>6 DEF CoversAs, covers, Listeners
  <2> QED
      BY <2>2, <2>3
<1>9. /\ lapsed \subseteq Suspects /\ strays \subseteq Suspects
      /\ clashing(h, handler) \subseteq Suspects
    BY DEF TasksInv, TasksTypeOK, clashing
<1> QED
    BY <1>3, <1>4, <1>7, <1>8, <1>9, GoesOnKeeps

-----------------------------------------------------------------------------
(* Handlers that start without writing anything *)

LEMMA StartsKeeps ==
    ASSUME TasksInv, NEW h \in Handlers, NEW handler \in Progress, Starts(h, handler, {}),
           ShapedAs(handler), Reads(handler), UNCHANGED <<entities, tasks>>,
           strays \subseteq strays', strays' \subseteq Suspects,
           \A s \in inOrderOnes' : handler.suspect = s => FitsAs(handler, s)
    PROVE  TasksInv'
<1>1. /\ ~inProgress(h) /\ handlers' = [handlers EXCEPT ![h] = handler]
      /\ lapsed' = lapsed \union clashing(h, handler)
    BY DEF Starts, GoesOn
<1>2. \A s \in inOrderOnes' : CoversAs(handler, h, s)
    BY <1>1 DEF CoversAs, covers, isAbout
<1>3. lapsed \subseteq Suspects /\ clashing(h, handler) \subseteq Suspects
    BY DEF TasksInv, TasksTypeOK, clashing
<1> QED
    BY <1>1, <1>2, <1>3, GoesOnKeeps

LEMMA checkEntityKeeps ==
    ASSUME TasksInv, NEW h \in Handlers, NEW s \in Suspects, checkEntity(h, s)
    PROVE  TasksInv'
<1>1. PICK e \in resolved(s) :
          Starts(h, [Handler("check", "resolved", s) EXCEPT !.entity = e], {})
    BY DEF checkEntity
<1> DEFINE handler == [Handler("check", "resolved", s) EXCEPT !.entity = e]
<1>2. e \in Suspects
    BY DEF resolved
<1>3. /\ handler \in Progress /\ handler.kind = "check" /\ handler.pc = "resolved"
      /\ handler.suspect = s /\ handler.entity = e /\ handler.ids = {}
    BY <1>2 DEF Handler, Progress
<1>4. Starts(h, handler, {})
    BY <1>1
<1> HIDE DEF handler
<1>5. ShapedAs(handler) /\ Reads(handler)
    BY <1>2, <1>3 DEF ShapedAs, Reads
<1>6. /\ UNCHANGED <<entities, tasks>> /\ strays \subseteq strays' /\ strays' \subseteq Suspects
      /\ gone(s) => s \in strays'
    BY DEF checkEntity, TasksInv, TasksTypeOK
<1>7. ASSUME NEW r \in inOrderOnes', handler.suspect = r
      PROVE  FitsAs(handler, r)
    BY <1>3, <1>6, <1>7 DEF inOrderOnes, FitsAs, Listeners
<1> QED
    BY <1>3, <1>4, <1>5, <1>6, <1>7, StartsKeeps

LEMMA DismissKeeps ==
    ASSUME TasksInv, NEW h \in Handlers, NEW t \in TaskIds, Dismiss(h, t)
    PROVE  TasksInv'
<1> DEFINE s == tasks[t].suspectUri
           handler == [Handler("dismiss", "updating", s) EXCEPT !.ids = {t}]
<1>1. t \in Created /\ s \in Suspects /\ tasks[t] # NoTask
    BY Documents_ DEF Dismiss, Created, TasksInv
<1>2. /\ handler \in Progress /\ handler.kind = "dismiss" /\ handler.pc = "updating"
      /\ handler.suspect = s /\ handler.ids = {t}
    BY <1>1 DEF Handler, Progress
<1>3. Starts(h, handler, {}) /\ UNCHANGED <<entities, tasks, strays>>
    BY DEF Dismiss
<1> HIDE DEF handler
<1>4. ShapedAs(handler) /\ Reads(handler)
    BY <1>1, <1>2 DEF ShapedAs, Reads
<1>5. \A r \in inOrderOnes' : FitsAs(handler, r)
    BY <1>2 DEF FitsAs, Listeners
<1>6. strays \subseteq Suspects
    BY DEF TasksInv, TasksTypeOK
<1> QED
    BY <1>2, <1>3, <1>4, <1>5, <1>6, StartsKeeps

LEMMA WikidataRedirectKeeps ==
    ASSUME TasksInv, NEW h \in Handlers, NEW p, WikidataRedirect(h, p)
    PROVE  TasksInv'
<1> DEFINE handler == [Handler("delete", "writing", "none") EXCEPT !.ids = bySuggestionUri(p)]
<1>1. \A t \in bySuggestionUri(p) : t \in Created /\ t \in TaskIds
    BY DEF bySuggestionUri, Created
<1>2. /\ handler \in Progress /\ handler.kind = "delete" /\ handler.pc = "writing"
      /\ handler.suspect = "none" /\ handler.ids = bySuggestionUri(p)
    BY <1>1 DEF Handler, Progress
<1>3. Starts(h, handler, {}) /\ UNCHANGED <<entities, tasks, strays>>
    BY DEF WikidataRedirect
<1> HIDE DEF handler
<1>4. ShapedAs(handler) /\ Reads(handler)
    BY <1>1, <1>2, Documents_ DEF ShapedAs, Reads, TasksInv
<1>5. \A r \in inOrderOnes' : FitsAs(handler, r)
    BY <1>2 DEF FitsAs, Listeners
<1>6. strays \subseteq Suspects
    BY DEF TasksInv, TasksTypeOK
<1> QED
    BY <1>2, <1>3, <1>4, <1>5, <1>6, StartsKeeps
-----------------------------------------------------------------------------
(* The steps that write tasks *)

LEMMA Writers ==
    ASSUME TasksInv, NEW h \in Handlers, inProgress(h), handlers[h].pc = "writing"
    PROVE  /\ handlers[h].kind \in {"score", "dismiss", "archive", "revert", "delete"}
           /\ handlers[h].kind # "delete" =>
                 /\ handlers[h].suspect \in Suspects
                 /\ \A t \in handlers[h].ids : tasks[t].suspectUri = handlers[h].suspect
           /\ \A t \in handlers[h].ids : t \in TaskIds /\ t \in Created
<1>1. ShapedAs(handlers[h]) /\ Reads(handlers[h])
    BY DEF TasksInv, HandlersInv
<1> QED
    BY <1>1 DEF ShapedAs, Reads, Listeners, Created

LEMMA SettledIsNotToFollow == \A s : settled(s) # toFollow(s)
    BY DEF settled, toFollow

LEMMA bulkKeeps ==
    ASSUME TasksInv, NEW h \in Handlers, bulk(h)
    PROVE  TasksInv'
<1> DEFINE kind == handlers[h].kind
           ids == handlers[h].ids
           score == Handler("score", "scoring", handlers[h].suspect)
<1>1. /\ TasksTypeOK /\ HandlersInv /\ inProgress(h) /\ handlers[h].pc = "writing"
      /\ kind \in {"score", "dismiss", "archive", "revert"}
      /\ handlers[h].suspect \in Suspects
      /\ \A t \in ids : /\ t \in TaskIds /\ t \in Created
                        /\ tasks[t].suspectUri = handlers[h].suspect
    BY Writers DEF TasksInv, bulk
<1>2. ASSUME NEW t \in ids
      PROVE  /\ tasks'[t] \in TaskDocs
             /\ tasks'[t].suspectUri = tasks[t].suspectUri
             /\ tasks'[t].suggestionUri = tasks[t].suggestionUri
             /\ tasks'[t].state = newState(kind, tasks[t].state)
  <2>1. tasks[t] \in TaskDocs
      BY <1>1, Documents_
  <2>2. tasks'[t] = [tasks[t] EXCEPT !.state = newState(kind, tasks[t].state)]
      BY <1>1 DEF bulk
  <2>3. newState(kind, tasks[t].state) \in TaskStates
      BY <1>1, <2>1 DEF newState, TaskDocs, TaskStates
  <2> QED
      BY <2>1, <2>2, <2>3 DEF TaskDocs
<1>3. \A t \in TaskIds \ ids : tasks'[t] = tasks[t]
    BY DEF bulk
<1>4. tasks' \in [TaskIds -> TaskDocs \union {NoTask, DeletedTask}]
  <2>1. tasks' = [t \in TaskIds |-> tasks'[t]]
      BY DEF bulk
  <2>2. \A t \in TaskIds : tasks'[t] \in TaskDocs \union {NoTask, DeletedTask}
      BY <1>1, <1>2, <1>3 DEF TasksTypeOK
  <2> QED
      BY <2>1, <2>2
<1>5. UNCHANGED <<entities, strays>>
    BY DEF bulk
<1>6. PICK next \in {NoHandler, score} :
         /\ handlers' = [g \in Handlers |-> IF g = h THEN next
                                            ELSE withoutWritten(handlers[g], ids)]
         /\ lapsed \subseteq lapsed' /\ lapsed' \subseteq Suspects
         /\ next = score => clashing(h, score) \subseteq lapsed'
  <2>1. lapsed \subseteq Suspects /\ clashing(h, score) \subseteq Suspects
      BY <1>1 DEF TasksTypeOK, clashing
  <2>2. CASE kind = "dismiss" /\ ids # {}
      BY <2>1, <2>2 DEF bulk
  <2>3. CASE ~(kind = "dismiss" /\ ids # {})
    <3>1. NoHandler # score
        BY <1>1, NewHandler DEF NoHandler
    <3>2. EndsWriting(h, ids)
        BY <2>3 DEF bulk
    <3> QED
        BY <2>1, <3>1, <3>2 DEF EndsWriting
  <2> QED
      BY <2>2, <2>3
<1>7. /\ score \in Progress /\ score.kind = "score" /\ score.pc = "scoring"
      /\ score.suspect = handlers[h].suspect /\ score.ids = {}
    BY <1>1, NewHandler
<1> HIDE DEF score, ids, kind
<1>8. Move(h, ids) /\ handlers'[h] = next
    BY <1>1, <1>6, <1>7, WritesMove
<1>9. inProgress(h)' => next = score
    BY <1>6, <1>8 DEF inProgress, NoHandler
<1>10. HandlersInv'
  <2>1. TasksKept(ids)
    <3> SUFFICES ASSUME NEW t \in TaskIds, tasks[t] # NoTask
                 PROVE  /\ tasks'[t] # NoTask
                        /\ tasks'[t].suspectUri = tasks[t].suspectUri
                        /\ t \in Created' <=> t \in Created
        BY DEF TasksKept
    <3>1. CASE t \in ids
      <4>1. "none" \notin Suspects /\ tasks'[t].suspectUri \in Suspects
          BY <1>1, <1>2, <3>1, TasksAssumption
      <4> QED
          BY <1>1, <1>2, <3>1, <4>1 DEF Created, NoTask
    <3>2. CASE t \notin ids
        BY <1>3, <3>2 DEF Created
    <3> QED
        BY <3>1, <3>2
  <2>2. inProgress(h)' => ShapedAs(handlers'[h]) /\ Reads(handlers[h])'
      BY <1>1, <1>7, <1>8, <1>9 DEF ShapedAs, Reads
  <2> QED
      BY <1>1, <1>8, <2>1, <2>2, OthersRead
<1>11. TasksTypeOK'
    BY <1>1, <1>4, <1>5, <1>6, <1>8 DEF TasksTypeOK, Move
<1>12. ASSUME NEW s \in inOrderOnes'
       PROVE  InOrder(s)'
  <2>1. s \in Suspects /\ s \notin lapsed' /\ InOrder(s)
      BY <1>5, <1>6 DEF inOrderOnes, TasksInv
  <2>2. gone(s)' <=> gone(s)
      BY <1>5 DEF gone, isRedirection
  <2>3. \A t \in ids : t \in tasksOf(s)' => t \in tasksOf(s) /\ isAbout(h, s)
      BY <1>1, <1>2 DEF tasksOf, isAbout, ids
  <2>4. isAbout(h, s) => /\ kind = "archive" => settled(s) = "merged"
                         /\ kind = "revert" => settled(s) = "live"
      BY <2>1 DEF InOrder, Matches, settled, kind
  <2>5. \A t \in ids : t \in tasksOf(s)' => tasks'[t].state \in {tasks[t].state, "dismissed"}
                                            \/ tasks'[t].state = settled(s)
      BY <1>1, <1>2, <2>3, <2>4 DEF newState, kind
  <2>6. (isAbout(h, s) /\ kind \in {"archive", "revert"}) =>
           \A t \in ids : /\ t \in tasksOf(s) => held(s, t)
                          /\ tasks'[t].state = settled(s)
    <3>1. \A t \in ids : tasks'[t].state = newState(kind, tasks[t].state)
        BY <1>2
    <3>2. \A state : newState("archive", state) = "merged" /\ newState("revert", state) = "live"
        BY DEF newState
    <3> QED
        BY <2>4, <3>1, <3>2 DEF held, kind, ids, Listeners
  <2>7. TasksFollow(s)
    <3> SUFFICES ASSUME NEW t \in TaskIds, t \in tasksOf(s)'
                 PROVE  /\ t \in tasksOf(s)
                        /\ tasks'[t].suggestionUri = tasks[t].suggestionUri
                        /\ \/ tasks'[t].state \in {tasks[t].state, "dismissed"}
                           \/ /\ held(s, t) /\ tasks'[t].state = settled(s)
                              /\ \A g \in Handlers : isAbout(g, s) => handlers[g].kind # "check"
        BY DEF TasksFollow
    <3>1. CASE t \notin ids
        BY <1>3, <3>1 DEF tasksOf
    <3>2. CASE t \in ids
      <4>1. /\ t \in tasksOf(s) /\ isAbout(h, s)
            /\ tasks'[t].suggestionUri = tasks[t].suggestionUri
          BY <1>2, <2>3, <3>2
      <4>2. CASE kind \in {"score", "dismiss"}
        <5>1. tasks'[t].state = newState(kind, tasks[t].state)
            BY <1>2, <3>2
        <5> QED
            BY <4>1, <4>2, <5>1 DEF newState
      <4>3. CASE kind \in {"archive", "revert"}
        <5>1. held(s, t) /\ tasks'[t].state = settled(s)
            BY <2>6, <3>2, <4>1, <4>3
        <5>2. \A g \in Handlers : isAbout(g, s) => handlers[g].kind # "check"
            BY <2>1, <4>1, <4>3 DEF InOrder, NoClash, clash, Listeners, kind
        <5> QED
            BY <4>1, <5>1, <5>2
      <4> QED
          BY <1>1, <4>2, <4>3
    <3> QED
        BY <3>1, <3>2
  <2>8. NoneLost(s, h, ids)
    <3> SUFFICES ASSUME NEW t \in ids, NEW g \in Handlers \ {h}, t \in tasksOf(s)',
                        tasks'[t].state = toFollow(s), isAbout(g, s),
                        handlers[g].kind \in Listeners
                 PROVE  FALSE
        BY DEF NoneLost
    <3>1. t \in tasksOf(s) /\ isAbout(h, s) /\ tasks'[t].state = newState(kind, tasks[t].state)
        BY <1>2, <2>3
    <3>2. CASE kind = "score"
        BY <2>1, <3>1, <3>2 DEF InOrder, NoClash, clash, kind
    <3>3. CASE kind = "dismiss"
        BY <3>1, <3>3 DEF newState, toFollow
    <3>4. CASE kind \in {"archive", "revert"}
        BY <2>6, <3>1, <3>4, SettledIsNotToFollow
    <3> QED
        BY <1>1, <3>2, <3>3, <3>4
  <2>9. Fits(h, s)
    <3> SUFFICES ASSUME isAbout(h, s)'
                 PROVE  \A g \in Handlers \ {h} : isAbout(g, s) => ~clash("score", handlers[g].kind)
        BY <1>7, <1>8, <1>9 DEF Fits, isAbout, Listeners
    <3>1. next = score /\ score.suspect = s /\ clashing(h, score) \subseteq lapsed'
        BY <1>6, <1>8, <1>9 DEF isAbout
    <3> QED
        BY <1>7, <2>1, <3>1, NoClashes
  <2>10. StillCovers(h, s)
    <3> SUFFICES ASSUME NEW t \in tasksOf(s)', tasks'[t].state = toFollow(s), covers(h, s, t)
                 PROVE  FALSE
        BY DEF StillCovers
    <3>1. isAbout(h, s) /\ kind \in {"archive", "revert"} /\ t \in ids
        BY <1>1 DEF covers, Listeners, kind, ids
    <3> QED
        BY <2>6, <3>1, SettledIsNotToFollow
  <2> QED
      BY <1>1, <1>8, <2>1, <2>2, <2>7, <2>8, <2>9, <2>10, StaysInOrder
<1> QED
    BY <1>10, <1>11, <1>12 DEF TasksInv, inOrderOnes

LEMMA deleteBySuggestionUriKeeps ==
    ASSUME TasksInv, NEW h \in Handlers, deleteBySuggestionUri(h)
    PROVE  TasksInv'
<1> DEFINE ids == handlers[h].ids
<1>1. /\ TasksTypeOK /\ HandlersInv /\ inProgress(h) /\ handlers[h].kind = "delete"
      /\ handlers[h].suspect = "none" /\ ids \subseteq TaskIds
      /\ \A s \in Suspects : ~isAbout(h, s)
  <2>1. inProgress(h) /\ handlers[h].kind = "delete"
      BY DEF deleteBySuggestionUri
  <2>2. handlers[h].suspect = "none"
      BY <2>1 DEF TasksInv, HandlersInv, ShapedAs, Listeners
  <2>3. ids \subseteq TaskIds
      BY <2>1, Slots_ DEF TasksInv, Progress
  <2> QED
      BY <2>1, <2>2, <2>3, TasksAssumption DEF TasksInv, isAbout
<1>2. /\ tasks' = [t \in TaskIds |-> IF t \in ids THEN DeletedTask ELSE tasks[t]]
      /\ handlers' = [g \in Handlers |-> IF g = h THEN NoHandler
                                         ELSE withoutWritten(handlers[g], ids)]
      /\ UNCHANGED <<entities, lapsed, strays>>
    BY DEF deleteBySuggestionUri, EndsWriting
<1> HIDE DEF ids
<1>3. Move(h, ids) /\ handlers'[h] = NoHandler /\ ~inProgress(h)'
  <2>1. Move(h, ids) /\ handlers'[h] = NoHandler
      BY <1>1, <1>2, WritesMove
  <2> QED
      BY <2>1 DEF inProgress, NoHandler
<1>4. TasksTypeOK'
    BY <1>1, <1>2, <1>3 DEF TasksTypeOK, Move
<1>5. \A t \in TaskIds : t \in Created' => t \notin ids /\ t \in Created /\ tasks'[t] = tasks[t]
  <2>1. DeletedTask.suspectUri \notin Suspects
      BY TasksAssumption DEF DeletedTask
  <2> QED
      BY <1>2, <2>1 DEF Created
<1>6. HandlersInv'
  <2>1. DeletedTask # NoTask
      BY DEF DeletedTask, NoTask
  <2>2. TasksKept(ids)
      BY <1>2, <1>5, <2>1 DEF TasksKept, Created
  <2> QED
      BY <1>1, <1>3, <2>2, OthersRead
<1>7. ASSUME NEW s \in inOrderOnes'
      PROVE  InOrder(s)'
  <2>1. s \in Suspects /\ InOrder(s) /\ (gone(s)' <=> gone(s))
      BY <1>2 DEF inOrderOnes, TasksInv, gone, isRedirection
  <2>2. \A t \in tasksOf(s)' : /\ t \in TaskIds /\ t \notin ids
                               /\ t \in tasksOf(s) /\ tasks'[t] = tasks[t]
      BY <1>5, <2>1 DEF tasksOf, Created
  <2>3. TasksFollow(s) /\ NoneLost(s, h, ids)
      BY <2>2 DEF TasksFollow, NoneLost
  <2>4. Fits(h, s) /\ StillCovers(h, s)
      BY <1>1, <1>3, <2>1 DEF Fits, StillCovers, covers, isAbout
  <2> QED
      BY <1>1, <1>3, <2>1, <2>3, <2>4, StaysInOrder
<1> QED
    BY <1>4, <1>6, <1>7 DEF TasksInv, inOrderOnes

LEMMA Searchers ==
    ASSUME TasksInv, NEW h \in Handlers, inProgress(h), handlers[h].pc = "searching"
    PROVE  /\ handlers[h].kind = "check" /\ handlers[h].suspect \in Suspects
           /\ handlers[h].entity \in Suspects
    BY DEF TasksInv, HandlersInv, ShapedAs, Listeners

LEMMA ScoreOf ==
    ASSUME NEW h \in Handlers, handlers[h].suspect \in Suspects
    PROVE  /\ scoreOf(h) \in Progress /\ scoreOf(h).kind = "score" /\ scoreOf(h).pc = "scoring"
           /\ scoreOf(h).suspect = handlers[h].suspect /\ scoreOf(h).ids = {}
    BY NewHandler DEF scoreOf

LEMMA automergeKeeps ==
    ASSUME TasksInv, NEW h \in Handlers, automerge(h)
    PROVE  TasksInv'
<1> DEFINE e == handlers[h].entity
<1>1. /\ TasksTypeOK /\ HandlersInv /\ inProgress(h) /\ handlers[h].pc = "searching"
      /\ handlers[h].kind = "check" /\ handlers[h].suspect \in Suspects /\ e \in Suspects
    BY Searchers DEF TasksInv, automerge
<1>2. /\ handlers' = [handlers EXCEPT ![h] = scoreOf(h)]
      /\ lapsed' = (lapsed \union clashing(h, scoreOf(h))) \union {e}
      /\ UNCHANGED <<tasks, strays>>
    BY DEF automerge, GoesOn
<1>3. Move(h, {}) /\ handlers'[h] = scoreOf(h)
    BY <1>1, <1>2, ScoreOf, GoesOnMoves
<1>4. entities' = [entities EXCEPT ![e] = entities'[e]] /\ entities'[e] \in EntityDocs
    BY <1>1 DEF automerge, redirect, TasksTypeOK, EntityDocs
<1>5. TasksTypeOK'
  <2>1. lapsed' \subseteq Suspects
      BY <1>1, <1>2 DEF TasksTypeOK, clashing
  <2>2. entities' \in [Suspects -> EntityDocs]
      BY <1>1, <1>4 DEF TasksTypeOK
  <2> QED
      BY <1>1, <1>2, <1>3, <2>1, <2>2 DEF TasksTypeOK, Move
<1>6. HandlersInv'
  <2>1. TasksKept({})
      BY <1>1, <1>2, UnchangedTasks
  <2>2. ShapedAs(handlers'[h]) /\ Reads(handlers[h])'
      BY <1>1, <1>3, ScoreOf DEF ShapedAs, Reads
  <2> QED
      BY <1>1, <1>3, <2>1, <2>2, OthersRead
<1>7. ASSUME NEW s \in inOrderOnes'
      PROVE  InOrder(s)'
  <2>1. s \in Suspects /\ s \notin lapsed' /\ InOrder(s) /\ s # e
      BY <1>2 DEF inOrderOnes, TasksInv
  <2>2. entities'[s] = entities[s]
      BY <1>1, <1>4, <2>1 DEF TasksTypeOK
  <2>3. gone(s)' <=> gone(s)
      BY <2>2 DEF gone, isRedirection
  <2>4. TasksFollow(s) /\ NoneLost(s, h, {})
      BY <1>2 DEF TasksFollow, NoneLost, tasksOf
  <2>5. Fits(h, s)
    <3> SUFFICES ASSUME isAbout(h, s)'
                 PROVE  \A g \in Handlers \ {h} : isAbout(g, s) => ~clash("score", handlers[g].kind)
        BY <1>1, <1>3, ScoreOf DEF Fits, Listeners
    <3>1. scoreOf(h).suspect = s /\ clashing(h, scoreOf(h)) \subseteq lapsed'
        BY <1>2, <1>3 DEF isAbout
    <3> QED
        BY <1>1, <2>1, <3>1, ScoreOf, NoClashes
  <2>6. StillCovers(h, s)
      BY <1>1 DEF StillCovers, covers, Listeners
  <2> QED
      BY <1>1, <1>3, <2>1, <2>3, <2>4, <2>5, <2>6, StaysInOrder
<1> QED
    BY <1>5, <1>6, <1>7 DEF TasksInv, inOrderOnes

\* the new tasks of a check
LEMMA create_ ==
    ASSUME TasksTypeOK, NEW s \in Suspects, NEW suggestions \in SUBSET Suggestions,
           create(s, suggestions)
    PROVE  \E new \in SUBSET TaskIds :
              /\ tasks' \in [TaskIds -> TaskDocs \union {NoTask, DeletedTask}]
              /\ \A t \in TaskIds \ new : tasks'[t] = tasks[t]
              /\ \A t \in new : /\ tasks[t] = NoTask
                                /\ tasks'[t].suspectUri = s /\ tasks'[t].state = "live"
                                /\ tasks'[t].suggestionUri \in suggestions
              /\ \A t1, t2 \in new :
                    t1 # t2 => tasks'[t1].suggestionUri # tasks'[t2].suggestionUri
<1> DEFINE written(new, suggestionUri) ==
               [t \in TaskIds |->
                   IF t \in new THEN [suspectUri |-> s, suggestionUri |-> suggestionUri[t],
                                      state |-> "live"]
                   ELSE tasks[t]]
<1>1. PICK new \in SUBSET {t \in TaskIds : tasks[t] = NoTask} :
          \E suggestionUri \in Bijection(new, suggestions) :
              tasks' = written(new, suggestionUri)
    BY DEF create
<1>2. PICK suggestionUri \in Bijection(new, suggestions) : tasks' = written(new, suggestionUri)
    BY <1>1
<1>3. /\ suggestionUri \in [new -> suggestions]
      /\ \A t1, t2 \in new : suggestionUri[t1] = suggestionUri[t2] => t1 = t2
    BY DEF Bijection, Injection, IsInjective
<1>4. \A t \in new : tasks'[t] \in TaskDocs
    BY <1>2, <1>3 DEF TaskDocs, TaskStates
<1>5. \A t \in new : /\ tasks'[t].suspectUri = s /\ tasks'[t].state = "live"
                     /\ tasks'[t].suggestionUri = suggestionUri[t]
    BY <1>2
<1>6. tasks' \in [TaskIds -> TaskDocs \union {NoTask, DeletedTask}]
    BY <1>2, <1>4 DEF TasksTypeOK
<1>7. \A t \in TaskIds \ new : tasks'[t] = tasks[t]
    BY <1>2
<1> HIDE DEF written
<1>8. /\ new \in SUBSET TaskIds
      /\ \A t \in new : tasks[t] = NoTask /\ tasks'[t].suggestionUri \in suggestions
    BY <1>3, <1>5
<1>9. \A t1, t2 \in new : t1 # t2 => tasks'[t1].suggestionUri # tasks'[t2].suggestionUri
    BY <1>3, <1>5
<1> QED
    BY <1>5, <1>6, <1>7, <1>8, <1>9

LEMMA CreateTasksKeeps ==
    ASSUME TasksInv, NEW h \in Handlers, CreateTasks(h)
    PROVE  TasksInv'
<1> DEFINE known == handlers[h].known
<1>0. PICK suspect \in Suspects : suspect = handlers[h].suspect
    BY Searchers DEF CreateTasks
<1>1. /\ TasksTypeOK /\ HandlersInv /\ inProgress(h) /\ handlers[h].pc = "searching"
      /\ handlers[h].kind = "check" /\ suspect = handlers[h].suspect
    BY <1>0, Searchers DEF TasksInv, CreateTasks
<1>2. /\ handlers' = [handlers EXCEPT ![h] = scoreOf(h)]
      /\ lapsed' = lapsed \union clashing(h, scoreOf(h))
      /\ UNCHANGED <<entities, strays>>
    BY DEF CreateTasks, GoesOn
<1>3. PICK found \in SUBSET Suggestions : create(suspect, found \ known)
    BY <1>0 DEF CreateTasks
<1>4. found \ known \in SUBSET Suggestions
    OBVIOUS
<1> HIDE DEF known
<1>5. PICK new \in SUBSET TaskIds :
         /\ tasks' \in [TaskIds -> TaskDocs \union {NoTask, DeletedTask}]
         /\ \A t \in TaskIds \ new : tasks'[t] = tasks[t]
         /\ \A t \in new : /\ tasks[t] = NoTask
                           /\ tasks'[t].suspectUri = suspect /\ tasks'[t].state = "live"
                           /\ tasks'[t].suggestionUri \in found \ known
         /\ \A t1, t2 \in new :
               t1 # t2 => tasks'[t1].suggestionUri # tasks'[t2].suggestionUri
    BY <1>1, <1>3, <1>4, create_
<1>6. Move(h, {}) /\ handlers'[h] = scoreOf(h)
    BY <1>1, <1>2, ScoreOf, GoesOnMoves
<1>7. /\ handlers'[h].kind = "score" /\ handlers'[h].pc = "scoring"
      /\ handlers'[h].suspect = suspect /\ handlers'[h].ids = {}
    BY <1>1, <1>6, ScoreOf
<1>8. TasksTypeOK'
  <2>1. lapsed' \subseteq Suspects
      BY <1>1, <1>2 DEF TasksTypeOK, clashing
  <2> QED
      BY <1>1, <1>2, <1>5, <1>6, <2>1 DEF TasksTypeOK, Move
<1>9. HandlersInv'
  <2>1. TasksKept({})
      BY <1>5 DEF TasksKept, Created
  <2>2. ShapedAs(handlers'[h]) /\ Reads(handlers[h])'
      BY <1>1, <1>7 DEF ShapedAs, Reads
  <2> QED
      BY <1>1, <1>6, <2>1, <2>2, OthersRead
<1>10. ASSUME NEW s \in inOrderOnes'
       PROVE  /\ s \in Suspects /\ s \notin lapsed' /\ InOrder(s) /\ (gone(s)' <=> gone(s))
              /\ suspect = s => \A g \in Handlers \ {h} :
                                   isAbout(g, s) => ~clash("score", handlers[g].kind)
  <2>1. s \in Suspects /\ s \notin lapsed' /\ InOrder(s) /\ (gone(s)' <=> gone(s))
      BY <1>2 DEF inOrderOnes, TasksInv, gone, isRedirection
  <2>2. suspect = s => \A g \in Handlers \ {h} :
                          isAbout(g, s) => ~clash("score", handlers[g].kind)
    <3>1. clashing(h, scoreOf(h)) \subseteq lapsed'
        BY <1>2
    <3>2. scoreOf(h).kind = "score" /\ scoreOf(h).suspect = suspect
        BY <1>1, ScoreOf
    <3> QED
        BY <2>1, <3>1, <3>2, NoClashes
  <2> QED
      BY <2>1, <2>2
<1>11. ASSUME NEW s \in inOrderOnes', s # suspect
       PROVE  InOrder(s)'
  <2>1. \A t \in tasksOf(s)' : /\ t \in TaskIds /\ t \in tasksOf(s) /\ tasks'[t] = tasks[t]
      BY <1>5, <1>11 DEF tasksOf
  <2>2. TasksFollow(s) /\ NoneLost(s, h, {})
      BY <2>1 DEF TasksFollow, NoneLost
  <2>3. Fits(h, s) /\ StillCovers(h, s)
      BY <1>1, <1>7, <1>11 DEF Fits, StillCovers, covers, isAbout, Listeners
  <2> QED
      BY <1>1, <1>6, <1>10, <2>2, <2>3, StaysInOrder
<1>12. ASSUME suspect \in inOrderOnes'
       PROVE  InOrder(suspect)'
  <2>1. /\ InOrder(suspect) /\ isAbout(h, suspect) /\ ~gone(suspect) /\ ~gone(suspect)'
    <3>1. InOrder(suspect) /\ isAbout(h, suspect) /\ (gone(suspect)' <=> gone(suspect))
        BY <1>1, <1>10, <1>12 DEF isAbout
    <3> QED
        BY <1>1, <3>1 DEF InOrder, Matches
  <2>2. \A g \in Handlers \ {h} :
           isAbout(g, suspect) => handlers[g].kind \notin Listeners \union {"check"}
      BY <1>1, <2>1 DEF InOrder, NoClash, clash
  <2>3. \A g \in Handlers \ {h} : /\ isAbout(g, suspect)' <=> isAbout(g, suspect)
                                  /\ isAbout(g, suspect) =>
                                        /\ handlers'[g].kind = handlers[g].kind
                                        /\ handlers'[g].pc = handlers[g].pc
      BY <1>1, <1>6, OthersMove, Zenon DEF isAbout
  <2>4. \A g \in Handlers : isAbout(g, suspect)' =>
           handlers'[g].kind \notin Listeners \union {"check"} /\ handlers'[g].pc # "searching"
    <3> SUFFICES ASSUME NEW g \in Handlers, isAbout(g, suspect)'
                 PROVE  /\ handlers'[g].kind \notin Listeners \union {"check"}
                        /\ handlers'[g].pc # "searching"
        OBVIOUS
    <3>1. CASE g = h
        BY <1>7, <3>1 DEF Listeners
    <3>2. CASE g # h
      <4>1. isAbout(g, suspect) /\ handlers[g].kind \notin Listeners \union {"check"}
          BY <2>2, <2>3, <3>2
      <4>2. handlers[g].pc # "searching"
          BY <1>1, <4>1 DEF HandlersInv, ShapedAs, isAbout
      <4> QED
          BY <2>3, <3>2, <4>1, <4>2
    <3> QED
        BY <3>1, <3>2
  <2>5. \A t \in tasksOf(suspect) : t \in TaskIds /\ tasks[t].state # "merged"
    <3>1. \A g \in Handlers : isAbout(g, suspect) => handlers[g].kind \notin Listeners
        BY <1>1, <2>2 DEF Listeners
    <3> QED
        BY <2>1, <3>1 DEF InOrder, Covered, covers, toFollow, tasksOf
  <2>6. \A t \in tasksOf(suspect)' :
           /\ t \in TaskIds
           /\ tasks'[t].state # "merged"
           /\ t \notin new => t \in tasksOf(suspect) /\ tasks'[t] = tasks[t]
      BY <1>5, <2>5 DEF tasksOf
  <2>7. NoClash(suspect)'
    <3> SUFFICES ASSUME NEW g1 \in Handlers, NEW g2 \in Handlers, g1 # g2,
                        isAbout(g1, suspect)', isAbout(g2, suspect)'
                 PROVE  ~clash(handlers'[g1].kind, handlers'[g2].kind)
        BY <1>2, Zenon DEF NoClash, clash
    <3> QED
        BY <2>4 DEF clash
  <2>8. Matches(suspect)'
    <3>1. \A g \in Handlers : isAbout(g, suspect)' =>
             handlers'[g].kind \notin {"archive", "revert", "check"}
        BY <2>4 DEF Listeners
    <3> QED
        BY <3>1 DEF Matches
  <2>9. Covered(suspect)' /\ Knows(suspect)'
      BY <2>1, <2>4, <2>6 DEF Covered, Knows, toFollow
  <2>10. Distinct(suspect)'
    <3>1. \A t : held(suspect, t)' => t \in tasksOf(suspect)' /\ tasks'[t].state = "live"
        BY <2>4, <2>6 DEF held
    <3>2. \A t \in tasksOf(suspect)' \ new : tasks'[t].state = "live" =>
              /\ held(suspect, t) /\ tasks'[t].suggestionUri = tasks[t].suggestionUri
              /\ tasks[t].suggestionUri \in known
        BY <1>1, <2>1, <2>6 DEF InOrder, Knows, held, known
    <3> SUFFICES ASSUME NEW t1 \in TaskIds, NEW t2 \in TaskIds, held(suspect, t1)',
                        held(suspect, t2)', t1 # t2
                 PROVE  tasks'[t1].suggestionUri # tasks'[t2].suggestionUri
        BY DEF Distinct
    <3>3. CASE t1 \in new /\ t2 \in new
        BY <1>5, <3>3
    <3>4. CASE t1 \in new /\ t2 \notin new
        BY <1>5, <3>1, <3>2, <3>4
    <3>5. CASE t1 \notin new /\ t2 \in new
        BY <1>5, <3>1, <3>2, <3>5
    <3>6. CASE t1 \notin new /\ t2 \notin new
        BY <2>1, <3>1, <3>2, <3>6 DEF InOrder, Distinct
    <3> QED
        BY <3>3, <3>4, <3>5, <3>6
  <2> QED
      BY <2>7, <2>8, <2>9, <2>10 DEF InOrder
<1> QED
    BY <1>8, <1>9, <1>11, <1>12 DEF TasksInv, inOrderOnes
-----------------------------------------------------------------------------
(* The requests that write an entity, whose listener covers all of its tasks *)

LEMMA WrittenKeeps ==
    ASSUME TasksInv, NEW h \in Handlers, NEW s \in Suspects, NEW kind \in Listeners,
           NEW accidents \in SUBSET Suspects,
           Starts(h, Handler(kind, "written", s), accidents), UNCHANGED <<tasks, strays>>,
           NEW e \in EntityDocs, entities' = [entities EXCEPT ![s] = e],
           s \notin accidents => (kind = "archive" <=> gone(s)')
    PROVE  TasksInv'
<1> DEFINE handler == Handler(kind, "written", s)
<1>1. /\ TasksTypeOK /\ HandlersInv /\ ~inProgress(h)
      /\ handlers' = [handlers EXCEPT ![h] = handler]
      /\ lapsed' = (lapsed \union clashing(h, handler)) \union accidents
    BY DEF TasksInv, Starts, GoesOn
<1>2. /\ handler \in Progress /\ handler.kind = kind /\ handler.pc = "written"
      /\ handler.suspect = s /\ handler.ids = {}
    BY NewHandler DEF Listeners
<1> HIDE DEF handler
<1>3. Move(h, {}) /\ handlers'[h] = handler
    BY <1>1, <1>2, GoesOnMoves
<1>4. TasksTypeOK'
  <2>1. lapsed' \subseteq Suspects
      BY <1>1 DEF TasksTypeOK, clashing
  <2>2. entities' \in [Suspects -> EntityDocs]
      BY <1>1 DEF TasksTypeOK
  <2> QED
      BY <1>1, <1>3, <2>1, <2>2 DEF TasksTypeOK, Move
<1>5. HandlersInv'
  <2>1. TasksKept({})
      BY <1>1, UnchangedTasks
  <2>2. ShapedAs(handlers'[h]) /\ Reads(handlers[h])'
      BY <1>2, <1>3 DEF ShapedAs, Reads
  <2> QED
      BY <1>1, <1>3, <2>1, <2>2, OthersRead
<1>6. ASSUME NEW r \in inOrderOnes'
      PROVE  r \in Suspects /\ r \notin lapsed' /\ InOrder(r) /\ tasksOf(r)' = tasksOf(r)
    BY <1>1 DEF inOrderOnes, TasksInv, tasksOf
<1>7. ASSUME NEW r \in inOrderOnes', r # s
      PROVE  InOrder(r)'
  <2>1. gone(r)' <=> gone(r)
      BY <1>1, <1>6, <1>7 DEF gone, isRedirection, TasksTypeOK
  <2>2. TasksFollow(r) /\ NoneLost(r, h, {})
      BY DEF TasksFollow, NoneLost, tasksOf
  <2>3. Fits(h, r) /\ StillCovers(h, r)
      BY <1>1, <1>2, <1>3, <1>7 DEF Fits, StillCovers, covers, isAbout
  <2> QED
      BY <1>1, <1>3, <1>6, <2>1, <2>2, <2>3, StaysInOrder
<1>8. ASSUME s \in inOrderOnes'
      PROVE  InOrder(s)'
  <2>1. InOrder(s) /\ s \notin lapsed' /\ tasksOf(s)' = tasksOf(s)
      BY <1>6, <1>8
  <2>2. \A g \in Handlers \ {h} : isAbout(g, s) => ~clash(kind, handlers[g].kind)
    <3>1. clashing(h, handler) \subseteq lapsed'
        BY <1>1
    <3> QED
        BY <1>2, <2>1, <3>1, NoClashes
  <2>3. kind = "archive" <=> gone(s)'
      BY <1>1, <2>1
  <2>4. \A g \in Handlers \ {h} :
           /\ isAbout(g, s)' <=> isAbout(g, s)
           /\ isAbout(g, s) => /\ handlers'[g].kind = handlers[g].kind
                               /\ handlers'[g].pc = handlers[g].pc
                               /\ handlers'[g].ids = handlers[g].ids
    <3>1. \A g \in Handlers \ {h} : handlers'[g] = handlers[g]
        BY <1>1
    <3> QED
        BY <3>1, Zenon DEF isAbout, inProgress
  <2>5. isAbout(h, s)'
      BY <1>2, <1>3 DEF isAbout, inProgress, Listeners
  <2>6. NoClash(s)'
    <3> SUFFICES ASSUME NEW g1 \in Handlers, NEW g2 \in Handlers, g1 # g2,
                        isAbout(g1, s)', isAbout(g2, s)'
                 PROVE  ~clash(handlers'[g1].kind, handlers'[g2].kind)
        BY Zenon DEF NoClash, clash
    <3>1. CASE g1 # h /\ g2 # h
        BY <2>1, <2>4, <3>1 DEF InOrder, NoClash
    <3>2. CASE g1 = h
        BY <1>2, <1>3, <2>2, <2>4, <3>2
    <3>3. CASE g2 = h
        BY <1>2, <1>3, <2>2, <2>4, <3>3, ClashIsMutual
    <3> QED
        BY <3>1, <3>2, <3>3
  <2>7. Matches(s)'
    <3> SUFFICES ASSUME NEW g \in Handlers, isAbout(g, s)'
                 PROVE  /\ handlers'[g].kind = "archive" => gone(s)'
                        /\ handlers'[g].kind \in {"revert", "check"} => ~gone(s)'
        BY Zenon DEF Matches
    <3>1. CASE g = h
        BY <1>2, <1>3, <2>3, <3>1 DEF Listeners
    <3>2. CASE g # h
      <4>1. ~clash(kind, handlers[g].kind) /\ handlers'[g].kind = handlers[g].kind
          BY <2>2, <2>4, <3>2
      <4> QED
          BY <2>3, <4>1 DEF clash, Listeners
    <3> QED
        BY <3>1, <3>2
  <2>8. Covered(s)'
    <3>1. \A t : covers(h, s, t)'
        BY <1>2, <1>3, <2>5 DEF covers
    <3> QED
        BY <3>1 DEF Covered
  <2>9. Knows(s)'
    <3>1. \A g \in Handlers : isAbout(g, s)' => handlers'[g].pc # "searching"
      <4>1. ASSUME NEW g \in Handlers \ {h}, isAbout(g, s)
            PROVE  handlers[g].pc # "searching"
        <5>1. handlers[g].kind # "check"
            BY <2>2, <4>1 DEF clash
        <5> QED
            BY <1>1, <4>1, <5>1 DEF HandlersInv, ShapedAs, isAbout
      <4> QED
          BY <1>2, <1>3, <2>4, <4>1
    <3> QED
        BY <3>1 DEF Knows
  <2>10. Distinct(s)'
    <3>1. \A t \in TaskIds : held(s, t)' => held(s, t)
        BY <1>2, <1>3, <2>1, <2>4 DEF held
    <3> QED
        BY <2>1, <3>1 DEF InOrder, Distinct
  <2> QED
      BY <2>6, <2>7, <2>8, <2>9, <2>10 DEF InOrder
<1> QED
    BY <1>4, <1>5, <1>7, <1>8 DEF TasksInv, inOrderOnes

LEMMA Entity ==
    ASSUME TasksInv, NEW s \in Suspects
    PROVE  /\ entities[s] \in EntityDocs
           /\ \A e \in EntityDocs : entities' = [entities EXCEPT ![s] = e] => entities'[s] = e
    BY DEF TasksInv, TasksTypeOK

LEMMA MergeKeeps ==
    ASSUME TasksInv, NEW h \in Handlers, NEW s \in Suspects,
           NEW to \in Suspects \union {"wikidata"}, Merge(h, s, to)
    PROVE  TasksInv'
<1> DEFINE e == [entities[s] EXCEPT !.redirect = to,
                                    !.restoresRemoved = entities[s].removed]
<1>1. e \in EntityDocs /\ e.redirect = to
    BY Entity DEF EntityDocs
<1>2. entities' = [entities EXCEPT ![s] = e]
    BY DEF Merge, redirect, TasksInv, TasksTypeOK
<1>3. gone(s)'
  <2>1. to # "none"
      BY TasksAssumption
  <2> QED
      BY <1>1, <1>2, <2>1, Entity DEF gone, isRedirection
<1>4. Starts(h, Handler("archive", "written", s), {}) /\ UNCHANGED <<tasks, strays>>
    BY DEF Merge
<1>5. "archive" \in Listeners /\ {} \in SUBSET Suspects
    BY DEF Listeners
<1> HIDE DEF e
<1> QED
    BY <1>1, <1>2, <1>3, <1>4, <1>5, WrittenKeeps

LEMMA RemovePlaceholderKeeps ==
    ASSUME TasksInv, NEW h \in Handlers, NEW s \in Suspects, RemovePlaceholder(h, s)
    PROVE  TasksInv'
<1> DEFINE e == [entities[s] EXCEPT !.removed = @ \/ ~isRedirection(s)]
<1>1. /\ e \in EntityDocs /\ e.redirect = entities[s].redirect
      /\ e.removed = (entities[s].removed \/ ~isRedirection(s))
    BY Entity DEF EntityDocs
<1>2. entities' = [entities EXCEPT ![s] = e]
    BY DEF RemovePlaceholder, TasksInv, TasksTypeOK
<1>3. gone(s)'
    BY <1>1, <1>2, Entity DEF gone, isRedirection
<1>4. Starts(h, Handler("archive", "written", s), {}) /\ UNCHANGED <<tasks, strays>>
    BY DEF RemovePlaceholder
<1>5. "archive" \in Listeners /\ {} \in SUBSET Suspects
    BY DEF Listeners
<1> HIDE DEF e
<1> QED
    BY <1>1, <1>2, <1>3, <1>4, <1>5, WrittenKeeps

LEMMA RevertMergeKeeps ==
    ASSUME TasksInv, NEW h \in Handlers, NEW s \in Suspects, RevertMerge(h, s)
    PROVE  TasksInv'
<1> DEFINE e == [redirect |-> "none", removed |-> entities[s].restoresRemoved,
                 restoresRemoved |-> FALSE]
           accidents == {g \in {s} : entities[g].restoresRemoved}
<1>1. /\ e \in EntityDocs /\ e.redirect = "none" /\ e.removed = entities[s].restoresRemoved
    BY Entity DEF EntityDocs
<1>2. entities' = [entities EXCEPT ![s] = e]
    BY DEF RevertMerge
<1>3. s \notin accidents => ~gone(s)'
    BY <1>1, <1>2, Entity DEF gone, isRedirection
<1>4. /\ Starts(h, Handler("revert", "written", s), accidents)
      /\ UNCHANGED <<tasks, strays>>
    BY DEF RevertMerge
<1>5. "revert" \in Listeners /\ accidents \in SUBSET Suspects
    BY DEF Listeners
<1> HIDE DEF e, accidents
<1> QED
    BY <1>1, <1>2, <1>3, <1>4, <1>5, WrittenKeeps

LEMMA RecoverPlaceholderKeeps ==
    ASSUME TasksInv, NEW h \in Handlers, NEW s \in Suspects, RecoverPlaceholder(h, s)
    PROVE  TasksInv'
<1> DEFINE e == [entities[s] EXCEPT !.removed = FALSE]
           accidents == {g \in {s} : isRedirection(g)}
<1>1. /\ e \in EntityDocs /\ e.redirect = entities[s].redirect /\ e.removed = FALSE
    BY Entity DEF EntityDocs
<1>2. entities' = [entities EXCEPT ![s] = e]
    BY DEF RecoverPlaceholder, TasksInv, TasksTypeOK
<1>3. s \notin accidents => ~gone(s)'
    BY <1>1, <1>2, Entity DEF gone, isRedirection
<1>4. /\ Starts(h, Handler("revert", "written", s), accidents)
      /\ UNCHANGED <<tasks, strays>>
    BY DEF RecoverPlaceholder
<1>5. "revert" \in Listeners /\ accidents \in SUBSET Suspects
    BY DEF Listeners
<1> HIDE DEF e, accidents
<1> QED
    BY <1>1, <1>2, <1>3, <1>4, <1>5, WrittenKeeps
-----------------------------------------------------------------------------

LEMMA TasksInitially == TasksInit => TasksInv
<1> SUFFICES ASSUME TasksInit PROVE TasksInv
    OBVIOUS
<1>1. NoTask.suspectUri \notin Suspects /\ \A h \in Handlers : ~inProgress(h)
    BY TasksAssumption DEF TasksInit, NoTask, NoHandler, inProgress
<1>2. \A s \in Suspects : tasksOf(s) = {}
    BY <1>1 DEF TasksInit, tasksOf
<1>3. TasksTypeOK
    BY DEF TasksInit, TasksTypeOK, EntityDocs
<1>4. HandlersInv
    BY <1>1 DEF HandlersInv
<1>5. \A s \in Suspects : InOrder(s)
    BY <1>1, <1>2 DEF InOrder, NoClash, Matches, Covered, Knows, Distinct, held, isAbout
<1> QED
    BY <1>3, <1>4, <1>5 DEF TasksInv

LEMMA TasksStep == TasksInv /\ [TasksNext]_tasksVars => TasksInv'
<1> SUFFICES ASSUME TasksInv, [TasksNext]_tasksVars PROVE TasksInv'
    OBVIOUS
<1>1. ASSUME NEW h \in Handlers, NEW s \in Suspects, checkEntity(h, s) PROVE TasksInv'
    BY <1>1, checkEntityKeeps
<1>2. ASSUME NEW h \in Handlers, NEW s \in Suspects, NEW to \in Suspects \union {"wikidata"},
             Merge(h, s, to)
      PROVE  TasksInv'
    BY <1>2, MergeKeeps
<1>3. ASSUME NEW h \in Handlers, NEW s \in Suspects,
             RemovePlaceholder(h, s) \/ RevertMerge(h, s) \/ RecoverPlaceholder(h, s)
      PROVE  TasksInv'
    BY <1>3, RemovePlaceholderKeeps, RevertMergeKeeps, RecoverPlaceholderKeeps
<1>4. ASSUME NEW h \in Handlers, NEW p \in Suggestions, WikidataRedirect(h, p) PROVE TasksInv'
    BY <1>4, WikidataRedirectKeeps
<1>5. ASSUME NEW h \in Handlers, NEW t \in TaskIds, Dismiss(h, t) PROVE TasksInv'
    BY <1>5, DismissKeeps
<1>6. ASSUME NEW h \in Handlers,
             ReadExistingTasks(h) \/ CreateTasks(h) \/ automerge(h)
      PROVE  TasksInv'
    BY <1>6, ReadExistingTasksKeeps, CreateTasksKeeps, automergeKeeps
<1>7. ASSUME NEW h \in Handlers, archiveObsoleteEntityUriTasks(h) \/ revertArchive(h)
      PROVE  TasksInv'
    BY <1>7, archiveObsoleteEntityUriTasksKeeps, revertArchiveKeeps
<1>8. ASSUME NEW h \in Handlers,
             \/ byIds(h) \/ bulk(h) \/ updateRelationScore(h) \/ deleteBySuggestionUri(h)
             \/ HandlerFails(h)
      PROVE  TasksInv'
    BY <1>8, byIdsKeeps, bulkKeeps, updateRelationScoreKeeps, deleteBySuggestionUriKeeps,
       HandlerFailsKeeps
<1>9. CASE UNCHANGED tasksVars
    BY <1>9 DEF tasksVars, TasksInv, TasksTypeOK, HandlersInv, Reads, Created, InOrder, NoClash,
       Matches, Covered, Knows, Distinct, held, covers, toFollow, tasksOf, isAbout, inProgress,
       gone, isRedirection
<1> QED
    BY <1>1, <1>2, <1>3, <1>4, <1>5, <1>6, <1>7, <1>8, <1>9 DEF TasksNext

LEMMA TasksInvariant == TasksSpec => []TasksInv
    BY TasksInitially, TasksStep, PTL DEF TasksSpec

\* Once the archive or the revert of its listeners is done, an entity that was merged or
\* removed is nobody's suspect any more and one that is back has none of its tasks left
\* archived (hooks.js:16-19, 37-43), however many checks, dismissals, deletions, scores and
\* conflicting writes come in between, unless one of the accidents that the property
\* names happened to the entity, or it was checked while it was gone
THEOREM TasksEndWithTheirSuspects == TasksSpec => []TasksFollowSuspects
<1>1. TasksInv => TasksFollowSuspects
  <2> SUFFICES ASSUME TasksInv, NEW s \in inOrderOnes, ~followed(s),
                      NEW t \in bySuspectUriAndState(s, toFollow(s))
               PROVE  FALSE
      BY DEF TasksFollowSuspects, inOrderOnes, toFollow
  <2>1. InOrder(s) /\ t \in tasksOf(s) /\ tasks[t].state = toFollow(s)
      BY DEF TasksInv, inOrderOnes, bySuspectUriAndState, tasksOf, Created
  <2>2. \E g \in Handlers : covers(g, s, t)
      BY <2>1 DEF InOrder, Covered
  <2> QED
      BY <2>2 DEF covers, followed
<1> QED
    BY <1>1, TasksInvariant, PTL

\* However a suspect is checked, merged, removed and brought back, and its tasks dismissed
\* or deleted, it has one live task at most per suggestion (check_entity.js:24,
\* get_new_tasks.js:32-38), with the same exceptions
THEOREM OneTaskPerSuggestion == TasksSpec => []NoSuggestionTwice
<1>1. TasksInv => NoSuggestionTwice
  <2> SUFFICES ASSUME TasksInv, NEW s \in inOrderOnes, NEW t1 \in bySuspectUri(s),
                      NEW t2 \in bySuspectUri(s), t1 # t2
               PROVE  tasks[t1].suggestionUri # tasks[t2].suggestionUri
      BY DEF NoSuggestionTwice, suggestedTwice, inOrderOnes
  <2>1. /\ t1 \in TaskIds /\ t2 \in TaskIds /\ InOrder(s)
        /\ held(s, t1) /\ held(s, t2)
      BY DEF TasksInv, inOrderOnes, bySuspectUri, bySuspectUriAndState, Created, held, tasksOf
  <2> QED
      BY <2>1 DEF InOrder, Distinct
<1> QED
    BY <1>1, TasksInvariant, PTL

-----------------------------------------------------------------------------
(* Calls wait in one group of requests, for any keys, calls and versions of the source *)

GroupDocs == [members : SUBSET Gets, since : Versions, answer : Answers]

\* those that wait are in the next group or in one in flight
WaitersAreGrouped ==
    \A g \in Gets : gets[g].pc = "waiting" => g \in open \/ \E r \in groups : g \in r.members

\* and those in a group wait
GroupedWait ==
    /\ \A g \in open : gets[g].pc = "waiting"
    /\ \A r \in groups : \A g \in r.members : gets[g].pc = "waiting"

\* groups share no member
GroupsAreDisjoint ==
    /\ \A r, s \in groups : \A g \in r.members : g \in s.members => r = s
    /\ \A r \in groups : \A g \in r.members : g \notin open

\* a call is not of the future
CallsArePast == \A g \in Gets : gets[g] # NotCalled => gets[g].since <= source

\* the members of a group called before its request started, which is before its answer
RequestsFollowCalls ==
    \A r \in groups :
        /\ r.since <= source
        /\ \A g \in r.members : gets[g].since <= r.since
        /\ r.answer # NoAnswer => r.since <= r.answer

Grouping == WaitersAreGrouped /\ GroupedWait /\ GroupsAreDisjoint
Dating == CallsArePast /\ RequestsFollowCalls
FetchInv == FetchingTypeOK /\ Grouping /\ Dating

-----------------------------------------------------------------------------
LEMMA MembersAreCalls ==
    ASSUME FetchingTypeOK, NEW g \in Gets, gets[g] # NotCalled
    PROVE  /\ gets[g] \in Calls /\ gets[g].since \in Nat
           /\ gets[g].pc \in {"checking", "waiting", "fallback"}
           /\ gets[g].key \in FetchKeys
BY FetchingAssumption DEF FetchingTypeOK, Calls, Versions

LEMMA WaitingAreCalled ==
    ASSUME NEW g, gets[g].pc \in {"checking", "waiting", "fallback"} PROVE gets[g] # NotCalled
BY DEF NotCalled

LEMMA FetchingStarts == FetchingInit => FetchInv
<1> SUFFICES ASSUME FetchingInit PROVE FetchInv
    OBVIOUS
<1>1. FetchingTypeOK
    BY FetchingAssumption
       DEF FetchingInit, FetchingTypeOK, NoEntry, Answers, Versions, Ages, NoAnswer
<1>2. Grouping
    BY DEF FetchingInit, Grouping, WaitersAreGrouped, GroupedWait, GroupsAreDisjoint, NotCalled
<1>3. Dating
    BY DEF FetchingInit, Dating, CallsArePast, RequestsFollowCalls
<1> QED BY <1>1, <1>2, <1>3 DEF FetchInv

-----------------------------------------------------------------------------
LEMMA FetchingTypeGoesOn ==
    FetchInv /\ [FetchingNext]_fetchingVars => FetchingTypeOK'
<1> SUFFICES ASSUME FetchInv, [FetchingNext]_fetchingVars PROVE FetchingTypeOK'
    OBVIOUS
<1> DEFINE Entries == [body : Answers, age : Ages]
           Slots == Calls \union {NotCalled}
           Writes == [key : FetchKeys, body : Versions]
<1>0. /\ source \in Versions
      /\ cache \in [FetchKeys -> Entries]
      /\ gets \in [Gets -> Slots]
      /\ open \subseteq Gets
      /\ groups \subseteq GroupDocs
      /\ puts \subseteq Writes
    BY DEF FetchInv, FetchingTypeOK, GroupDocs
<1> SUFFICES /\ source' \in Versions
             /\ cache' \in [FetchKeys -> Entries]
             /\ gets' \in [Gets -> Slots]
             /\ open' \subseteq Gets
             /\ groups' \subseteq GroupDocs
             /\ puts' \subseteq Writes
    BY DEF FetchingTypeOK, GroupDocs
<1>n. NotCalled \in Slots /\ NoEntry \in Entries
    BY DEF NoEntry, Answers, Ages
<1>v. NoAnswer \in Answers /\ source \in Answers /\ \A v \in Versions : v \in Answers
    BY <1>0 DEF Answers
<1> DEFINE Typed == /\ source' \in Versions
                    /\ cache' \in [FetchKeys -> Entries]
                    /\ gets' \in [Gets -> Slots]
                    /\ open' \subseteq Gets
                    /\ groups' \subseteq GroupDocs
                    /\ puts' \subseteq Writes
<1>1. ASSUME NEW g \in Gets, NEW k \in FetchKeys, NEW kind \in Kinds, Get(g, k, kind)
      PROVE  Typed
    <2>1. [pc |-> "checking", key |-> k, kind |-> kind, since |-> source] \in Slots
        BY <1>0 DEF Calls
    <2> QED BY <1>0, <1>1, <2>1 DEF Get
<1>2. ASSUME NEW g \in Gets, Cached(g) \/ returnOldValue(g) PROVE Typed
    BY <1>0, <1>n, <1>2 DEF Cached, returnOldValue
<1>3. ASSUME NEW g \in Gets, RequestIfNeeded(g) PROVE Typed
    <2>1. gets[g] \in Calls
        BY <1>3, WaitingAreCalled, MembersAreCalls DEF RequestIfNeeded, FetchInv
    <2>2. [gets[g] EXCEPT !.pc = "waiting"] \in Slots
        BY <2>1 DEF Calls
    <2>3. gets' = [gets EXCEPT ![g] = [gets[g] EXCEPT !.pc = "waiting"]]
        BY <1>3 DEF RequestIfNeeded
    <2> QED BY <1>0, <1>3, <2>2, <2>3 DEF RequestIfNeeded, JoinGroup
<1>4. CASE doGroupedRequest
    <2>1. [members |-> open, since |-> source, answer |-> NoAnswer] \in GroupDocs
        BY <1>0, <1>v DEF GroupDocs
    <2> QED BY <1>0, <1>4, <2>1 DEF doGroupedRequest
<1>5. ASSUME NEW r \in groups, Resolve(r) PROVE Typed
    <2>1. ASSUME NEW g \in r.members PROVE [key |-> gets[g].key, body |-> r.answer] \in Writes
        <3>1. g \in Gets /\ gets[g] # NotCalled
            BY <1>0, WaitingAreCalled DEF GroupDocs, FetchInv, Grouping, GroupedWait
        <3>2. gets[g].key \in FetchKeys
            BY <3>1, MembersAreCalls DEF FetchInv
        <3>3. r.answer \in Versions
            BY <1>0, <1>5 DEF Resolve, GroupDocs, Answers
        <3> QED BY <3>2, <3>3
    <2>2. puts' \subseteq Writes
        BY <1>0, <1>5, <2>1 DEF Resolve
    <2> QED BY <1>0, <1>n, <1>5, <2>2 DEF Resolve
<1>6. ASSUME NEW r \in groups, Reject(r) PROVE Typed
    <2>1. ASSUME NEW g \in Gets, g \in r.members
          PROVE  [gets[g] EXCEPT !.pc = "fallback"] \in Slots
        <3>1. gets[g] \in Calls
            BY <2>1, WaitingAreCalled, MembersAreCalls DEF FetchInv, Grouping, GroupedWait
        <3> QED BY <3>1 DEF Calls
    <2>2. gets' = [g \in Gets |->
                     IF g \notin r.members THEN gets[g]
                     ELSE IF refuseOldValue(gets[g].kind) THEN NotCalled
                     ELSE [gets[g] EXCEPT !.pc = "fallback"]]
        BY <1>6 DEF Reject
    <2>3. gets' \in [Gets -> Slots]
        BY <1>0, <1>n, <2>1, <2>2
    <2> QED BY <1>0, <1>6, <2>3 DEF Reject
<1>7. ASSUME NEW p \in puts, putResponseInCache(p) \/ PutFails(p) PROVE Typed
    <2>1. [body |-> p.body, age |-> "now"] \in Entries
        BY <1>0, <1>v DEF Ages
    <2> QED BY <1>0, <1>7, <2>1 DEF putResponseInCache, PutFails
<1>8. ASSUME NEW r \in groups, SourceAnswers(r) PROVE Typed
    <2>1. [r EXCEPT !.answer = source] \in GroupDocs
        BY <1>0, <1>v DEF GroupDocs
    <2> QED BY <1>0, <1>8, <2>1 DEF SourceAnswers
<1>9. ASSUME NEW ks \in SUBSET FetchKeys, batchDelete(ks) PROVE Typed
    BY <1>0, <1>n, <1>9 DEF batchDelete
<1>10. ASSUME NEW k \in FetchKeys, EntryAges(k) PROVE Typed
    <2> DEFINE age == IF cache[k].age = "now" THEN "fresh" ELSE "old"
    <2>1. [cache[k] EXCEPT !.age = age] \in Entries
        BY <1>0 DEF Ages
    <2>2. cache' = [cache EXCEPT ![k] = [cache[k] EXCEPT !.age = age]]
        BY <1>10 DEF EntryAges
    <2> QED BY <1>0, <1>10, <2>1, <2>2 DEF EntryAges
<1>11. CASE SourceChanges
    BY <1>0, <1>11, FetchingAssumption DEF SourceChanges, Versions
<1>12. CASE ServerRestarts
    BY <1>0, <1>n, <1>12 DEF ServerRestarts
<1>13. CASE UNCHANGED fetchingVars
    BY <1>0, <1>13 DEF fetchingVars
<1> QED BY <1>1, <1>2, <1>3, <1>4, <1>5, <1>6, <1>7, <1>8, <1>9, <1>10, <1>11, <1>12, <1>13
        DEF FetchingNext, FetchingStep

-----------------------------------------------------------------------------
(* The steps that leave the groups and those that wait alone *)

WaitersKept ==
    /\ UNCHANGED <<open, groups>>
    /\ \A g \in Gets : gets'[g].pc = "waiting" <=> gets[g].pc = "waiting"

LEMMA GroupingWhenKept ==
    ASSUME FetchingTypeOK, Grouping, WaitersKept PROVE Grouping'
<1>1. open \subseteq Gets /\ \A r \in groups : r.members \subseteq Gets
    BY DEF FetchingTypeOK
<1>2. WaitersAreGrouped'
    BY DEF Grouping, WaitersAreGrouped, WaitersKept
<1>3. GroupedWait'
    BY <1>1 DEF Grouping, GroupedWait, WaitersKept
<1>4. GroupsAreDisjoint'
    BY DEF Grouping, GroupsAreDisjoint, WaitersKept
<1> QED BY <1>2, <1>3, <1>4 DEF Grouping

LEMMA GroupingGoesOn ==
    FetchInv /\ [FetchingNext]_fetchingVars => Grouping'
<1> SUFFICES ASSUME FetchInv, [FetchingNext]_fetchingVars PROVE Grouping'
    OBVIOUS
<1>0. /\ gets \in [Gets -> Calls \union {NotCalled}]
      /\ open \subseteq Gets /\ groups \subseteq GroupDocs
      /\ \A r \in groups : r.members \subseteq Gets
    BY DEF FetchInv, FetchingTypeOK, GroupDocs
<1>g. /\ WaitersAreGrouped /\ GroupedWait /\ GroupsAreDisjoint
      /\ FetchingTypeOK /\ Grouping
    BY DEF FetchInv, Grouping
<1>n. NotCalled.pc = "idle"
    BY DEF NotCalled
<1>1. ASSUME NEW g \in Gets, NEW k \in FetchKeys, NEW kind \in Kinds, Get(g, k, kind)
      PROVE  Grouping'
    <2>1. WaitersKept
        BY <1>0, <1>n, <1>1 DEF Get, WaitersKept
    <2> QED BY <1>g, <2>1, GroupingWhenKept
<1>2. ASSUME NEW g \in Gets, Cached(g) \/ returnOldValue(g) PROVE Grouping'
    <2>1. WaitersKept
        BY <1>0, <1>n, <1>2 DEF Cached, returnOldValue, WaitersKept
    <2> QED BY <1>g, <2>1, GroupingWhenKept
<1>3. ASSUME NEW g \in Gets, RequestIfNeeded(g) PROVE Grouping'
    <2>1. gets[g] \in Calls /\ gets[g].pc = "checking"
        BY <1>3, <1>g, WaitingAreCalled, MembersAreCalls DEF RequestIfNeeded
    <2>2. [gets[g] EXCEPT !.pc = "waiting"].pc = "waiting"
        BY <2>1 DEF Calls
    <2>3. /\ gets' = [gets EXCEPT ![g] = [gets[g] EXCEPT !.pc = "waiting"]]
          /\ open' = open \union {g} /\ groups' = groups
        BY <1>3 DEF RequestIfNeeded, JoinGroup
    <2>4. gets'[g].pc = "waiting" /\ \A h \in Gets \ {g} : gets'[h] = gets[h]
        BY <1>0, <2>2, <2>3
    <2>5. g \notin open /\ \A r \in groups : g \notin r.members
        BY <1>g, <2>1 DEF GroupedWait
    <2>6. WaitersAreGrouped'
        BY <1>g, <2>3, <2>4 DEF WaitersAreGrouped
    <2>7. GroupedWait'
        BY <1>0, <1>g, <2>3, <2>4, <2>5 DEF GroupedWait
    <2>8. GroupsAreDisjoint'
        BY <1>g, <2>3, <2>5 DEF GroupsAreDisjoint
    <2> QED BY <2>6, <2>7, <2>8 DEF Grouping
<1>4. CASE doGroupedRequest
    <2> DEFINE request == [members |-> open, since |-> source, answer |-> NoAnswer]
    <2>1. /\ groups' = groups \union {request} /\ open' = {} /\ gets' = gets
          /\ request.members = open
        BY <1>4 DEF doGroupedRequest
    <2> HIDE DEF request
    <2>2. WaitersAreGrouped'
        BY <1>g, <2>1 DEF WaitersAreGrouped
    <2>3. GroupedWait'
        BY <1>g, <2>1 DEF GroupedWait
    <2>4. GroupsAreDisjoint'
        BY <1>g, <2>1 DEF GroupsAreDisjoint
    <2> QED BY <2>2, <2>3, <2>4 DEF Grouping
<1>5. ASSUME NEW r \in groups, Resolve(r) \/ Reject(r) PROVE Grouping'
    <2>1. /\ groups' = groups \ {r} /\ open' = open
          /\ \A g \in Gets : g \notin r.members => gets'[g] = gets[g]
        BY <1>5 DEF Resolve, Reject
    <2>2. ASSUME NEW g \in Gets, g \in r.members PROVE gets'[g].pc # "waiting"
        <3>1. CASE Resolve(r)
            BY <1>n, <2>2, <3>1 DEF Resolve
        <3>2. CASE Reject(r)
            <4>1. gets[g] \in Calls
                BY <1>g, <2>2, WaitingAreCalled, MembersAreCalls DEF GroupedWait
            <4>2. [gets[g] EXCEPT !.pc = "fallback"].pc = "fallback"
                BY <4>1 DEF Calls
            <4>3. gets'[g] = IF refuseOldValue(gets[g].kind) THEN NotCalled
                             ELSE [gets[g] EXCEPT !.pc = "fallback"]
                BY <2>2, <3>2 DEF Reject
            <4> QED BY <1>n, <4>2, <4>3
        <3> QED BY <1>5, <3>1, <3>2
    <2>3. \A s \in groups' : s \in groups /\ \A g \in s.members : g \notin r.members
        BY <1>g, <2>1 DEF GroupsAreDisjoint
    <2>4. \A g \in open : g \notin r.members
        BY <1>g DEF GroupsAreDisjoint
    <2>5. WaitersAreGrouped'
        <3> SUFFICES ASSUME NEW g \in Gets, gets'[g].pc = "waiting"
                     PROVE  g \in open' \/ \E s \in groups' : g \in s.members
            BY DEF WaitersAreGrouped
        <3>1. g \notin r.members /\ gets[g].pc = "waiting"
            BY <2>1, <2>2
        <3> QED BY <1>g, <2>1, <3>1 DEF WaitersAreGrouped
    <2>6. GroupedWait'
        BY <1>0, <1>g, <2>1, <2>3, <2>4 DEF GroupedWait
    <2>7. GroupsAreDisjoint'
        BY <1>g, <2>1 DEF GroupsAreDisjoint
    <2> QED BY <2>5, <2>6, <2>7 DEF Grouping
<1>6. ASSUME NEW r \in groups, SourceAnswers(r) PROVE Grouping'
    <2> DEFINE answered == [r EXCEPT !.answer = source]
    <2>1. answered.members = r.members
        BY <1>0 DEF GroupDocs
    <2>2. groups' = (groups \ {r}) \union {answered} /\ open' = open /\ gets' = gets
        BY <1>6 DEF SourceAnswers
    <2> HIDE DEF answered
    <2>3. WaitersAreGrouped'
        BY <1>g, <2>1, <2>2 DEF WaitersAreGrouped
    <2>4. GroupedWait'
        BY <1>g, <2>1, <2>2 DEF GroupedWait
    <2>5. GroupsAreDisjoint'
        BY <1>g, <2>1, <2>2 DEF GroupsAreDisjoint
    <2> QED BY <2>3, <2>4, <2>5 DEF Grouping
<1>7. CASE ServerRestarts
    <2>1. open' = {} /\ groups' = {} /\ \A g \in Gets : gets'[g].pc = "idle"
        BY <1>7, <1>n DEF ServerRestarts
    <2> QED BY <2>1 DEF Grouping, WaitersAreGrouped, GroupedWait, GroupsAreDisjoint
<1>8. ASSUME UNCHANGED <<gets, open, groups>> PROVE Grouping'
    BY <1>8, <1>g, GroupingWhenKept DEF WaitersKept
<1> QED BY <1>1, <1>2, <1>3, <1>4, <1>5, <1>6, <1>7, <1>8
        DEF FetchingNext, FetchingStep, putResponseInCache, PutFails, batchDelete, EntryAges,
            SourceChanges, fetchingVars

-----------------------------------------------------------------------------
(* The steps that leave the groups and the source alone, and no call younger *)

DatesKept ==
    /\ UNCHANGED <<source, groups>>
    /\ \A g \in Gets : gets'[g] # NotCalled =>
          gets'[g].since = source \/ (gets[g] # NotCalled /\ gets'[g].since = gets[g].since)
    /\ \A r \in groups : \A g \in r.members : gets'[g].since = gets[g].since

LEMMA DatingWhenKept ==
    ASSUME FetchingTypeOK, Dating, DatesKept PROVE Dating'
<1>1. source \in Nat
    BY FetchingAssumption DEF FetchingTypeOK, Versions
<1>2. CallsArePast'
    BY <1>1 DEF Dating, CallsArePast, DatesKept
<1>3. RequestsFollowCalls'
    BY DEF Dating, RequestsFollowCalls, DatesKept
<1> QED BY <1>2, <1>3 DEF Dating

LEMMA DatingGoesOn ==
    FetchInv /\ [FetchingNext]_fetchingVars => Dating'
<1> SUFFICES ASSUME FetchInv, [FetchingNext]_fetchingVars PROVE Dating'
    OBVIOUS
<1>0. /\ gets \in [Gets -> Calls \union {NotCalled}]
      /\ open \subseteq Gets /\ groups \subseteq GroupDocs
      /\ \A r \in groups : r.members \subseteq Gets
      /\ source \in Nat /\ source \in Versions
    BY FetchingAssumption DEF FetchInv, FetchingTypeOK, GroupDocs, Versions
<1>g. /\ FetchingTypeOK /\ Grouping /\ GroupedWait /\ Dating
      /\ CallsArePast /\ RequestsFollowCalls
    BY DEF FetchInv, Grouping, Dating
<1>w. \A r \in groups : \A g \in r.members : g \in Gets /\ gets[g].pc = "waiting"
    BY <1>0, <1>g DEF GroupedWait
<1>n. NotCalled.pc = "idle"
    BY DEF NotCalled
<1>1. ASSUME NEW g \in Gets, NEW k \in FetchKeys, NEW kind \in Kinds, Get(g, k, kind)
      PROVE  Dating'
    <2>1. \A r \in groups : g \notin r.members
        BY <1>w, <1>n, <1>1 DEF Get
    <2>2. DatesKept
        BY <1>0, <1>w, <1>1, <2>1 DEF Get, DatesKept
    <2> QED BY <1>g, <2>2, DatingWhenKept
<1>2. ASSUME NEW g \in Gets, Cached(g) \/ returnOldValue(g) PROVE Dating'
    <2>1. \A r \in groups : g \notin r.members
        BY <1>w, <1>2 DEF Cached, returnOldValue
    <2>2. DatesKept
        BY <1>0, <1>w, <1>2, <2>1 DEF Cached, returnOldValue, DatesKept
    <2> QED BY <1>g, <2>2, DatingWhenKept
<1>3. ASSUME NEW g \in Gets, RequestIfNeeded(g) PROVE Dating'
    <2>1. gets[g] \in Calls /\ gets[g] # NotCalled
        BY <1>3, <1>g, WaitingAreCalled, MembersAreCalls DEF RequestIfNeeded
    <2>2. [gets[g] EXCEPT !.pc = "waiting"].since = gets[g].since
        BY <2>1 DEF Calls
    <2>3. gets' = [gets EXCEPT ![g] = [gets[g] EXCEPT !.pc = "waiting"]]
        BY <1>3 DEF RequestIfNeeded
    <2>4. /\ gets'[g].since = gets[g].since
          /\ \A h \in Gets \ {g} : gets'[h] = gets[h]
        BY <1>0, <2>2, <2>3
    <2>5. UNCHANGED <<source, groups>>
        BY <1>3 DEF RequestIfNeeded, JoinGroup
    <2>6. DatesKept
        BY <1>w, <2>1, <2>4, <2>5 DEF DatesKept
    <2> QED BY <1>g, <2>6, DatingWhenKept
<1>4. CASE doGroupedRequest
    <2> DEFINE request == [members |-> open, since |-> source, answer |-> NoAnswer]
    <2>1. /\ groups' = groups \union {request} /\ gets' = gets /\ source' = source
          /\ request.members = open /\ request.since = source /\ request.answer = NoAnswer
        BY <1>4 DEF doGroupedRequest
    <2> HIDE DEF request
    <2>2. \A g \in open : gets[g].since <= source
        BY <1>0, <1>g, WaitingAreCalled DEF CallsArePast, GroupedWait
    <2>3. CallsArePast'
        BY <1>g, <2>1 DEF CallsArePast
    <2>4. RequestsFollowCalls'
        BY <1>0, <1>g, <2>1, <2>2 DEF RequestsFollowCalls
    <2> QED BY <2>3, <2>4 DEF Dating
<1>5. ASSUME NEW r \in groups, Resolve(r) \/ Reject(r) PROVE Dating'
    <2>1. /\ groups' = groups \ {r} /\ source' = source
          /\ \A g \in Gets : g \notin r.members => gets'[g] = gets[g]
        BY <1>5 DEF Resolve, Reject
    <2>2. ASSUME NEW g \in Gets, g \in r.members
          PROVE  gets'[g] = NotCalled \/ gets'[g].since = gets[g].since
        <3>1. CASE Resolve(r)
            BY <2>2, <3>1 DEF Resolve
        <3>2. CASE Reject(r)
            <4>1. gets[g] \in Calls
                BY <1>g, <2>2, WaitingAreCalled, MembersAreCalls DEF GroupedWait
            <4>2. [gets[g] EXCEPT !.pc = "fallback"].since = gets[g].since
                BY <4>1 DEF Calls
            <4>3. gets'[g] = IF refuseOldValue(gets[g].kind) THEN NotCalled
                             ELSE [gets[g] EXCEPT !.pc = "fallback"]
                BY <2>2, <3>2 DEF Reject
            <4> QED BY <4>2, <4>3
        <3> QED BY <1>5, <3>1, <3>2
    <2>3. \A s \in groups' : s \in groups /\ \A g \in s.members : g \notin r.members
        BY <2>1 DEF FetchInv, Grouping, GroupsAreDisjoint
    <2>4. CallsArePast'
        <3> SUFFICES ASSUME NEW g \in Gets, gets'[g] # NotCalled
                     PROVE  gets'[g].since <= source
            BY <2>1 DEF CallsArePast
        <3>1. gets[g] # NotCalled /\ gets'[g].since = gets[g].since
            BY <1>w, <2>1, <2>2, WaitingAreCalled
        <3> QED BY <1>g, <3>1 DEF CallsArePast
    <2>5. RequestsFollowCalls'
        <3>1. \A s \in groups' : \A g \in s.members : gets'[g] = gets[g]
            BY <1>0, <2>1, <2>3
        <3> QED BY <1>g, <2>1, <2>3, <3>1 DEF RequestsFollowCalls
    <2> QED BY <2>4, <2>5 DEF Dating
<1>6. ASSUME NEW r \in groups, SourceAnswers(r) PROVE Dating'
    <2> DEFINE answered == [r EXCEPT !.answer = source]
    <2>1. answered.members = r.members /\ answered.since = r.since /\ answered.answer = source
        BY <1>0 DEF GroupDocs
    <2>2. groups' = (groups \ {r}) \union {answered} /\ gets' = gets /\ source' = source
        BY <1>6 DEF SourceAnswers
    <2> HIDE DEF answered
    <2>3. CallsArePast'
        BY <1>g, <2>2 DEF CallsArePast
    <2>4. RequestsFollowCalls'
        BY <1>g, <2>1, <2>2 DEF RequestsFollowCalls
    <2> QED BY <2>3, <2>4 DEF Dating
<1>7. CASE SourceChanges
    <2>1. UNCHANGED <<gets, groups>> /\ source' = source + 1
        BY <1>7 DEF SourceChanges
    <2>2. \A g \in Gets : gets[g] # NotCalled => gets[g].since \in Nat
        BY <1>g, MembersAreCalls
    <2>3. \A r \in groups : r.since \in Nat
        BY <1>0, FetchingAssumption DEF GroupDocs, Versions
    <2>4. CallsArePast'
        BY <1>0, <1>g, <2>1, <2>2 DEF CallsArePast
    <2>5. RequestsFollowCalls'
        BY <1>0, <1>g, <2>1, <2>3 DEF RequestsFollowCalls
    <2> QED BY <2>4, <2>5 DEF Dating
<1>8. CASE ServerRestarts
    <2>1. groups' = {} /\ \A g \in Gets : gets'[g] = NotCalled
        BY <1>8 DEF ServerRestarts
    <2> QED BY <2>1 DEF Dating, CallsArePast, RequestsFollowCalls
<1>9. ASSUME UNCHANGED <<source, gets, groups>> PROVE Dating'
    BY <1>9, <1>g, DatingWhenKept DEF DatesKept
<1> QED BY <1>1, <1>2, <1>3, <1>4, <1>5, <1>6, <1>7, <1>8, <1>9
        DEF FetchingNext, FetchingStep, putResponseInCache, PutFails, batchDelete, EntryAges,
            fetchingVars

-----------------------------------------------------------------------------
LEMMA FetchingGoesOn == FetchInv /\ [FetchingNext]_fetchingVars => FetchInv'
BY FetchingTypeGoesOn, GroupingGoesOn, DatingGoesOn DEF FetchInv

LEMMA GroupedOnce == FetchInv => EachWaitsInOneGroup
<1> SUFFICES ASSUME FetchInv, NEW g \in Gets
             PROVE  Cardinality({r \in groups : g \in r.members})
                      + (IF g \in open THEN 1 ELSE 0)
                        = IF gets[g].pc = "waiting" THEN 1 ELSE 0
    BY DEF EachWaitsInOneGroup
<1> DEFINE waitsIn == {r \in groups : g \in r.members}
<1>g. WaitersAreGrouped /\ GroupedWait /\ GroupsAreDisjoint
    BY DEF FetchInv, Grouping
<1>1. CASE waitsIn = {}
    <2>1. Cardinality(waitsIn) = 0
        BY <1>1, FS_EmptySet
    <2>2. g \in open <=> gets[g].pc = "waiting"
        BY <1>g, <1>1 DEF WaitersAreGrouped, GroupedWait
    <2> QED BY <2>1, <2>2
<1>2. ASSUME NEW r \in waitsIn
      PROVE  Cardinality(waitsIn) + (IF g \in open THEN 1 ELSE 0)
               = IF gets[g].pc = "waiting" THEN 1 ELSE 0
    <2>1. waitsIn = {r}
        BY <1>g, <1>2 DEF GroupsAreDisjoint
    <2>2. Cardinality(waitsIn) = 1
        BY <2>1, FS_Singleton
    <2>3. g \notin open /\ gets[g].pc = "waiting"
        BY <1>g, <1>2 DEF GroupsAreDisjoint, GroupedWait
    <2> QED BY <2>2, <2>3
<1> QED BY <1>1, <1>2

\* No call is lost by the request grouper, in two groups, rejected or answered twice: a call
\* that waits is in exactly one group, that of the next request or one in flight, for any
\* number of calls, failures and restarts (request_grouper.js)
THEOREM CallsWaitInOneGroup == FetchingSpec => []EachWaitsInOneGroup
BY FetchingStarts, FetchingGoesOn, GroupedOnce, PTL DEF FetchingSpec

\* A refresh that joins the request of others is answered by the source as it was at some
\* time after the refresh was asked for (cache.js:43, request_grouper.js)
THEOREM RefreshesAreFresh == FetchingSpec => []RefreshIsFresh
<1>1. FetchInv => RefreshIsFresh
    <2> SUFFICES ASSUME FetchInv, NEW r \in groups, NEW g \in r.members, r.answer # NoAnswer
                 PROVE  gets[g].since <= r.answer
        BY DEF RefreshIsFresh
    <2>1. g \in Gets /\ gets[g] # NotCalled
        BY WaitingAreCalled DEF FetchInv, FetchingTypeOK, Grouping, GroupedWait
    <2>2. gets[g].since \in Nat
        BY <2>1, MembersAreCalls DEF FetchInv
    <2>3. r.since \in Nat /\ r.answer \in Nat
        BY FetchingAssumption DEF FetchInv, FetchingTypeOK, Answers, Versions
    <2> QED BY <2>2, <2>3 DEF FetchInv, Dating, RequestsFollowCalls
<1> QED BY FetchingStarts, FetchingGoesOn, <1>1, PTL DEF FetchingSpec

-----------------------------------------------------------------------------
(* One account per spelling, for any life of a lock at least as long as a creation *)

SigningUp == {c \in Signups : signups[c].pc \in {"checking", "hashing"}}

\* a renaming is of an account that exists
RenamedExist ==
    \A c \in Signups : signups[c].pc = "renaming" => signups[c].account \in Registered

\* a signup in progress has its lock, which is as old as it is
LocksAreHeld ==
    \A c \in SigningUp :
        [username |-> signups[c].username, age |-> signups[c].age] \in lockedUsernames

\* so that no two signups are about the same spelling
SignupsDiffer ==
    \A c, d \in SigningUp : signups[c].username = signups[d].username => c = d

\* what was available still is
StillAvailable ==
    \A c \in Signups : signups[c].pc = "hashing" =>
        \A a \in NewAccounts : accounts[a].username # signups[c].username

Consequences == LocksAreHeld /\ SignupsDiffer /\ StillAvailable /\ OneAccountPerSpelling

AccountsInv == AccountsTypeOK /\ RenamedExist /\ Consequences

SigningProgress == [pc : {"checking", "hashing"}, username : Usernames, age : 0..MaxCreation]
Renaming == [pc : {"renaming"}, username : Usernames, account : Accounts]
Documents == [username : Usernames, stableUsername : Names, renamed : BOOLEAN]

LEMMA SigningUpIsProgress ==
    ASSUME AccountsTypeOK, NEW c \in SigningUp
    PROVE  /\ signups[c] \in SigningProgress
           /\ signups[c].username \in Usernames
           /\ signups[c].age \in 0..MaxCreation
<1>1. signups[c] \in {NoSignup} \union SigningProgress \union Renaming
    BY DEF AccountsTypeOK, SigningUp, SigningProgress, Renaming
<1>2. signups[c].pc \in {"checking", "hashing"}
    BY DEF SigningUp
<1>3. signups[c] # NoSignup
    BY <1>2 DEF NoSignup
<1>4. signups[c] \notin Renaming
    BY <1>2 DEF Renaming
<1>5. signups[c] \in SigningProgress
    BY <1>1, <1>3, <1>4
<1> QED BY <1>5 DEF SigningProgress

LEMMA RegisteredIsDocument ==
    ASSUME AccountsTypeOK, NEW a \in Registered
    PROVE  accounts[a] \in Documents
BY DEF AccountsTypeOK, Registered, Documents

\* an available username is nobody's
LEMMA AvailableIsNew ==
    ASSUME AccountsTypeOK, NEW u \in Usernames, byUsername(u) = {}
    PROVE  \A a \in Registered : accounts[a].username # u
<1> SUFFICES ASSUME NEW a \in Registered, accounts[a].username = u PROVE FALSE
    OBVIOUS
<1>1. u # NoName
    BY AccountsAssumption DEF NoName
<1>2. toLowerCase[u] \in namesOf(accounts[a])
    BY <1>1 DEF namesOf
<1>3. a \in byUsername(u)
    BY <1>2 DEF byUsername
<1> QED BY <1>3

-----------------------------------------------------------------------------
LEMMA AccountsStart == AccountsInit => AccountsInv
<1> SUFFICES ASSUME AccountsInit PROVE AccountsInv
    OBVIOUS
<1>1. AccountsTypeOK
    BY DEF AccountsInit, AccountsTypeOK
<1>2. SigningUp = {} /\ \A c \in Signups : signups[c].pc # "hashing"
    BY DEF AccountsInit, SigningUp, NoSignup
<1>3. NewAccounts = {}
    BY DEF AccountsInit, NewAccounts, Registered
<1>4. RenamedExist
    BY DEF AccountsInit, RenamedExist, NoSignup
<1> QED BY <1>1, <1>2, <1>3, <1>4
        DEF AccountsInv, Consequences, LocksAreHeld, SignupsDiffer, StillAvailable,
            OneAccountPerSpelling

LEMMA TypeGoesOn ==
    AccountsTypeOK /\ RenamedExist /\ [AccountsNext]_accountsVars => AccountsTypeOK'
<1> SUFFICES ASSUME AccountsTypeOK, RenamedExist, [AccountsNext]_accountsVars
             PROVE  AccountsTypeOK'
    OBVIOUS
<1> DEFINE Docs == {NoAccount} \union Documents
           Ups == {NoSignup} \union SigningProgress \union Renaming
           Locks == [username : Usernames, age : LockAges]
<1>0. /\ accounts \in [Accounts -> Docs]
      /\ signups \in [Signups -> Ups]
      /\ lockedUsernames \subseteq Locks
    BY DEF AccountsTypeOK, Documents, SigningProgress, Renaming
<1> SUFFICES /\ accounts' \in [Accounts -> Docs]
             /\ signups' \in [Signups -> Ups]
             /\ lockedUsernames' \subseteq Locks
    BY DEF AccountsTypeOK, Documents, SigningProgress, Renaming
<1> HIDE DEF Docs, Ups, Locks
<1>n. NoAccount \in Docs /\ NoSignup \in Ups
    BY DEF Docs, Ups
<1>1. ASSUME NEW c \in Signups, NEW u \in Usernames, SignUp(c, u)
      PROVE  /\ accounts' \in [Accounts -> Docs] /\ signups' \in [Signups -> Ups]
             /\ lockedUsernames' \subseteq Locks
    <2>1. [pc |-> "checking", username |-> u, age |-> 0] \in Ups
        BY AccountsAssumption DEF Ups, SigningProgress
    <2>2. [username |-> u, age |-> 0] \in Locks
        BY AccountsAssumption DEF Locks, LockAges
    <2> QED BY <1>0, <1>1, <2>1, <2>2 DEF SignUp, preventMultiAccountsCreation
<1>2. ASSUME NEW c \in Signups, NEW u \in Usernames, NEW a \in Accounts, AskToRename(c, a, u)
      PROVE  /\ accounts' \in [Accounts -> Docs] /\ signups' \in [Signups -> Ups]
             /\ lockedUsernames' \subseteq Locks
    <2>1. [pc |-> "renaming", account |-> a, username |-> u] \in Ups
        BY DEF Ups, Renaming
    <2> QED BY <1>0, <1>2, <2>1 DEF AskToRename
<1>3. ASSUME NEW c \in Signups, Unavailable(c) \/ CreationFails(c)
      PROVE  /\ accounts' \in [Accounts -> Docs] /\ signups' \in [Signups -> Ups]
             /\ lockedUsernames' \subseteq Locks
    BY <1>0, <1>n, <1>3 DEF Unavailable, CreationFails
<1>4. ASSUME NEW c \in Signups, Available(c)
      PROVE  /\ accounts' \in [Accounts -> Docs] /\ signups' \in [Signups -> Ups]
             /\ lockedUsernames' \subseteq Locks
    <2>1. c \in SigningUp
        BY <1>4 DEF Available, SigningUp
    <2>2. signups[c] \in SigningProgress
        BY <2>1, SigningUpIsProgress
    <2>3. [signups[c] EXCEPT !.pc = "hashing"] \in Ups
        BY <2>2 DEF SigningProgress, Ups
    <2>4. signups' = [signups EXCEPT ![c] = [signups[c] EXCEPT !.pc = "hashing"]]
        BY <1>4 DEF Available
    <2> QED BY <1>0, <1>4, <2>3, <2>4 DEF Available
<1>5. ASSUME NEW c \in Signups, Create(c)
      PROVE  /\ accounts' \in [Accounts -> Docs] /\ signups' \in [Signups -> Ups]
             /\ lockedUsernames' \subseteq Locks
    <2>1. signups[c].username \in Usernames
        BY <1>5, SigningUpIsProgress DEF Create, SigningUp
    <2>2. [username |-> signups[c].username, stableUsername |-> NoName,
           renamed |-> FALSE] \in Docs
        BY <2>1 DEF Docs, Documents, Names
    <2> QED BY <1>0, <1>n, <1>5, <2>2 DEF Create
<1>6. ASSUME NEW c \in Signups, Rename(c)
      PROVE  /\ accounts' \in [Accounts -> Docs] /\ signups' \in [Signups -> Ups]
             /\ lockedUsernames' \subseteq Locks
    <2> DEFINE a == signups[c].account
               u == signups[c].username
    <2>1. a \in Registered
        BY <1>6 DEF Rename, RenamedExist
    <2>2. accounts[a] \in Documents
        BY <2>1, RegisteredIsDocument
    <2>3. u \in Usernames
        <3>1. signups[c] \in Renaming
            BY <1>0, <1>6 DEF Rename, Ups, Renaming, SigningProgress, NoSignup
        <3> QED BY <3>1 DEF Renaming
    <2>4. [accounts[a] EXCEPT !.username = u, !.renamed = TRUE] \in Docs
        BY <2>2, <2>3 DEF Docs, Documents
    <2>5. accounts' = [accounts EXCEPT ![a] =
                          [accounts[a] EXCEPT !.username = u, !.renamed = TRUE]]
        BY <1>6 DEF Rename
    <2> QED BY <1>0, <1>n, <1>6, <2>4, <2>5 DEF Rename
<1>7. ASSUME NEW a \in Accounts, setStableUsername(a)
      PROVE  /\ accounts' \in [Accounts -> Docs] /\ signups' \in [Signups -> Ups]
             /\ lockedUsernames' \subseteq Locks
    <2>1. accounts[a] \in Documents
        BY <1>7, RegisteredIsDocument DEF setStableUsername
    <2>2. [accounts[a] EXCEPT !.stableUsername = accounts[a].username] \in Docs
        BY <2>1 DEF Docs, Documents, Names
    <2>3. accounts' = [accounts EXCEPT ![a] =
                          [accounts[a] EXCEPT !.stableUsername = accounts[a].username]]
        BY <1>7 DEF setStableUsername
    <2> QED BY <1>0, <1>7, <2>2, <2>3 DEF setStableUsername
<1>8. CASE AccountsTick
    <2>1. ASSUME NEW c \in Signups, signups[c].pc \in {"checking", "hashing"}
          PROVE  [signups[c] EXCEPT !.age = signups[c].age + 1] \in Ups
        <3>1. signups[c] \in SigningProgress /\ signups[c].age \in 0..MaxCreation
            BY <2>1, SigningUpIsProgress DEF SigningUp
        <3>2. signups[c].age < MaxCreation
            BY <1>8, <2>1 DEF AccountsTick
        <3>3. signups[c].age + 1 \in 0..MaxCreation
            BY <3>1, <3>2, AccountsAssumption
        <3> QED BY <3>1, <3>3 DEF Ups, SigningProgress
    <2>2. ASSUME NEW l \in lockedUsernames
          PROVE  [l EXCEPT !.age = IF l.age > LockTtl THEN l.age ELSE l.age + 1] \in Locks
        <3>1. l \in [username : Usernames, age : LockAges] /\ l.age \in 0..(LockTtl + 1)
            BY <1>0 DEF Locks, LockAges
        <3>2. (IF l.age > LockTtl THEN l.age ELSE l.age + 1) \in 0..(LockTtl + 1)
            BY <3>1, AccountsAssumption
        <3> QED BY <3>1, <3>2 DEF Locks, LockAges
    <2>3. signups' = [c \in Signups |->
                         IF signups[c].pc \in {"checking", "hashing"}
                         THEN [signups[c] EXCEPT !.age = signups[c].age + 1] ELSE signups[c]]
        BY <1>8 DEF AccountsTick
    <2>4. signups' \in [Signups -> Ups]
        BY <1>0, <2>1, <2>3
    <2>5. lockedUsernames' \subseteq Locks
        BY <1>8, <2>2 DEF AccountsTick
    <2> QED BY <1>0, <1>8, <2>4, <2>5 DEF AccountsTick
<1>9. CASE removeExpiredLocks \/ AccountsRestart
    BY <1>0, <1>n, <1>9 DEF removeExpiredLocks, AccountsRestart
<1>10. CASE UNCHANGED accountsVars
    BY <1>0, <1>10 DEF accountsVars
<1> QED BY <1>1, <1>2, <1>3, <1>4, <1>5, <1>6, <1>7, <1>8, <1>9, <1>10 DEF AccountsNext

-----------------------------------------------------------------------------
(* What most steps keep: no new account has another username, whoever signs up *)
(* was signing up, whoever hashes was hashing                                  *)

AccountsKept ==
    \A a \in NewAccounts' : a \in NewAccounts /\ accounts'[a].username = accounts[a].username
SignupsKept ==
    \A c \in SigningUp' : /\ c \in SigningUp
                          /\ signups'[c].username = signups[c].username
                          /\ signups'[c].age = signups[c].age
HashingKept ==
    \A c \in Signups : signups'[c].pc = "hashing" => signups[c].pc = "hashing"

LEMMA UniqueWhenKept ==
    ASSUME OneAccountPerSpelling, AccountsKept PROVE OneAccountPerSpelling'
BY DEF OneAccountPerSpelling, AccountsKept

LEMMA AvailableWhenKept ==
    ASSUME StillAvailable, AccountsKept, SignupsKept, HashingKept PROVE StillAvailable'
<1> SUFFICES ASSUME NEW c \in Signups, signups'[c].pc = "hashing", NEW a \in NewAccounts'
             PROVE  accounts'[a].username # signups'[c].username
    BY DEF StillAvailable
<1>1. c \in SigningUp'
    BY DEF SigningUp
<1>2. signups'[c].username = signups[c].username /\ signups[c].pc = "hashing"
    BY <1>1 DEF SignupsKept, HashingKept
<1>3. a \in NewAccounts /\ accounts'[a].username = accounts[a].username
    BY DEF AccountsKept
<1> QED BY <1>2, <1>3 DEF StillAvailable

LEMMA LockedWhenKept ==
    ASSUME LocksAreHeld, SignupsDiffer, SignupsKept, UNCHANGED lockedUsernames
    PROVE  LocksAreHeld' /\ SignupsDiffer'
BY DEF LocksAreHeld, SignupsDiffer, SignupsKept

LEMMA AllWhenKept ==
    ASSUME Consequences, AccountsKept, SignupsKept, HashingKept, UNCHANGED lockedUsernames
    PROVE  Consequences'
BY UniqueWhenKept, AvailableWhenKept, LockedWhenKept DEF Consequences

LEMMA UnchangedAccountsAreKept == ASSUME UNCHANGED accounts PROVE AccountsKept
BY DEF AccountsKept, NewAccounts, Registered

\* a call of signups that ends, or turns into a renaming
LEMMA EndsAreKept ==
    ASSUME AccountsTypeOK, NEW c \in Signups, NEW after, after.pc \notin {"checking", "hashing"},
           signups' = [signups EXCEPT ![c] = after]
    PROVE  SignupsKept /\ HashingKept
BY DEF AccountsTypeOK, SignupsKept, HashingKept, SigningUp

LEMMA ConsequencesGoOn ==
    AccountsTypeOK /\ RenamedExist /\ Consequences /\ [AccountsNext]_accountsVars
        => Consequences'
<1> SUFFICES ASSUME AccountsTypeOK, RenamedExist, Consequences, [AccountsNext]_accountsVars
             PROVE  Consequences'
    OBVIOUS
<1>t. signups \in [Signups -> {NoSignup} \union SigningProgress \union Renaming]
    BY DEF AccountsTypeOK, SigningProgress, Renaming
<1>a. accounts \in [Accounts -> {NoAccount} \union Documents]
    BY DEF AccountsTypeOK, Documents
<1>1. ASSUME NEW c \in Signups, NEW u \in Usernames, SignUp(c, u) PROVE Consequences'
    <2>1. /\ signups[c] = NoSignup
          /\ \A l \in lockedUsernames : l.username # u
          /\ lockedUsernames' = lockedUsernames \union {[username |-> u, age |-> 0]}
          /\ signups' = [signups EXCEPT ![c] = [pc |-> "checking", username |-> u, age |-> 0]]
          /\ UNCHANGED accounts
        BY <1>1 DEF SignUp, preventMultiAccountsCreation
    <2>2. /\ signups'[c] = [pc |-> "checking", username |-> u, age |-> 0]
          /\ \A d \in Signups \ {c} : signups'[d] = signups[d]
        BY <1>t, <2>1
    <2>3. \A d \in SigningUp' : d # c => d \in SigningUp
        BY <2>2 DEF SigningUp
    <2>4. \A d \in SigningUp : signups[d].username # u
        BY <2>1 DEF Consequences, LocksAreHeld
    <2>5. LocksAreHeld'
        BY <2>1, <2>2, <2>3 DEF Consequences, LocksAreHeld, SigningUp
    <2>6. SignupsDiffer'
        BY <2>2, <2>3, <2>4 DEF Consequences, SignupsDiffer, SigningUp
    <2>7. StillAvailable'
        BY <2>1, <2>2 DEF Consequences, StillAvailable, NewAccounts, Registered
    <2>8. OneAccountPerSpelling'
        BY <2>1, UnchangedAccountsAreKept, UniqueWhenKept DEF Consequences
    <2> QED BY <2>5, <2>6, <2>7, <2>8 DEF Consequences
<1>2. ASSUME NEW c \in Signups, NEW u \in Usernames, NEW a \in Accounts, AskToRename(c, a, u)
      PROVE  Consequences'
    <2>1. [pc |-> "renaming", account |-> a, username |-> u].pc \notin {"checking", "hashing"}
        OBVIOUS
    <2>2. SignupsKept /\ HashingKept
        BY <1>2, <2>1, EndsAreKept DEF AskToRename
    <2> QED BY <1>2, <2>2, UnchangedAccountsAreKept, AllWhenKept DEF AskToRename
<1>n. NoSignup.pc \notin {"checking", "hashing"}
    BY DEF NoSignup
<1>3. ASSUME NEW c \in Signups, Unavailable(c) \/ CreationFails(c) PROVE Consequences'
    <2>1. SignupsKept /\ HashingKept
        BY <1>3, <1>n, EndsAreKept DEF Unavailable, CreationFails
    <2> QED BY <1>3, <2>1, UnchangedAccountsAreKept, AllWhenKept
            DEF Unavailable, CreationFails
<1>4. ASSUME NEW c \in Signups, Available(c) PROVE Consequences'
    <2>1. /\ c \in SigningUp
          /\ byUsername(signups[c].username) = {}
          /\ signups' = [signups EXCEPT ![c] = [signups[c] EXCEPT !.pc = "hashing"]]
          /\ UNCHANGED <<accounts, lockedUsernames>>
        BY <1>4 DEF Available, SigningUp
    <2>2. signups[c] \in SigningProgress /\ signups[c].username \in Usernames
        BY <2>1, SigningUpIsProgress
    <2>3. /\ signups'[c].pc = "hashing"
          /\ signups'[c].username = signups[c].username
          /\ signups'[c].age = signups[c].age
          /\ \A d \in Signups \ {c} : signups'[d] = signups[d]
        BY <1>t, <2>1, <2>2 DEF SigningProgress
    <2>4. SignupsKept
        BY <2>1, <2>3 DEF SignupsKept, SigningUp
    <2>5. \A a \in NewAccounts : accounts[a].username # signups[c].username
        BY <2>1, <2>2, AvailableIsNew DEF NewAccounts
    <2>6. StillAvailable'
        <3> SUFFICES ASSUME NEW d \in Signups, signups'[d].pc = "hashing",
                            NEW a \in NewAccounts'
                     PROVE  accounts'[a].username # signups'[d].username
            BY DEF StillAvailable
        <3>1. a \in NewAccounts /\ accounts'[a].username = accounts[a].username
            BY <2>1 DEF NewAccounts, Registered
        <3>2. CASE d = c
            BY <2>3, <2>5, <3>1, <3>2
        <3>3. CASE d # c
            BY <2>3, <3>1, <3>3 DEF Consequences, StillAvailable
        <3> QED BY <3>2, <3>3
    <2> QED BY <2>1, <2>4, <2>6, LockedWhenKept, UnchangedAccountsAreKept, UniqueWhenKept
            DEF Consequences
<1>5. ASSUME NEW c \in Signups, Create(c) PROVE Consequences'
    <2> DEFINE u == signups[c].username
    <2>1. PICK a \in Accounts \ Registered :
              accounts' = [accounts EXCEPT ![a] = [username |-> u, stableUsername |-> NoName,
                                                   renamed |-> FALSE]]
        BY <1>5 DEF Create
    <2>2. /\ signups[c].pc = "hashing" /\ c \in SigningUp
          /\ signups' = [signups EXCEPT ![c] = NoSignup]
          /\ UNCHANGED lockedUsernames
        BY <1>5 DEF Create, SigningUp
    <2>3. SignupsKept /\ HashingKept
        BY <1>n, <2>2, EndsAreKept
    <2>4. /\ accounts'[a].username = u
          /\ \A b \in Accounts \ {a} : accounts'[b] = accounts[b]
        BY <1>a, <2>1
    <2>5. \A b \in NewAccounts' : b # a => b \in NewAccounts /\ accounts'[b] = accounts[b]
        BY <2>4 DEF NewAccounts, Registered
    <2>6. \A b \in NewAccounts : accounts[b].username # u
        BY <2>2 DEF Consequences, StillAvailable
    <2>7. OneAccountPerSpelling'
        BY <2>4, <2>5, <2>6 DEF Consequences, OneAccountPerSpelling
    <2>8. StillAvailable'
        <3> SUFFICES ASSUME NEW d \in Signups, signups'[d].pc = "hashing",
                            NEW b \in NewAccounts'
                     PROVE  accounts'[b].username # signups'[d].username
            BY DEF StillAvailable
        <3>1. /\ d # c /\ d \in SigningUp
              /\ signups[d].pc = "hashing" /\ signups'[d] = signups[d]
            BY <1>t, <1>n, <2>2 DEF SigningUp
        <3>2. CASE b = a
            BY <2>2, <2>4, <3>1, <3>2 DEF Consequences, SignupsDiffer
        <3>3. CASE b # a
            BY <2>5, <3>1, <3>3 DEF Consequences, StillAvailable
        <3> QED BY <3>2, <3>3
    <2> QED BY <2>2, <2>3, <2>7, <2>8, LockedWhenKept DEF Consequences
<1>6. ASSUME NEW c \in Signups, Rename(c) PROVE Consequences'
    <2> DEFINE a == signups[c].account
    <2>1. /\ a \in Registered
          /\ accounts' = [accounts EXCEPT ![a] = [accounts[a] EXCEPT
                              !.username = signups[c].username, !.renamed = TRUE]]
        BY <1>6 DEF Rename, RenamedExist
    <2>2. accounts[a] \in Documents /\ a \in Accounts
        BY <2>1, RegisteredIsDocument DEF Registered
    <2>3. accounts'[a].renamed = TRUE /\ \A b \in Accounts \ {a} : accounts'[b] = accounts[b]
        BY <1>a, <2>1, <2>2 DEF Documents
    <2>4. AccountsKept
        BY <2>3 DEF AccountsKept, NewAccounts, Registered
    <2>5. SignupsKept /\ HashingKept
        BY <1>6, <1>n, EndsAreKept DEF Rename
    <2> QED BY <1>6, <2>4, <2>5, AllWhenKept DEF Rename
<1>7. ASSUME NEW a \in Accounts, setStableUsername(a) PROVE Consequences'
    <2>1. /\ a \in Registered
          /\ accounts' = [accounts EXCEPT ![a] =
                             [accounts[a] EXCEPT !.stableUsername = accounts[a].username]]
          /\ UNCHANGED <<signups, lockedUsernames>>
        BY <1>7 DEF setStableUsername
    <2>2. accounts[a] \in Documents
        BY <2>1, RegisteredIsDocument
    <2>3. /\ accounts'[a].renamed = accounts[a].renamed
          /\ accounts'[a].username = accounts[a].username
          /\ \A b \in Accounts \ {a} : accounts'[b] = accounts[b]
        BY <1>a, <2>1, <2>2 DEF Documents
    <2>4. AccountsKept
        BY <2>1, <2>3 DEF AccountsKept, NewAccounts, Registered
    <2>5. SignupsKept /\ HashingKept
        BY <2>1 DEF SignupsKept, HashingKept, SigningUp
    <2> QED BY <2>1, <2>4, <2>5, AllWhenKept
<1>8. CASE AccountsTick
    <2>1. signups' = [c \in Signups |->
                         IF signups[c].pc \in {"checking", "hashing"}
                         THEN [signups[c] EXCEPT !.age = signups[c].age + 1] ELSE signups[c]]
        BY <1>8 DEF AccountsTick
    <2>2. ASSUME NEW c \in SigningUp
          PROVE  /\ signups'[c].pc = signups[c].pc
                 /\ signups'[c].username = signups[c].username
                 /\ signups'[c].age = signups[c].age + 1
                 /\ signups[c].age \in Nat /\ signups[c].age < LockTtl
        <3>1. signups[c] \in SigningProgress /\ signups[c].age \in 0..MaxCreation
            BY SigningUpIsProgress
        <3>2. signups'[c] = [signups[c] EXCEPT !.age = signups[c].age + 1]
            BY <2>1 DEF SigningUp
        <3>3. signups[c].age < MaxCreation
            BY <1>8 DEF AccountsTick, SigningUp
        <3> QED BY <3>1, <3>2, <3>3, AccountsAssumption DEF SigningProgress
    <2>3. \A c \in SigningUp' : c \in SigningUp
        BY <2>1 DEF SigningUp
    <2>4. LocksAreHeld'
        <3> SUFFICES ASSUME NEW c \in SigningUp'
                     PROVE  [username |-> signups'[c].username, age |-> signups'[c].age]
                                \in lockedUsernames'
            BY DEF LocksAreHeld
        <3> DEFINE l == [username |-> signups[c].username, age |-> signups[c].age]
        <3>1. l \in lockedUsernames
            BY <2>3 DEF Consequences, LocksAreHeld
        <3>2. [l EXCEPT !.age = IF l.age > LockTtl THEN l.age ELSE l.age + 1]
                  \in lockedUsernames'
            BY <1>8, <3>1 DEF AccountsTick
        <3>3. ~(signups[c].age > LockTtl)
            BY <2>2, <2>3, AccountsAssumption
        <3>4. [l EXCEPT !.age = IF l.age > LockTtl THEN l.age ELSE l.age + 1]
                  = [username |-> signups[c].username, age |-> signups[c].age + 1]
            BY <3>3
        <3> QED BY <2>2, <2>3, <3>2, <3>4
    <2>5. SignupsDiffer'
        BY <2>2, <2>3 DEF Consequences, SignupsDiffer
    <2>6. StillAvailable'
        <3> SUFFICES ASSUME NEW c \in Signups, signups'[c].pc = "hashing",
                            NEW a \in NewAccounts'
                     PROVE  accounts'[a].username # signups'[c].username
            BY DEF StillAvailable
        <3>1. c \in SigningUp
            BY <2>3 DEF SigningUp
        <3>2. signups[c].pc = "hashing" /\ signups'[c].username = signups[c].username
            BY <2>2, <3>1
        <3>3. a \in NewAccounts /\ accounts'[a].username = accounts[a].username
            BY <1>8 DEF AccountsTick, NewAccounts, Registered
        <3> QED BY <3>2, <3>3 DEF Consequences, StillAvailable
    <2>7. OneAccountPerSpelling'
        BY <1>8, UnchangedAccountsAreKept, UniqueWhenKept DEF AccountsTick, Consequences
    <2> QED BY <2>4, <2>5, <2>6, <2>7 DEF Consequences
<1>9. CASE removeExpiredLocks
    <2>1. /\ lockedUsernames' = {l \in lockedUsernames : l.age <= LockTtl}
          /\ UNCHANGED <<accounts, signups>>
        BY <1>9 DEF removeExpiredLocks
    <2>2. LocksAreHeld'
        <3> SUFFICES ASSUME NEW c \in SigningUp
                     PROVE  [username |-> signups[c].username, age |-> signups[c].age]
                                \in lockedUsernames'
            BY <2>1 DEF LocksAreHeld, SigningUp
        <3>1. signups[c].age <= LockTtl
            BY SigningUpIsProgress, AccountsAssumption
        <3> QED BY <2>1, <3>1 DEF Consequences, LocksAreHeld
    <2>3. AccountsKept /\ SignupsKept /\ HashingKept
        BY <2>1 DEF AccountsKept, SignupsKept, HashingKept, NewAccounts, Registered, SigningUp
    <2>4. SignupsDiffer'
        BY <2>1 DEF Consequences, SignupsDiffer, SigningUp
    <2> QED BY <2>2, <2>3, <2>4, UniqueWhenKept, AvailableWhenKept DEF Consequences
<1>10. CASE AccountsRestart
    <2>1. UNCHANGED accounts /\ SigningUp' = {}
          /\ \A c \in Signups : signups'[c].pc # "hashing"
        BY <1>10 DEF AccountsRestart, SigningUp, NoSignup
    <2>2. OneAccountPerSpelling'
        BY <2>1, UnchangedAccountsAreKept, UniqueWhenKept DEF Consequences
    <2> QED BY <2>1, <2>2 DEF Consequences, LocksAreHeld, SignupsDiffer, StillAvailable
<1>11. CASE UNCHANGED accountsVars
    <2>1. UNCHANGED <<accounts, signups, lockedUsernames>>
        BY <1>11 DEF accountsVars
    <2>2. AccountsKept /\ SignupsKept /\ HashingKept
        BY <2>1 DEF AccountsKept, SignupsKept, HashingKept, NewAccounts, Registered, SigningUp
    <2> QED BY <2>1, <2>2, AllWhenKept
<1> QED BY <1>1, <1>2, <1>3, <1>4, <1>5, <1>6, <1>7, <1>8, <1>9, <1>10, <1>11 DEF AccountsNext
-----------------------------------------------------------------------------
LEMMA DocumentsAreRegistered == \A doc \in Documents : doc # NoAccount
BY DEF Documents, NoAccount

LEMMA RenamingsGoOn ==
    AccountsTypeOK /\ RenamedExist /\ [AccountsNext]_accountsVars => RenamedExist'
<1> SUFFICES ASSUME AccountsTypeOK, RenamedExist, [AccountsNext]_accountsVars
             PROVE  RenamedExist'
    OBVIOUS
<1>t. signups \in [Signups -> {NoSignup} \union SigningProgress \union Renaming]
    BY DEF AccountsTypeOK, SigningProgress, Renaming
<1>a. accounts \in [Accounts -> {NoAccount} \union Documents]
    BY DEF AccountsTypeOK, Documents
<1>1. Registered \subseteq Registered'
    <2> SUFFICES ASSUME NEW b \in Registered PROVE accounts'[b] # NoAccount
        BY DEF Registered
    <2>1. accounts[b] \in Documents /\ accounts[b] # NoAccount /\ b \in Accounts
        BY RegisteredIsDocument DEF Registered
    <2>2. ASSUME NEW c \in Signups, Create(c) PROVE accounts'[b] # NoAccount
        <3>1. PICK a \in Accounts \ Registered : accounts' = [accounts EXCEPT ![a] =
                  [username |-> signups[c].username, stableUsername |-> NoName,
                   renamed |-> FALSE]]
            BY <2>2 DEF Create
        <3>2. accounts'[b] = accounts[b]
            BY <1>a, <2>1, <3>1
        <3> QED BY <2>1, <3>2
    <2>3. ASSUME NEW c \in Signups, Rename(c) PROVE accounts'[b] # NoAccount
        <3> DEFINE a == signups[c].account
                   u == signups[c].username
        <3>1. CASE a = b
            <4>1. u \in Usernames
                BY <1>t, <2>3 DEF Rename, Renaming, SigningProgress, NoSignup
            <4>2. [accounts[b] EXCEPT !.username = u, !.renamed = TRUE] \in Documents
                BY <2>1, <4>1 DEF Documents
            <4>3. accounts'[b] = [accounts[b] EXCEPT !.username = u, !.renamed = TRUE]
                BY <1>a, <2>1, <2>3, <3>1 DEF Rename
            <4> QED BY <4>2, <4>3, DocumentsAreRegistered
        <3>2. CASE a # b
            BY <1>a, <2>1, <2>3, <3>2 DEF Rename
        <3> QED BY <3>1, <3>2
    <2>4. ASSUME NEW a \in Accounts, setStableUsername(a) PROVE accounts'[b] # NoAccount
        <3>1. CASE a = b
            <4>1. [accounts[b] EXCEPT !.stableUsername = accounts[b].username] \in Documents
                BY <2>1 DEF Documents, Names
            <4>2. accounts'[b] = [accounts[b] EXCEPT !.stableUsername = accounts[b].username]
                BY <1>a, <2>1, <2>4, <3>1 DEF setStableUsername
            <4> QED BY <4>1, <4>2, DocumentsAreRegistered
        <3>2. CASE a # b
            BY <1>a, <2>1, <2>4, <3>2 DEF setStableUsername
        <3> QED BY <3>1, <3>2
    <2> QED BY <2>1, <2>2, <2>3, <2>4
            DEF AccountsNext, SignUp, AskToRename, Unavailable, Available, CreationFails,
                AccountsTick, removeExpiredLocks, AccountsRestart, accountsVars
<1>2. ASSUME NEW d \in Signups, signups'[d].pc = "renaming"
      PROVE  signups'[d].account \in Registered
    <2> DEFINE Same == signups'[d] = signups[d]
    <2>1. CASE Same
        BY <1>2, <2>1 DEF RenamedExist
    <2>2. ASSUME NEW c \in Signups, NEW u \in Usernames, SignUp(c, u) PROVE Same
        BY <1>t, <1>2, <2>2 DEF SignUp
    <2>3. ASSUME NEW c \in Signups, NEW u \in Usernames, NEW a \in Accounts,
                 AskToRename(c, a, u)
          PROVE  Same \/ signups'[d].account \in Registered
        BY <1>t, <2>3 DEF AskToRename
    <2>4. ASSUME NEW c \in Signups, Unavailable(c) \/ CreationFails(c) \/ Create(c) \/ Rename(c)
          PROVE  Same
        <3>1. signups' = [signups EXCEPT ![c] = NoSignup]
            BY <2>4 DEF Unavailable, CreationFails, Create, Rename
        <3> QED BY <1>t, <1>2, <3>1 DEF NoSignup
    <2>5. ASSUME NEW c \in Signups, Available(c) PROVE Same
        <3>1. /\ signups' = [signups EXCEPT ![c] = [signups[c] EXCEPT !.pc = "hashing"]]
              /\ signups[c].pc = "checking"
            BY <2>5 DEF Available
        <3>2. c \in SigningUp
            BY <3>1 DEF SigningUp
        <3>3. signups[c] \in SigningProgress
            BY <3>2, SigningUpIsProgress
        <3>4. [signups[c] EXCEPT !.pc = "hashing"].pc # "renaming"
            BY <3>3 DEF SigningProgress
        <3> QED BY <1>t, <1>2, <3>1, <3>4
    <2>6. ASSUME AccountsTick PROVE Same
        <3>1. signups'[d] = IF signups[d].pc \in {"checking", "hashing"}
                            THEN [signups[d] EXCEPT !.age = signups[d].age + 1] ELSE signups[d]
            BY <2>6 DEF AccountsTick
        <3>2. CASE signups[d].pc \in {"checking", "hashing"}
            <4>1. signups[d] \in SigningProgress
                BY <3>2, SigningUpIsProgress DEF SigningUp
            <4>2. signups'[d].pc = signups[d].pc
                BY <3>1, <3>2, <4>1 DEF SigningProgress
            <4> QED BY <1>2, <3>2, <4>2
        <3> QED BY <3>1, <3>2
    <2>7. ASSUME AccountsRestart PROVE Same
        BY <1>2, <2>7 DEF AccountsRestart, NoSignup
    <2> QED BY <2>1, <2>2, <2>3, <2>4, <2>5, <2>6, <2>7
            DEF AccountsNext, setStableUsername, removeExpiredLocks, accountsVars
<1> QED BY <1>1, <1>2 DEF RenamedExist

-----------------------------------------------------------------------------
LEMMA AccountsGoOn == AccountsInv /\ [AccountsNext]_accountsVars => AccountsInv'
BY TypeGoesOn, RenamingsGoOn, ConsequencesGoOn DEF AccountsInv

\* Two signups never get the same username, for any number of signups, renamings, restarts
\* and expired locks, as long as a creation takes less than the life of a lock
\* (prevent_multi_accounts_creation.js)
THEOREM SignupsNeverShareASpelling == AccountsSpec => []OneAccountPerSpelling
<1>1. AccountsInv => OneAccountPerSpelling
    BY DEF AccountsInv, Consequences
<1> QED BY AccountsStart, AccountsGoOn, <1>1, PTL DEF AccountsSpec

=============================================================================
