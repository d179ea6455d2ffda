------------------------------- MODULE HostBans -------------------------------
(***************************************************************************)
(* The temporary ban of a remote host that keeps timing out                *)
(* (lib/requests_temporary_host_ban.js), under the concurrent requests     *)
(* made to that host (lib/requests.js), and its backup, which a restart    *)
(* restores.  A ban is the power of the increase factor its duration has,  *)
(* and whether it is still running; how many times bans of this host ran   *)
(* out since it last answered is kept beside it to state the property.     *)
(***************************************************************************)
EXTENDS Naturals

CONSTANTS HostRequests,   \* requests that can be in progress at once
          MaxBan          \* bound on the increases of a ban

ASSUME HostBansAssumption == MaxBan \in Nat \ {0}

VARIABLES
    requests,     \* slot -> where its request is
    banData,      \* the ban in memory
    backedUp,     \* the ban in the database
    lazyBackup,   \* the debounced backup is due
    restoring     \* the server reads the database after a restart

hostBansVars == <<requests, banData, backedUp, lazyBackup, restoring>>

NoBan == [level |-> 0, running |-> FALSE, ranOut |-> 0]

HostBansInit ==
    /\ requests = [q \in HostRequests |-> "none"]
    /\ banData = NoBan
    /\ backedUp = NoBan
    /\ lazyBackup = FALSE
    /\ restoring = FALSE

-----------------------------------------------------------------------------
(* Requests *)

isBanned == banData # NoBan /\ banData.running

\* a request to a banned host throws at once, and is no state
Request(q) ==
    /\ requests[q] = "none"
    /\ ~isBanned
    /\ requests' = [requests EXCEPT ![q] = "sent"]
    /\ UNCHANGED <<banData, backedUp, lazyBackup, restoring>>

\* mutant: every request that times out increases the ban
DeclareEveryError ==
    /\ banData' = [banData EXCEPT !.level = @ + 1, !.running = TRUE]
    /\ lazyBackup' = TRUE

\* a ban that is running is left alone: several requests that were in progress together
\* count for one; one that ran out is increased
declareHostError ==
    IF isBanned THEN UNCHANGED <<banData, lazyBackup>>
    ELSE /\ banData' = [banData EXCEPT !.level = @ + 1, !.running = TRUE]
         /\ lazyBackup' = TRUE

\* a timeout or a certificate error on the first try
TimesOut(q) ==
    /\ requests[q] = "sent"
    /\ isBanned \/ banData.level < MaxBan
    /\ requests' = [requests EXCEPT ![q] = "none"]
    /\ declareHostError
    /\ UNCHANGED <<backedUp, restoring>>

\* the connection was reset: a second try, whose errors are declared to nobody
Reset(q) ==
    /\ requests[q] = "sent"
    /\ requests' = [requests EXCEPT ![q] = "retried"]
    /\ UNCHANGED <<banData, backedUp, lazyBackup, restoring>>

resetBanData ==
    /\ banData' = NoBan
    /\ lazyBackup' = TRUE

Succeeds(q) ==
    /\ requests[q] # "none"
    /\ requests' = [requests EXCEPT ![q] = "none"]
    /\ resetBanData
    /\ UNCHANGED <<backedUp, restoring>>

\* any other network error, a status of 400 or more, a body that is not JSON
Fails(q) ==
    /\ requests[q] # "none"
    /\ requests' = [requests EXCEPT ![q] = "none"]
    /\ UNCHANGED <<banData, backedUp, lazyBackup, restoring>>

-----------------------------------------------------------------------------
(* Time, backups and restarts *)

RunOut(ban) == [ban EXCEPT !.running = FALSE, !.ranOut = @ + 1]

\* the ban expires; so does its backup, which is of the same ban or of an earlier one
BanExpires ==
    /\ banData.running
    /\ banData' = RunOut(banData)
    /\ backedUp' = IF backedUp.running THEN RunOut(backedUp) ELSE backedUp
    /\ UNCHANGED <<requests, lazyBackup, restoring>>

\* the backup of an earlier ban expires, the server having none or another one by now
BackupExpires ==
    /\ backedUp.running
    /\ backedUp # banData
    /\ backedUp' = RunOut(backedUp)
    /\ UNCHANGED <<requests, banData, lazyBackup, restoring>>

\* a minute without any success or declared error, of this host or of another
backup ==
    /\ lazyBackup
    /\ backedUp' = banData
    /\ lazyBackup' = FALSE
    /\ UNCHANGED <<requests, banData, restoring>>

HostBansRestart ==
    /\ requests' = [q \in HostRequests |-> "none"]
    /\ banData' = NoBan
    /\ lazyBackup' = FALSE
    /\ restoring' = TRUE
    /\ UNCHANGED backedUp

\* only bans that are running are restored, over what requests have declared since
restoreNonExpiredBans ==
    /\ restoring
    /\ restoring' = FALSE
    /\ banData' = IF backedUp.running THEN backedUp ELSE banData
    /\ UNCHANGED <<requests, backedUp, lazyBackup>>

HostBansNext ==
    \/ \E q \in HostRequests : Request(q) \/ TimesOut(q) \/ Reset(q) \/ Succeeds(q) \/ Fails(q)
    \/ BanExpires
    \/ BackupExpires
    \/ backup
    \/ HostBansRestart
    \/ restoreNonExpiredBans

HostBansSpec == HostBansInit /\ [][HostBansNext]_hostBansVars

-----------------------------------------------------------------------------
(* Properties *)

Bans == [level : 0..MaxBan, running : BOOLEAN, ranOut : Nat]

HostBansTypeOK ==
    /\ requests \in [HostRequests -> {"none", "sent", "retried"}]
    /\ banData \in Bans
    /\ backedUp \in Bans
    /\ lazyBackup \in BOOLEAN
    /\ restoring \in BOOLEAN

EarnedBy(ban) == ban.level <= ban.ranOut + (IF ban.running THEN 1 ELSE 0)

\* The ban of a host is increased once per ban that ran out, however many requests were in
\* progress when the host went silent, across backups and restarts: "Prevent several
\* simulateous requests to all multiply the ban time while the service might actually only
\* have been down for a short while" (requests_temporary_host_ban.js:51-52)
BansAreEarned == EarnedBy(banData) /\ EarnedBy(backedUp)
=============================================================================
