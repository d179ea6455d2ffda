------------------------------- MODULE Fetching -------------------------------
(***************************************************************************)
(* Getting remote entities one by one: each get goes through the cache     *)
(* (lib/cache.js) and, when it finds nothing fresh enough there, through   *)
(* the request grouper (lib/request_grouper.js), which sends one request   *)
(* for the keys asked for within a short delay.  Requests, cache writes    *)
(* and second reads of the cache overlap freely.  The remote source is a   *)
(* version number: the answer to a request is the version at some time     *)
(* while it was in flight.                                                 *)
(***************************************************************************)
EXTENDS Naturals, FiniteSets

CONSTANTS FetchKeys,   \* the cached entities
          Gets,        \* calls of cache_.get that can be in progress at once
          MaxSource    \* bound on the versions of the remote source

ASSUME FetchingAssumption == MaxSource \in Nat

VARIABLES
    source,    \* version of the remote source
    cache,     \* key -> the cached body and its age
    gets,      \* slot -> the progress of the call it runs
    open,      \* calls grouped in the next request
    groups,    \* requests in flight
    puts       \* writes of the cache in progress

fetchingVars == <<source, cache, gets, open, groups, puts>>

Versions == 0..MaxSource
NoAnswer == MaxSource + 1
NoEntry == [body |-> NoAnswer, age |-> "old"]

\* age of an entry: "now" during the millisecond it was written in, "old" after a month
Ages == {"now", "fresh", "old"}
Kinds == {"normal", "refresh", "dry", "dryAndCache"}
NotCalled == [pc |-> "idle"]

FetchingInit ==
    /\ source = 0
    /\ cache = [k \in FetchKeys |-> NoEntry]
    /\ gets = [g \in Gets |-> NotCalled]
    /\ open = {}
    /\ groups = {}
    /\ puts = {}

-----------------------------------------------------------------------------
(* The cache *)

\* the ages accepted by a first read: a timespan of 0, a month, or any
acceptedAges(kind) ==
    CASE kind = "refresh" -> {"now"}
      [] kind = "dry" -> Ages
      [] OTHER -> {"now", "fresh"}

refuseOldValue(kind) == kind = "refresh"

checkCache(k, ages) == cache[k] # NoEntry /\ cache[k].age \in ages

Get(g, k, kind) ==
    /\ gets[g] = NotCalled
    /\ gets' = [gets EXCEPT ![g] =
                   [pc |-> "checking", key |-> k, kind |-> kind, since |-> source]]
    /\ UNCHANGED <<source, cache, open, groups, puts>>

\* the cached body is returned, or the fallback value of a dry get
Cached(g) ==
    /\ gets[g].pc = "checking"
    /\ checkCache(gets[g].key, acceptedAges(gets[g].kind)) \/ gets[g].kind = "dry"
    /\ gets' = [gets EXCEPT ![g] = NotCalled]
    /\ UNCHANGED <<source, cache, open, groups, puts>>

\* mutant: until its answer a group takes calls, the reset being done then
JoinLastRequest(g) ==
    IF groups = {} THEN open' = open \union {g} /\ groups' = groups
    ELSE \E r \in groups :
            /\ open' = open
            /\ groups' = (groups \ {r}) \union {[r EXCEPT !.members = @ \union {g}]}

\* the call is pushed to the group of the next request, which arms the timer if it is
\* the first one
JoinGroup(g) == open' = open \union {g} /\ groups' = groups

\* populate; a dryAndCache get has returned the fallback value, and its request goes on
RequestIfNeeded(g) ==
    /\ gets[g].pc = "checking"
    /\ gets[g].kind # "dry"
    /\ ~checkCache(gets[g].key, acceptedAges(gets[g].kind))
    /\ gets' = [gets EXCEPT ![g].pc = "waiting"]
    /\ JoinGroup(g)
    /\ UNCHANGED <<source, cache, puts>>

-----------------------------------------------------------------------------
(* The request grouper *)

\* mutant: no reset
RequestWithoutReset ==
    /\ open # {}
    /\ groups' = groups \union {[members |-> open, since |-> source, answer |-> NoAnswer]}
    /\ UNCHANGED <<source, cache, gets, open, puts>>

\* the timer rings: the request starts with the keys so far, and the group is reset
doGroupedRequest ==
    /\ open # {}
    /\ groups' = groups \union {[members |-> open, since |-> source, answer |-> NoAnswer]}
    /\ open' = {}
    /\ UNCHANGED <<source, cache, gets, puts>>

\* the source answers, some time before the answer is received
SourceAnswers(r) ==
    /\ r.answer = NoAnswer
    /\ groups' = (groups \ {r}) \union {[r EXCEPT !.answer = source]}
    /\ UNCHANGED <<source, cache, gets, open, puts>>

\* each member returns its own part of the answer, and starts to cache it
Resolve(r) ==
    /\ r.answer # NoAnswer
    /\ groups' = groups \ {r}
    /\ gets' = [g \in Gets |-> IF g \in r.members THEN NotCalled ELSE gets[g]]
    /\ puts' = puts \union {[key |-> gets[g].key, body |-> r.answer] : g \in r.members}
    /\ UNCHANGED <<source, cache, open>>

\* mutant: the members do not hear of the failure
RejectNobody(r) ==
    /\ groups' = groups \ {r}
    /\ UNCHANGED <<source, cache, gets, open, puts>>

\* the request fails (banned host, network, timeout, status): every member is rejected,
\* a refresh for good while the others go back to the cache
Reject(r) ==
    /\ groups' = groups \ {r}
    /\ gets' = [g \in Gets |->
                   IF g \notin r.members THEN gets[g]
                   ELSE IF refuseOldValue(gets[g].kind) THEN NotCalled
                   ELSE [gets[g] EXCEPT !.pc = "fallback"]]
    /\ UNCHANGED <<source, cache, open, puts>>

\* mutant: the request is made again when there is no old value
RequestAgain(g) ==
    /\ gets[g].pc = "fallback"
    /\ gets' = [gets EXCEPT ![g] = IF cache[gets[g].key] = NoEntry THEN [@ EXCEPT !.pc = "checking"]
                                   ELSE NotCalled]
    /\ UNCHANGED <<source, cache, open, groups, puts>>

\* the old value, or the error of the request when there is none
returnOldValue(g) ==
    /\ gets[g].pc = "fallback"
    /\ gets' = [gets EXCEPT ![g] = NotCalled]
    /\ UNCHANGED <<source, cache, open, groups, puts>>

-----------------------------------------------------------------------------
(* Writes of the cache, in any order, and the world around *)

putResponseInCache(p) ==
    /\ puts' = puts \ {p}
    /\ cache' = [cache EXCEPT ![p.key] = [body |-> p.body, age |-> "now"]]
    /\ UNCHANGED <<source, gets, open, groups>>

\* a write failed: the error is only logged
PutFails(p) ==
    /\ puts' = puts \ {p}
    /\ UNCHANGED <<source, cache, gets, open, groups>>

batchDelete(keys) ==
    /\ cache' = [k \in FetchKeys |-> IF k \in keys THEN NoEntry ELSE cache[k]]
    /\ UNCHANGED <<source, gets, open, groups, puts>>

EntryAges(k) ==
    /\ cache[k].age # "old"
    /\ cache' = [cache EXCEPT ![k].age = IF @ = "now" THEN "fresh" ELSE "old"]
    /\ UNCHANGED <<source, gets, open, groups, puts>>

SourceChanges ==
    /\ source < MaxSource
    /\ source' = source + 1
    /\ UNCHANGED <<cache, gets, open, groups, puts>>

ServerRestarts ==
    /\ gets' = [g \in Gets |-> NotCalled]
    /\ open' = {} /\ groups' = {} /\ puts' = {}
    /\ UNCHANGED <<source, cache>>

\* what the server does by itself
FetchingStep ==
    \/ \E g \in Gets : Cached(g) \/ RequestIfNeeded(g) \/ returnOldValue(g)
    \/ doGroupedRequest
    \/ \E r \in groups : Resolve(r) \/ Reject(r)
    \/ \E p \in puts : putResponseInCache(p) \/ PutFails(p)

FetchingNext ==
    \/ \E g \in Gets, k \in FetchKeys, kind \in Kinds : Get(g, k, kind)
    \/ FetchingStep
    \/ \E r \in groups : SourceAnswers(r)
    \/ \E keys \in SUBSET FetchKeys : batchDelete(keys)
    \/ \E k \in FetchKeys : EntryAges(k)
    \/ SourceChanges
    \/ ServerRestarts

FetchingSpec == FetchingInit /\ [][FetchingNext]_fetchingVars

\* timers ring, the reads of the database return, a request is answered or fails within
\* 30 seconds (requests.js:15)
FetchingFairness ==
    /\ \A g \in Gets :
          /\ WF_fetchingVars(Cached(g) \/ RequestIfNeeded(g))
          /\ WF_fetchingVars(returnOldValue(g))
          /\ WF_fetchingVars(\E r \in groups : g \in r.members /\ (Resolve(r) \/ Reject(r)))
    /\ WF_fetchingVars(doGroupedRequest)

-----------------------------------------------------------------------------
(* Properties *)

Calls == [pc : {"checking", "waiting", "fallback"}, key : FetchKeys, kind : Kinds,
          since : Versions]
Answers == Versions \union {NoAnswer}

FetchingTypeOK ==
    /\ source \in Versions
    /\ cache \in [FetchKeys -> [body : Answers, age : Ages]]
    /\ gets \in [Gets -> Calls \union {NotCalled}]
    /\ open \subseteq Gets
    /\ groups \subseteq [members : SUBSET Gets, since : Versions, answer : Answers]
    /\ puts \subseteq [key : FetchKeys, body : Versions]

\* A call waits in one group only, the next one or one in flight, and the members of a
\* group are calls that wait for it: none is rejected or answered twice, none is lost by
\* the reset that follows the start of a request (request_grouper.js:26-29)
EachWaitsInOneGroup ==
    \A g \in Gets :
        LET waitsIn == {r \in groups : g \in r.members} IN
        /\ Cardinality(waitsIn) + (IF g \in open THEN 1 ELSE 0)
             = IF gets[g].pc = "waiting" THEN 1 ELSE 0

\* The answer a refresh is given was made by the source after the refresh was asked for,
\* even when its request also serves other calls: "it is expected to get a fresh value"
\* (cache.js:43)
RefreshIsFresh ==
    \A r \in groups : \A g \in r.members :
        (r.answer # NoAnswer /\ gets[g].kind = "refresh") => r.answer >= gets[g].since

\* A get returns, whatever happens to the requests and to the cache
GetsEnd == \A g \in Gets : gets[g] # NotCalled ~> gets[g] = NotCalled
=============================================================================
