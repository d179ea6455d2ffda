------------------------------ MODULE Indexation ------------------------------
(***************************************************************************)
(* From CouchDB to Elasticsearch: the server follows the changes of a      *)
(* database from the last sequence it saved (lib/follow.js), formats each  *)
(* changed document, which takes requests of its own, and posts the        *)
(* results in batches (db/elasticsearch).  The sequence is saved without   *)
(* waiting for the followers, batches are posted without waiting for the   *)
(* previous one, and all of it but the saved sequence is lost by a restart.*)
(***************************************************************************)
EXTENDS Naturals, Sequences, SequencesExt

CONSTANTS IndexedDocs,
          MaxSeq,        \* bound on the changes
          MaxGap,        \* "a legitimate large gap": 10000 changes
          MaxRestarts    \* bound on the restarts

ASSUME IndexationAssumption == MaxSeq \in Nat /\ MaxGap \in Nat /\ MaxRestarts \in Nat

VARIABLES
    changes,      \* the documents changed, and whether they were removed
    savedSeq,     \* the last sequence saved in the meta database
    follow,       \* whether the server is down, starting or following the database
    since,        \* the last sequence received
    toSave,       \* the sequence of the debounced save, or 0
    formatting,   \* changes being formatted
    batch,        \* changes of the next post
    posts,        \* posts in progress
    index,        \* document -> its change that Elasticsearch has
    restarts,
    excused       \* changes that may not reach the index, for a reason named below

indexationVars ==
    <<changes, savedSeq, follow, since, toSave, formatting, batch, posts, index, restarts,
      excused>>

Seqs == 1..Len(changes)
docOf(n) == changes[n].doc
latest(d) == {n \in Seqs : docOf(n) = d /\ \A m \in Seqs : docOf(m) = d => m <= n}

IndexationInit ==
    /\ changes = <<>>
    /\ savedSeq = 0
    /\ follow = "down"
    /\ since = 0 /\ toSave = 0
    /\ formatting = {} /\ batch = <<>> /\ posts = {}
    /\ index = [d \in IndexedDocs |-> 0]
    /\ restarts = 0
    /\ excused = {}

-----------------------------------------------------------------------------
\* the database
Change(d, removed) ==
    /\ Len(changes) < MaxSeq
    /\ changes' = Append(changes, [doc |-> d, removed |-> removed])
    /\ UNCHANGED <<savedSeq, follow, since, toSave, formatting, batch, posts, index, restarts,
                   excused>>

(* Following: follow.js *)

\* the first follower registers; the saved sequence is read then
GetLastSeq ==
    /\ follow = "down"
    /\ follow' = "starting"
    /\ since' = savedSeq
    /\ UNCHANGED <<changes, savedSeq, toSave, formatting, batch, posts, index, restarts,
                   excused>>

\* mutant: the sequence is saved when the server reads how far the database is
InitSavesDbSeq ==
    /\ follow = "starting"
    /\ follow' = "following"
    /\ since' = Len(changes)
    /\ toSave' = Len(changes)
    /\ UNCHANGED <<changes, savedSeq, formatting, batch, posts, index, restarts, excused>>

\* excused: the changes of a gap that is too large are ignored
initFollow ==
    /\ follow = "starting"
    /\ follow' = "following"
    /\ IF Len(changes) > since + MaxGap
       THEN /\ since' = Len(changes)
            /\ excused' = excused \union {n \in Seqs : n > since}
       ELSE UNCHANGED <<since, excused>>
    /\ toSave' = since'
    /\ UNCHANGED <<changes, savedSeq, formatting, batch, posts, index, restarts>>

inPipeline(d) == {n \in formatting : docOf(n) = d}

\* the feed sends the next change that is the latest one of its document.  A removal is
\* added to the batch at once, an update when it is formatted
\* excused: changes of a document that is being formatted, which may end in another order
Receive ==
    /\ follow = "following"
    /\ \E n \in Seqs :
          /\ n > since /\ n \in latest(docOf(n))
          /\ \A m \in Seqs : m > since /\ m \in latest(docOf(m)) => n <= m
          /\ since' = n
          /\ toSave' = n
          /\ IF changes[n].removed THEN /\ batch' = Append(batch, n)
                                        /\ formatting' = formatting
                                   ELSE /\ batch' = batch
                                        /\ formatting' = formatting \union {n}
          /\ excused' = IF inPipeline(docOf(n)) # {} THEN excused \union {n} ELSE excused
    /\ UNCHANGED <<changes, savedSeq, follow, posts, index, restarts>>

\* a second after the last change that was received
setLastSeq ==
    /\ toSave # 0
    /\ savedSeq' = toSave
    /\ toSave' = 0
    /\ UNCHANGED <<changes, follow, since, formatting, batch, posts, index, restarts, excused>>

-----------------------------------------------------------------------------
(* Indexing: indexation.js, bulk.js *)

addToBatch(n) ==
    /\ n \in formatting
    /\ formatting' = formatting \ {n}
    /\ batch' = Append(batch, n)
    /\ UNCHANGED <<changes, savedSeq, follow, since, toSave, posts, index, restarts, excused>>

\* excused: a document that is not to be indexed, or can't be formatted
NotIndexed(n) ==
    /\ n \in formatting
    /\ formatting' = formatting \ {n}
    /\ excused' = excused \union {n}
    /\ UNCHANGED <<changes, savedSeq, follow, since, toSave, batch, posts, index, restarts>>

\* mutant: the batch is reset before it is posted
ResetAndPost ==
    /\ batch # <<>>
    /\ posts' = posts \union {<<>>}
    /\ batch' = <<>>
    /\ UNCHANGED <<changes, savedSeq, follow, since, toSave, formatting, index, restarts,
                   excused>>

\* the throttled post, or a batch of a thousand
\* excused: changes of a document that is in a post in progress, which may end after this one
postAndReset ==
    /\ batch # <<>>
    /\ posts' = posts \union {batch}
    /\ batch' = <<>>
    /\ excused' = excused \union
          {n \in ToSet(batch) : \E p \in posts : \E m \in ToSet(p) : docOf(m) = docOf(n)}
    /\ UNCHANGED <<changes, savedSeq, follow, since, toSave, formatting, index, restarts>>

\* Elasticsearch runs the operations of a post in their order
PostEnds(p) ==
    /\ posts' = posts \ {p}
    /\ index' = [d \in IndexedDocs |->
                    LET last == SelectLastInSeq(p, LAMBDA n : docOf(n) = d) IN
                    IF last = 0 THEN index[d] ELSE p[last]]
    /\ UNCHANGED <<changes, savedSeq, follow, since, toSave, formatting, batch, restarts,
                   excused>>

\* excused: the error of a post is only logged
PostFails(p) ==
    /\ posts' = posts \ {p}
    /\ excused' = excused \union ToSet(p)
    /\ UNCHANGED <<changes, savedSeq, follow, since, toSave, formatting, batch, index,
                   restarts>>

\* excused: what was saved as received, and was still on its way
IndexationRestart ==
    /\ restarts < MaxRestarts
    /\ restarts' = restarts + 1
    /\ follow' = "down"
    /\ since' = 0 /\ toSave' = 0
    /\ formatting' = {} /\ batch' = <<>> /\ posts' = {}
    /\ excused' = excused \union
          {n \in formatting \union ToSet(batch) \union UNION {ToSet(p) : p \in posts} :
              n <= savedSeq}
    /\ UNCHANGED <<changes, savedSeq, index>>

IndexationNext ==
    \/ \E d \in IndexedDocs, removed \in BOOLEAN : Change(d, removed)
    \/ GetLastSeq \/ initFollow \/ Receive \/ setLastSeq
    \/ \E n \in formatting : addToBatch(n) \/ NotIndexed(n)
    \/ postAndReset
    \/ \E p \in posts : PostEnds(p) \/ PostFails(p)
    \/ IndexationRestart

IndexationSpec == IndexationInit /\ [][IndexationNext]_indexationVars

\* the server starts again, CouchDB sends its changes, timers ring, requests end
IndexationFairness ==
    /\ WF_indexationVars(GetLastSeq) /\ WF_indexationVars(initFollow)
    /\ WF_indexationVars(Receive)
    /\ WF_indexationVars(setLastSeq)
    /\ WF_indexationVars(\E n \in formatting : addToBatch(n) \/ NotIndexed(n))
    /\ WF_indexationVars(postAndReset)
    /\ WF_indexationVars(\E p \in posts : PostEnds(p) \/ PostFails(p))

-----------------------------------------------------------------------------
(* Properties *)

AllSeqs == 0..MaxSeq

IndexationTypeOK ==
    /\ changes \in Seq([doc : IndexedDocs, removed : BOOLEAN]) /\ Len(changes) <= MaxSeq
    /\ savedSeq \in AllSeqs /\ since \in AllSeqs /\ toSave \in AllSeqs
    /\ follow \in {"down", "starting", "following"}
    /\ formatting \subseteq Seqs
    /\ batch \in Seq(Seqs)
    /\ \A p \in posts : p \in Seq(Seqs)
    /\ index \in [IndexedDocs -> AllSeqs]
    /\ restarts \in 0..MaxRestarts
    /\ excused \subseteq Seqs

\* Once the database is left alone, the index has the latest change of each document, a
\* removal included, whatever the restarts: "It won't miss any changes as CouchDB will
\* send everything that happened since the last saved sequence number" (follow.js:53-54).
\* The changes left out are those that this code itself lets go, each where it is "excused"
IndexCatchesUp ==
    <>[](\A d \in IndexedDocs : \A n \in latest(d) : index[d] = n \/ n \in excused)
=============================================================================
