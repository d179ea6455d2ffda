-------------------------- MODULE ServiceTypesProofs --------------------------
(***************************************************************************)
(* The state of each service keeps its shape, for any value of the         *)
(* constants, and whichever of them takes the steps.                       *)
(***************************************************************************)
EXTENDS MCServices, ServicesProofs, GroupsProofs, WellFoundedInduction, TLAPS

\* A set of natural numbers has a least one
LEMMA LeastNumber ==
    ASSUME NEW T, T \subseteq Nat, T # {}
    PROVE  \E x \in T : \A y \in T : x <= y
<1> DEFINE R == OpToRel(<, Nat)
<1>1. IsWellFoundedOn(R, Nat)
  BY NatLessThanWellFounded
<1>2. \A y, x \in Nat : <<y, x>> \in R <=> y < x
  BY DEF OpToRel
<1> HIDE DEF R
<1>3. PICK x \in T : \A y \in T : <<y, x>> \notin R
  BY <1>1, WFMin
<1>4. \A y \in T : ~(y < x)
  BY <1>2, <1>3
<1> QED
  BY <1>4

-----------------------------------------------------------------------------
(* Messages and emails of a transaction *)

\* a transaction has an event from the start, so that its events are keys of the waiting list
MessagesInv == MessagesTypeOK /\ Len(messages) > 0

LEMMA MessagesStart == MessagesInit => MessagesInv
<1> SUFFICES ASSUME MessagesInit PROVE MessagesInv
  OBVIOUS
<1>1. messages \in Seq(Roles) /\ Len(messages) = 1 /\ 1 <= MaxMessages /\ 1 \in MailKeys
  BY MessagesAssumption DEF MessagesInit, Roles, MailKeys
<1>2. read \in Flags
  BY DEF MessagesInit, Flags
<1>3. adders \subseteq [key : MailKeys, listed : SUBSET MailKeys]
  BY <1>1 DEF MessagesInit
<1>4. posters \in [Posters ->
          {NoPost} \union [pc : {"adding", "reading"}, role : Roles, read : Flags]]
  BY DEF MessagesInit
<1>5. waiting = {} /\ sendings = {} /\ unnoticed \subseteq MailKeys /\ crossed \in BOOLEAN
  BY <1>1 DEF MessagesInit
<1> QED
  BY <1>1, <1>2, <1>3, <1>4, <1>5 DEF MessagesInv, MessagesTypeOK

\* an event added to the timeline is one of its keys
LEMMA EventAdded ==
    ASSUME MessagesInv, Len(messages) < MaxMessages, NEW role \in Roles,
           messages' = Append(messages, role)
    PROVE  /\ messages' \in Seq(Roles) /\ Len(messages') <= MaxMessages /\ Len(messages') > 0
           /\ Len(messages') \in MailKeys
BY MessagesAssumption DEF MessagesInv, MessagesTypeOK, MailKeys

LEMMA PostingTypes ==
    ASSUME MessagesTypeOK, NEW p \in Posters, posters[p] # NoPost
    PROVE  posters[p] \in [pc : {"adding", "reading"}, role : Roles, read : Flags]
BY DEF MessagesTypeOK

LEMMA ReadStates == \A role \in Roles : updateReadStates(role) \in Flags
BY DEF updateReadStates, Flags

LEMMA MessagesGoOn == MessagesInv /\ [MessagesNext]_messagesVars => MessagesInv'
<1> SUFFICES ASSUME MessagesInv, [MessagesNext]_messagesVars PROVE MessagesInv'
  OBVIOUS
<1>a. /\ read \in Flags
      /\ messages \in Seq(Roles) /\ Len(messages) <= MaxMessages /\ Len(messages) > 0
      /\ posters \in [Posters ->
            {NoPost} \union [pc : {"adding", "reading"}, role : Roles, read : Flags]]
      /\ adders \subseteq [key : MailKeys, listed : SUBSET MailKeys]
      /\ waiting \subseteq [key : MailKeys, due : BOOLEAN]
      /\ sendings \subseteq [key : MailKeys, notify : BOOLEAN, pc : {"building", "deleting"}]
      /\ unnoticed \subseteq MailKeys
      /\ crossed \in BOOLEAN
  BY DEF MessagesInv, MessagesTypeOK
<1>b. {w.key : w \in waiting} \subseteq MailKeys /\ Len(messages) \in MailKeys
  BY <1>a DEF MailKeys
<1>c. posting \in BOOLEAN
  BY DEF posting
<1>1. ASSUME NEW p \in Posters, NEW role \in Roles, GetTransaction(p, role) PROVE MessagesInv'
  <2>1. [pc |-> "adding", role |-> role, read |-> read]
           \in [pc : {"adding", "reading"}, role : Roles, read : Flags]
    BY <1>a
  <2>2. posters' \in [Posters ->
            {NoPost} \union [pc : {"adding", "reading"}, role : Roles, read : Flags]]
    BY <1>1, <1>a, <2>1 DEF GetTransaction
  <2>3. crossed' \in BOOLEAN
    BY <1>1, <1>a, <1>c DEF GetTransaction
  <2> QED
    BY <1>1, <1>a, <2>2, <2>3 DEF GetTransaction, MessagesInv, MessagesTypeOK
<1>2. ASSUME NEW p \in Posters, addTransactionComment(p) PROVE MessagesInv'
  <2>1. posters[p] \in [pc : {"adding", "reading"}, role : Roles, read : Flags]
    BY <1>2, <1>a, PostingTypes DEF addTransactionComment, NoPost, MessagesInv
  <2>2. /\ messages' \in Seq(Roles) /\ Len(messages') <= MaxMessages /\ Len(messages') > 0
        /\ Len(messages') \in MailKeys
    BY <1>2, <2>1, EventAdded DEF addTransactionComment
  <2>3. unnoticed' \subseteq MailKeys
    BY <1>2, <1>a, <2>2 DEF addTransactionComment
  <2>4. [posters[p] EXCEPT !.pc = "reading"]
           \in [pc : {"adding", "reading"}, role : Roles, read : Flags]
    BY <2>1
  <2>5. posters' \in [Posters ->
            {NoPost} \union [pc : {"adding", "reading"}, role : Roles, read : Flags]]
    BY <1>2, <1>a, <2>4 DEF addTransactionComment
  <2> QED
    BY <1>2, <1>a, <2>2, <2>3, <2>5 DEF addTransactionComment, MessagesInv, MessagesTypeOK
<1>3. ASSUME NEW p \in Posters, UpdateRead(p) PROVE MessagesInv'
  <2>1. posters[p].role \in Roles
    BY <1>3, <1>a, PostingTypes DEF UpdateRead, NoPost, MessagesInv
  <2>2. read' \in Flags
    BY <1>3, <1>a, <2>1, ReadStates DEF UpdateRead, updateReadForNewMessage
  <2>3. [key |-> Len(messages), listed |-> {w.key : w \in waiting}]
           \in [key : MailKeys, listed : SUBSET MailKeys]
    BY <1>b
  <2>4. adders' \subseteq [key : MailKeys, listed : SUBSET MailKeys]
    BY <1>3, <1>a, <2>3 DEF UpdateRead
  <2>5. posters' \in [Posters ->
            {NoPost} \union [pc : {"adding", "reading"}, role : Roles, read : Flags]]
    BY <1>3, <1>a DEF UpdateRead
  <2> QED
    BY <1>3, <1>a, <2>2, <2>4, <2>5 DEF UpdateRead, MessagesInv, MessagesTypeOK
<1>4. ASSUME NEW role \in Roles, updateState(role) PROVE MessagesInv'
  <2>1. /\ messages' \in Seq(Roles) /\ Len(messages') <= MaxMessages /\ Len(messages') > 0
        /\ Len(messages') \in MailKeys
    BY <1>4, EventAdded DEF updateState
  <2>2. unnoticed' \subseteq MailKeys
    BY <1>4, <1>a, <2>1 DEF updateState
  <2>3. [key |-> Len(messages'), listed |-> {w.key : w \in waiting}]
           \in [key : MailKeys, listed : SUBSET MailKeys]
    BY <1>b, <2>1
  <2>4. adders' \subseteq [key : MailKeys, listed : SUBSET MailKeys]
    BY <1>4, <1>a, <2>3 DEF updateState
  <2>5. read' \in Flags /\ crossed' \in BOOLEAN
    BY <1>4, <1>a, <1>c, ReadStates DEF updateState
  <2> QED
    BY <1>4, <1>a, <2>1, <2>2, <2>4, <2>5 DEF updateState, MessagesInv, MessagesTypeOK
<1>5. ASSUME NEW role \in Roles, markAsRead(role) PROVE MessagesInv'
  <2>1. read' \in Flags /\ crossed' \in BOOLEAN
    BY <1>5, <1>a, <1>c DEF markAsRead, Flags
  <2> QED
    BY <1>5, <1>a, <2>1 DEF markAsRead, MessagesInv, MessagesTypeOK
<1>6. ASSUME NEW a \in adders, addToWaitingList(a) PROVE MessagesInv'
  <2>1. [key |-> a.key, due |-> FALSE] \in [key : MailKeys, due : BOOLEAN]
    BY <1>a
  <2>2. waiting' \subseteq [key : MailKeys, due : BOOLEAN] /\ adders' \subseteq adders
    BY <1>6, <1>a, <2>1 DEF addToWaitingList
  <2> QED
    BY <1>6, <1>a, <2>2 DEF addToWaitingList, MessagesInv, MessagesTypeOK
<1>7. ASSUME NEW w \in waiting, WaitedEnough(w) PROVE MessagesInv'
  <2>1. [w EXCEPT !.due = TRUE] \in [key : MailKeys, due : BOOLEAN]
    BY <1>a
  <2>2. waiting' \subseteq [key : MailKeys, due : BOOLEAN]
    BY <1>7, <1>a, <2>1 DEF WaitedEnough
  <2> QED
    BY <1>7, <1>a, <2>2 DEF WaitedEnough, MessagesInv, MessagesTypeOK
<1>8. ASSUME NEW w \in waiting, crawl(w) PROVE MessagesInv'
  <2>1. [key |-> w.key, notify |-> \E r \in Roles : ~read[r], pc |-> "building"]
           \in [key : MailKeys, notify : BOOLEAN, pc : {"building", "deleting"}]
    BY <1>a
  <2>2. sendings' \subseteq
           [key : MailKeys, notify : BOOLEAN, pc : {"building", "deleting"}]
    BY <1>8, <1>a, <2>1 DEF crawl
  <2> QED
    BY <1>8, <1>a, <2>2 DEF crawl, MessagesInv, MessagesTypeOK
<1>9. ASSUME NEW s \in sendings, SendMail(s) PROVE MessagesInv'
  <2>1. [s EXCEPT !.pc = "deleting"]
           \in [key : MailKeys, notify : BOOLEAN, pc : {"building", "deleting"}]
    BY <1>a
  <2>2. /\ sendings' \subseteq
              [key : MailKeys, notify : BOOLEAN, pc : {"building", "deleting"}]
        /\ unnoticed' \subseteq MailKeys
    BY <1>9, <1>a, <2>1 DEF SendMail
  <2> QED
    BY <1>9, <1>a, <2>2 DEF SendMail, MessagesInv, MessagesTypeOK
<1>10. ASSUME NEW s \in sendings, BuildFails(s) \/ DeleteKey(s) PROVE MessagesInv'
  <2>1. sendings' \subseteq sendings /\ waiting' \subseteq waiting
    BY <1>10 DEF BuildFails, DeleteKey
  <2> QED
    BY <1>10, <1>a, <2>1 DEF BuildFails, DeleteKey, MessagesInv, MessagesTypeOK
<1>11. CASE UNCHANGED messagesVars
  BY <1>11, <1>a DEF messagesVars, MessagesInv, MessagesTypeOK
<1> QED
  BY <1>1, <1>2, <1>3, <1>4, <1>5, <1>6, <1>7, <1>8, <1>9, <1>10, <1>11 DEF MessagesNext

LEMMA NothingToRead == AllRead => MessagesInv
<1> SUFFICES ASSUME AllRead PROVE MessagesInv
  OBVIOUS
<1>1. messages \in Seq(Roles) /\ Len(messages) = 1 /\ 1 <= MaxMessages
  BY MessagesAssumption DEF AllRead, Roles
<1>2. read \in Flags
  BY DEF AllRead, Flags
<1>3. posters \in [Posters ->
          {NoPost} \union [pc : {"adding", "reading"}, role : Roles, read : Flags]]
  BY DEF AllRead
<1>4. adders = {} /\ waiting = {} /\ sendings = {} /\ unnoticed = {} /\ crossed \in BOOLEAN
  BY DEF AllRead
<1> QED
  BY <1>1, <1>2, <1>3, <1>4 DEF MessagesInv, MessagesTypeOK

\* The flags, the timeline, the waiting list and the emails of a transaction keep their
\* types, whatever requests, listeners and the crawler interleave (transactions/lib/messages.js,
\* emails/debounce_emails.js, debounced_emails_crawler.js)
THEOREM MessagesTypeCorrectness == MessagesSpec => []MessagesTypeOK
<1>1. MessagesInv => MessagesTypeOK
  BY DEF MessagesInv
<1> QED
  BY <1>1, MessagesStart, MessagesGoOn, PTL DEF MessagesSpec

-----------------------------------------------------------------------------
(* Changes on their way to the index *)

\* sequences of changes stay so when the database has more changes
LEMMA SeqsGrow ==
    ASSUME NEW S, NEW T, S \subseteq T
    PROVE  Seq(S) \subseteq Seq(T)
<1> SUFFICES ASSUME NEW q \in Seq(S) PROVE q \in Seq(T)
  OBVIOUS
<1>1. Len(q) \in Nat /\ q \in [1..Len(q) -> S]
  OBVIOUS
<1>2. q \in [1..Len(q) -> T]
  BY <1>1
<1> QED
  BY <1>1, <1>2

\* the last operation of a post on a document is one of the post
LEMMA LastOperation ==
    ASSUME NEW q \in Seq(Seqs), NEW d
    PROVE  SelectLastInSeq(q, LAMBDA n : docOf(n) = d) \in 0..Len(q)
<1> DEFINE I == {i \in 1..Len(q) : docOf(q[i]) = d}
<1>1. CASE I = {}
  BY <1>1 DEF SelectLastInSeq
<1>2. CASE I # {}
  <2>1. \E x \in I : \A y \in I : x >= y
    <3> DEFINE T == {n \in Nat : \A i \in I : i <= n}
    <3>1. Len(q) \in T
      OBVIOUS
    <3>2. PICK n \in T : \A m \in T : n <= m
      <4>1. T \subseteq Nat /\ T # {}
        BY <3>1
      <4> HIDE DEF T
      <4> QED
        BY <4>1, LeastNumber
    <3>3. n \in I
      <4> SUFFICES ASSUME n \notin I PROVE FALSE
        OBVIOUS
      <4>1. \A i \in I : i <= n /\ i # n
        BY <3>2
      <4>2. n > 0
        BY <1>2, <4>1
      <4>3. n - 1 \in T
        BY <4>1, <4>2, <3>2
      <4> QED
        BY <4>3, <3>2
    <3> QED
      BY <3>2, <3>3
  <2>2. Max(I) \in I
    BY <2>1 DEF Max
  <2>3. SelectLastInSeq(q, LAMBDA n : docOf(n) = d) = Max(I)
    BY <1>2 DEF SelectLastInSeq
  <2> QED
    BY <2>2, <2>3
<1> QED
  BY <1>1, <1>2

LEMMA ToSetOfSeq == \A S : \A q \in Seq(S) : ToSet(q) \subseteq S
BY DEF ToSet

LEMMA IndexationStart == IndexationInit \/ NoChanges => IndexationTypeOK
<1>1. 0 \in AllSeqs /\ 0 \in 0..MaxRestarts
  BY IndexationAssumption DEF AllSeqs
<1>2. \A S : <<>> \in Seq(S) /\ Len(<<>>) = 0
  OBVIOUS
<1>3. 0 <= MaxSeq
  BY IndexationAssumption
<1> QED
  BY <1>1, <1>2, <1>3 DEF IndexationInit, NoChanges, IndexationTypeOK

LEMMA IndexationGoesOn == IndexationTypeOK /\ [IndexationNext]_indexationVars => IndexationTypeOK'
<1> SUFFICES ASSUME IndexationTypeOK, [IndexationNext]_indexationVars PROVE IndexationTypeOK'
  OBVIOUS
<1>a. /\ changes \in Seq([doc : IndexedDocs, removed : BOOLEAN]) /\ Len(changes) <= MaxSeq
      /\ savedSeq \in AllSeqs /\ since \in AllSeqs /\ toSave \in AllSeqs
      /\ follow \in {"down", "starting", "following"}
      /\ formatting \subseteq Seqs
      /\ batch \in Seq(Seqs)
      /\ \A p \in posts : p \in Seq(Seqs)
      /\ index \in [IndexedDocs -> AllSeqs]
      /\ restarts \in 0..MaxRestarts
      /\ excused \subseteq Seqs
  BY DEF IndexationTypeOK
<1>b. MaxSeq \in Nat /\ MaxRestarts \in Nat /\ Len(changes) \in AllSeqs /\ 0 \in AllSeqs
  BY <1>a, IndexationAssumption DEF AllSeqs
<1>c. Seqs \subseteq AllSeqs
  BY <1>a, <1>b DEF Seqs, AllSeqs
<1>s. ASSUME UNCHANGED changes PROVE Seqs' = Seqs
  BY <1>s DEF Seqs
<1>1. ASSUME NEW d \in IndexedDocs, NEW removed \in BOOLEAN, Change(d, removed)
      PROVE  IndexationTypeOK'
  <2>1. /\ changes' \in Seq([doc : IndexedDocs, removed : BOOLEAN])
        /\ Len(changes') = Len(changes) + 1 /\ Len(changes') <= MaxSeq
    BY <1>1, <1>a, <1>b DEF Change
  <2>2. Seqs \subseteq Seqs'
    BY <2>1, <1>a DEF Seqs
  <2>3. Seq(Seqs) \subseteq Seq(Seqs')
    <3> DEFINE before == Seqs
               after == Seqs'
    <3>1. before \subseteq after
      BY <2>2
    <3> HIDE DEF before, after
    <3>2. Seq(before) \subseteq Seq(after)
      BY <3>1, SeqsGrow
    <3> QED
      BY <3>2 DEF before, after
  <2>4. UNCHANGED <<savedSeq, follow, since, toSave, formatting, batch, posts, index, restarts,
                    excused>>
    BY <1>1 DEF Change
  <2>5. formatting' \subseteq Seqs' /\ excused' \subseteq Seqs'
    BY <2>2, <2>4, <1>a
  <2>6. batch' \in Seq(Seqs)' /\ \A p \in posts' : p \in Seq(Seqs)'
    BY <2>3, <2>4, <1>a
  <2> QED
    BY <2>1, <2>4, <2>5, <2>6, <1>a DEF IndexationTypeOK, AllSeqs
<1>2. CASE GetLastSeq
  BY <1>2, <1>a, <1>s DEF GetLastSeq, IndexationTypeOK, AllSeqs
<1>3. CASE initFollow
  <2>1. since' \in AllSeqs /\ excused' \subseteq Seqs
    BY <1>3, <1>a, <1>b DEF initFollow
  <2> QED
    BY <1>3, <2>1, <1>a, <1>s DEF initFollow, IndexationTypeOK, AllSeqs
<1>4. CASE Receive
  <2>1. PICK n \in Seqs :
            /\ since' = n /\ toSave' = n
            /\ batch' = batch \/ batch' = Append(batch, n)
            /\ formatting' = formatting \/ formatting' = formatting \union {n}
            /\ excused' = excused \/ excused' = excused \union {n}
    BY <1>4 DEF Receive
  <2>2. since' \in AllSeqs /\ toSave' \in AllSeqs
    BY <2>1, <1>c
  <2>3. formatting' \subseteq Seqs /\ excused' \subseteq Seqs
    BY <2>1, <1>a
  <2>4. batch' \in Seq(Seqs)
    <3> DEFINE S == Seqs
    <3>1. n \in S /\ batch \in Seq(S)
      BY <1>a
    <3> HIDE DEF S
    <3>2. batch' \in Seq(S)
      BY <2>1, <3>1
    <3> QED
      BY <3>2 DEF S
  <2>5. UNCHANGED <<changes, savedSeq, follow, posts, index, restarts>>
    BY <1>4 DEF Receive
  <2> QED
    BY <2>2, <2>3, <2>4, <2>5, <1>a, <1>s DEF IndexationTypeOK, AllSeqs
<1>5. CASE setLastSeq
  BY <1>5, <1>a, <1>b, <1>s DEF setLastSeq, IndexationTypeOK, AllSeqs
<1>6. ASSUME NEW n \in formatting, addToBatch(n) PROVE IndexationTypeOK'
  <2>1. batch' \in Seq(Seqs)
    <3> DEFINE S == Seqs
    <3>1. n \in S /\ batch \in Seq(S)
      BY <1>a
    <3> HIDE DEF S
    <3>2. batch' \in Seq(S)
      BY <1>6, <3>1 DEF addToBatch
    <3> QED
      BY <3>2 DEF S
  <2>2. formatting' \subseteq Seqs
    BY <1>6, <1>a DEF addToBatch
  <2> QED
    BY <1>6, <2>1, <2>2, <1>a, <1>s DEF addToBatch, IndexationTypeOK, AllSeqs
<1>7. ASSUME NEW n \in formatting, NotIndexed(n) PROVE IndexationTypeOK'
  <2>1. formatting' \subseteq Seqs /\ excused' \subseteq Seqs
    BY <1>7, <1>a DEF NotIndexed
  <2> QED
    BY <1>7, <2>1, <1>a, <1>s DEF NotIndexed, IndexationTypeOK, AllSeqs
<1>8. CASE postAndReset
  <2>1. \A p \in posts' : p \in Seq(Seqs)
    BY <1>8, <1>a DEF postAndReset
  <2>2. excused' \subseteq Seqs
    BY <1>8, <1>a, ToSetOfSeq DEF postAndReset
  <2>3. batch' \in Seq(Seqs)
    BY <1>8 DEF postAndReset
  <2> QED
    BY <1>8, <2>1, <2>2, <2>3, <1>a, <1>s DEF postAndReset, IndexationTypeOK, AllSeqs
<1>9. ASSUME NEW p \in posts, PostEnds(p) PROVE IndexationTypeOK'
  <2> DEFINE last(d) == SelectLastInSeq(p, LAMBDA n : docOf(n) = d)
  <2>1. p \in Seq(Seqs)
    BY <1>a
  <2>2. \A d : last(d) \in 0..Len(p)
    BY <2>1, LastOperation
  <2>3. index' = [d \in IndexedDocs |-> IF last(d) = 0 THEN index[d] ELSE p[last(d)]]
    BY <1>9 DEF PostEnds
  <2> HIDE DEF last
  <2>4. \A i \in 1..Len(p) : p[i] \in AllSeqs
    BY <2>1, <1>c
  <2>5. \A d \in IndexedDocs : last(d) # 0 => p[last(d)] \in AllSeqs
    <3> SUFFICES ASSUME NEW d \in IndexedDocs, last(d) # 0 PROVE p[last(d)] \in AllSeqs
      OBVIOUS
    <3>1. last(d) \in 1..Len(p)
      BY <2>1, <2>2
    <3> QED
      BY <3>1, <2>4
  <2>6. index' \in [IndexedDocs -> AllSeqs]
    BY <2>3, <2>5, <1>a
  <2> QED
    BY <1>9, <2>6, <1>a, <1>s DEF PostEnds, IndexationTypeOK, AllSeqs
<1>10. ASSUME NEW p \in posts, PostFails(p) PROVE IndexationTypeOK'
  <2>1. excused' \subseteq Seqs
    BY <1>10, <1>a, ToSetOfSeq DEF PostFails
  <2> QED
    BY <1>10, <2>1, <1>a, <1>s DEF PostFails, IndexationTypeOK, AllSeqs
<1>11. CASE IndexationRestart
  <2>1. excused' \subseteq Seqs
    BY <1>11, <1>a, ToSetOfSeq DEF IndexationRestart
  <2>2. batch' \in Seq(Seqs) /\ posts' = {} /\ formatting' = {}
    BY <1>11 DEF IndexationRestart
  <2>3. restarts' \in 0..MaxRestarts
    BY <1>11, <1>a, <1>b DEF IndexationRestart
  <2> QED
    BY <1>11, <2>1, <2>2, <2>3, <1>a, <1>b, <1>s DEF IndexationRestart, IndexationTypeOK, AllSeqs
<1>12. CASE UNCHANGED indexationVars
  BY <1>12, <1>a, <1>s DEF indexationVars, IndexationTypeOK, AllSeqs
<1> QED
  BY <1>1, <1>2, <1>3, <1>4, <1>5, <1>6, <1>7, <1>8, <1>9, <1>10, <1>11, <1>12
     DEF IndexationNext

\* What is received, formatted, posted and indexed is always a change of the database, and
\* never one it does not have, through restarts and failures (lib/follow.js,
\* db/elasticsearch/indexation.js)
THEOREM IndexationTypeCorrectness == IndexationSpec => []IndexationTypeOK
BY IndexationStart, IndexationGoesOn, PTL DEF IndexationSpec

-----------------------------------------------------------------------------
(* The times of the keys of sessions *)

TimesOK ==
    /\ nextCheck \in 0..Down
    /\ lostKeys \subseteq Times
    /\ session \in [at : Times, key : Times] \union {NoSession}

KeyTypesInv == KeysInv /\ TimesOK

LEMMA PairsOfTimes ==
    ASSUME NEW now \in Times, NEW ks \in Pairs(now)
    PROVE  /\ ks \subseteq Times /\ IsFiniteSet(ks) /\ Cardinality(ks) <= 2
           /\ ks # {} => newest(ks) \in Times
<1>1. now \in Nat /\ 0..now \subseteq Times
  BY SessionKeysAssumption DEF Times
<1>2. ks \subseteq Times
  BY <1>1 DEF Pairs
<1>3. IsFiniteSet(ks) /\ Cardinality(ks) <= 2
  <2>1. CASE ks = {}
    BY <2>1, FS_EmptySet
  <2>2. CASE \E a, b \in 0..now : ks = {a, b}
    <3>1. PICK a, b \in 0..now : ks = {a} \union {b}
      BY <2>2
    <3>2. IsFiniteSet({a}) /\ Cardinality({a}) = 1
      BY FS_Singleton
    <3>3. IsFiniteSet({a} \union {b})
          /\ Cardinality({a} \union {b}) = IF b \in {a} THEN 1 ELSE 2
      BY <3>2, FS_AddElement
    <3> QED
      BY <3>1, <3>3
  <2> QED
    BY <2>1, <2>2 DEF Pairs
<1>4. ks # {} => newest(ks) \in Times
  BY <1>1, <1>2, NewestIsGreatest
<1> QED
  BY <1>2, <1>3, <1>4

LEMMA TimesBegin == SessionKeysInit => KeyTypesInv
BY KeysBegin, SessionKeysAssumption DEF SessionKeysInit, KeyTypesInv, TimesOK, Down

LEMMA TimesGoOn == KeyTypesInv /\ [SessionKeysNext]_sessionKeysVars => KeyTypesInv'
<1> SUFFICES ASSUME KeyTypesInv, [SessionKeysNext]_sessionKeysVars PROVE KeyTypesInv'
  OBVIOUS
<1>1. KeysInv /\ KeysInv'
  BY KeysGoOn DEF KeyTypesInv
<1>2. /\ MaxTime \in Nat /\ keysHalfTtl \in Nat /\ oneDay \in Nat
      /\ clock \in Times /\ keys \in Pairs(clock) /\ savings \subseteq {keys}
      /\ savings # {} => keys # {}
  BY <1>1, SessionKeysAssumption DEF KeysInv, Shapes, SavingsAreNew, Times
<1>3. keys # {} => newest(keys) \in Times
  BY <1>2, PairsOfTimes
<1>4. \A w \in savings : newest(w) \in Times
  BY <1>2, <1>3
<1>5. TimesOK
  BY DEF KeyTypesInv
<1>6. TimesOK'
  <2>1. CASE KeysStart
    BY <2>1, <1>2, <1>5 DEF KeysStart, TimesOK, Times, Down
  <2>2. CASE checkState /\ generateNewKey
    <3>1. lesser(oneDay, keysHalfTtl + slack) \in 0..oneDay
      BY <1>2 DEF lesser, slack
    <3>2. nextCheck' \in 0..Down
      BY <2>2, <3>1, <1>2 DEF generateNewKey, Times, Down
    <3> QED
      BY <2>2, <3>2, <1>5 DEF generateNewKey, TimesOK
  <2>3. CASE checkState /\ checkLater
    <3>1. newest(keys) \in 0..MaxTime
      BY <2>3, <1>3 DEF checkLater, needsNewKey, Times
    <3>2. nextCheck' \in 0..Down
      BY <2>3, <3>1, <1>2 DEF checkLater, slack, Down
    <3> QED
      BY <2>3, <3>2, <1>5 DEF checkLater, TimesOK
  <2>4. CASE KeysStop
    <3>1. nextCheck' \in 0..Down
      BY <2>4, <1>2 DEF KeysStop, Down
    <3>2. lostKeys' \subseteq Times
      BY <2>4, <1>4, <1>5 DEF KeysStop, TimesOK
    <3> QED
      BY <2>4, <3>1, <3>2, <1>5 DEF KeysStop, TimesOK
  <2>5. ASSUME NEW w \in savings, saveKeysToDisk(w) PROVE TimesOK'
    BY <2>5, <1>5 DEF saveKeysToDisk, TimesOK
  <2>6. ASSUME NEW w \in savings, SaveFails(w) PROVE TimesOK'
    BY <2>6, <1>4, <1>5 DEF SaveFails, TimesOK
  <2>7. CASE SignIn
    BY <2>7, <1>2, <1>3, <1>5 DEF SignIn, TimesOK
  <2>8. CASE Tick
    BY <2>8, <1>5 DEF Tick, TimesOK
  <2>9. CASE UNCHANGED sessionKeysVars
    BY <2>9, <1>5 DEF sessionKeysVars, TimesOK
  <2> QED
    BY <2>1, <2>2, <2>3, <2>4, <2>5, <2>6, <2>7, <2>8, <2>9 DEF SessionKeysNext, checkState
<1> QED
  BY <1>1, <1>6 DEF KeyTypesInv

LEMMA TimesAreTypes == KeyTypesInv => SessionKeysTypeOK
<1> SUFFICES ASSUME KeyTypesInv PROVE SessionKeysTypeOK
  OBVIOUS
<1>1. clock \in Times /\ keys \in Pairs(clock) /\ file \in Pairs(clock) /\ savings \subseteq {keys}
  BY SessionKeysAssumption DEF KeyTypesInv, KeysInv, Shapes, SavingsAreNew, Times
<1>2. keys \subseteq Times /\ Cardinality(keys) <= 2 /\ file \subseteq Times
  BY <1>1, PairsOfTimes
<1>3. savings \subseteq SUBSET Times
  BY <1>1, <1>2
<1> QED
  BY <1>1, <1>2, <1>3 DEF KeyTypesInv, TimesOK, SessionKeysTypeOK

\* The server and its file have two keys at most, and everything that is dated is dated
\* of the past, through writes that fail and restarts (lib/auto_rotated_keys.js)
THEOREM SessionKeysTypeCorrectness == SessionKeysSpec => []SessionKeysTypeOK
BY TimesBegin, TimesGoOn, TimesAreTypes, PTL DEF SessionKeysSpec

-----------------------------------------------------------------------------
(* All the services: one of them takes steps, the others stay as they are *)

TypesInv ==
    /\ FetchInv /\ BansInv /\ TasksInv /\ KeyTypesInv /\ AccountsInv /\ MessagesInv
    /\ IndexationTypeOK /\ IInv

LEMMA TypesInitially == ServicesInit => TypesInv
<1>1. ServicesInit => FetchInv /\ BansInv /\ TasksInv /\ KeyTypesInv /\ AccountsInv
  BY FetchingStarts, BansStart, TasksInitially, TimesBegin, AccountsStart DEF ServicesInit
<1>2. ServicesInit => MessagesInv
  BY MessagesStart, NothingToRead DEF ServicesInit
<1>3. ServicesInit => IndexationTypeOK
  BY IndexationStart DEF ServicesInit
<1>4. ServicesInit => IInv
  BY ConsentInit DEF ServicesInit, QuietGroup
<1> QED
  BY <1>1, <1>2, <1>3, <1>4 DEF TypesInv

LEMMA EachPartSteps ==
    [ServicesNext]_<<part, allVars>>
        => /\ [FetchingNext]_fetchingVars /\ [HostBansNext]_hostBansVars /\ [TasksNext]_tasksVars
           /\ [SessionKeysNext]_sessionKeysVars /\ [AccountsNext]_accountsVars
           /\ [MessagesNext]_messagesVars /\ [IndexationNext]_indexationVars /\ [Next]_vars
BY DEF ServicesNext, allVars

LEMMA TypesGoOn == TypesInv /\ [ServicesNext]_<<part, allVars>> => TypesInv'
<1> SUFFICES ASSUME TypesInv, [ServicesNext]_<<part, allVars>> PROVE TypesInv'
  OBVIOUS
<1>1. FetchInv' /\ BansInv' /\ TasksInv' /\ KeyTypesInv'
  BY EachPartSteps, FetchingGoesOn, BansGoOn, TasksStep, TimesGoOn DEF TypesInv
<1>2. AccountsInv' /\ MessagesInv' /\ IndexationTypeOK' /\ IInv'
  BY EachPartSteps, AccountsGoOn, MessagesGoOn, IndexationGoesOn, ConsentStep DEF TypesInv
<1> QED
  BY <1>1, <1>2 DEF TypesInv

LEMMA TypesFollow == TypesInv => ServicesTypeOK
BY TimesAreTypes DEF TypesInv, ServicesTypeOK, FetchInv, BansInv, TasksInv, AccountsInv,
                     MessagesInv, IInv

\* Whichever of the services takes the steps, each keeps the shape of its state, from any
\* of the states that the runs start from
THEOREM ServicesTypeCorrectness == ServicesSpec => []ServicesTypeOK
BY TypesInitially, TypesGoOn, TypesFollow, PTL DEF ServicesSpec

===============================================================================
