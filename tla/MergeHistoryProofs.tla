-------------------------- MODULE MergeHistoryProofs --------------------------
(***************************************************************************)
(* Reverting a merge gives back the document as the merge found it, for    *)
(* any number of entities, requests in flight, failures and restarts: what *)
(* the patches of a merge and of its revert record of the document, and    *)
(* what every other operation leaves of them.                              *)
(***************************************************************************)
EXTENDS EntitiesProofs

-----------------------------------------------------------------------------
(* What patches make of the document they were made from, and how they are undone *)

\* A patch turns what it was made from into what it was made for
LEMMA PatchedContent ==
    ASSUME NEW e \in Ids, NEW p, p.before \in ContentsOf(e), p.after \in ContentsOf(e),
           NEW s, content(s) = content(p.before), NEW d \in patchDoc(p, s)
    PROVE  /\ content(d) = content(p.after)
           /\ d.type \in patchValue(p.before.type, p.after.type, s.type, "none")
<1> DEFINE b == p.before
           a == p.after
           types == patchValue(b.type, a.type, s.type, "none")
           labels == patchLabels(b.labels, a.labels, s.labels)
           authors == patchAuthors(b.authors, a.authors, s.authors)
<1>1. s.labels = b.labels /\ s.authors = b.authors /\ s.redirect = b.redirect
  BY DEF content
<1>2. labels = {a.labels}
  BY <1>1 DEF patchLabels, ContentsOf, Contents
<1>3. authors = {a.authors}
  BY <1>1 DEF patchAuthors
<1>4. CASE isRedirection(a) # isRedirection(b)
  <2>1. PICK t \in types : d = [a EXCEPT !.type = t]
    BY <1>4 DEF patchDoc
  <2>2. a = [type |-> a.type, labels |-> a.labels, authors |-> a.authors,
             redirect |-> a.redirect]
    BY DEF ContentsOf, Contents
  <2> HIDE DEF types, a
  <2>3. d.type = t /\ d.labels = a.labels /\ d.authors = a.authors /\ d.redirect = a.redirect
    BY <2>1, <2>2
  <2> QED
    BY <2>3 DEF content, types, a
<1>5. CASE isRedirection(a) = isRedirection(b)
  <2>1. ~(isRedirection(s) /\ content(a) # content(b))
    BY <1>5 DEF patchDoc
  <2>2. d \in [type : types, labels : labels, authors : authors, redirect : {s.redirect}]
    BY <1>5, <2>1 DEF patchDoc
  <2> HIDE DEF types
  <2>3. d.type \in types /\ d.labels = a.labels /\ d.authors = a.authors
        /\ d.redirect = s.redirect
    BY <1>2, <1>3, <2>2
  <2>4. a.redirect = b.redirect
    <3>1. CASE isRedirection(s)
      BY <2>1, <3>1 DEF content
    <3>2. CASE ~isRedirection(s)
      <4>1. b.redirect = NoUri /\ a.redirect = NoUri
        BY <1>1, <1>5, <3>2 DEF isRedirection
      <4> QED
        BY <4>1
    <3> QED
      BY <3>1, <3>2
  <2> QED
    BY <1>1, <2>3, <2>4 DEF content, types
<1> QED
  BY <1>4, <1>5

\* Undone on the list it has made, a patch of authors gives the one it was made from
Undoes(p) ==
    /\ p.before.redirect = p.after.redirect
    /\ revertAuthors(p.before.authors, p.after.authors, p.after.authors)
         \subseteq {p.before.authors}

LEMMA RevertedContent ==
    ASSUME NEW p, p.before \in Contents, p.after \in Contents, Undoes(p),
           NEW d \in Docs, content(d) = content(p.after), NEW new \in revertPatch(d, p)
    PROVE  /\ content(new) = content(p.before)
           /\ new.type = d.type /\ new \in Docs
<1>1. d.labels = p.after.labels /\ d.authors = p.after.authors /\ d.redirect = p.after.redirect
  BY DEF content
<1>2. PICK la \in patchLabels(p.after.labels, p.before.labels, d.labels) \X
                  revertAuthors(p.before.authors, p.after.authors, d.authors) :
          new = [d EXCEPT !.labels = la[1], !.authors = la[2]]
  BY DEF revertPatch
<1>3. la[1] = p.before.labels
  BY <1>1 DEF patchLabels, Contents
<1>4. la[2] = p.before.authors
  BY <1>1 DEF Undoes
<1>5. p.before.labels \in SUBSET Labels /\ p.before.authors \in Seq(Authors)
  BY DEF Contents
<1>6. new = [d EXCEPT !.labels = p.before.labels, !.authors = p.before.authors]
  BY <1>2, <1>3, <1>4
<1>7. /\ new \in Docs /\ new.labels = p.before.labels /\ new.authors = p.before.authors
      /\ new.redirect = d.redirect /\ new.type = d.type
  BY <1>5, <1>6 DEF Docs
<1> QED
  BY <1>1, <1>7 DEF content, Undoes

\* The history has a patch for each version, and of an entity that was never removed or restored
Whole(e) == \A v \in 2..docs[e].version : \E p \in written(e) : p.version = v
Pure(e) == \A p \in written(e) : p.before.type = "entity" /\ p.after.type = "entity"

\* Where no patch is missing, what the history tells is what the entity was, but for its type:
\* it tells nothing any more once the type has changed
LEMMA SnapshotsFollow ==
    ASSUME NEW e \in Ids, EntityOK(e), Whole(e), written(e) = patches[e],
           NEW v \in 2..docs[e].version, NEW d \in addSnapshots(e)[v]
    PROVE  /\ d.type = "none"
           /\ \A p \in patches[e] : p.version = v => content(d) = content(p.after)
           /\ \A p \in patches[e] :
                p.version <= v => p.before.type = "entity" /\ p.after.type = "entity"
<1> DEFINE last == docs[e].version
           Told(n) == \A c \in addSnapshots(e)[n] :
               /\ c.type = "none"
               /\ \A p \in patches[e] : p.version = n => content(c) = content(p.after)
               /\ \A p \in patches[e] :
                    p.version <= n => p.before.type = "entity" /\ p.after.type = "entity"
           T == {n \in Nat : n + 2 <= last => Told(n + 2)}
<1>1. last \in Nat /\ last >= 2
  BY DEF EntityOK, Docs
<1>2. \A p \in patches[e] : /\ p.before \in ContentsOf(e) /\ p.after \in ContentsOf(e)
                            /\ p.version \in 2..last
  BY DEF EntityOK, Patches, ContentsOf, Follow
<1>3. \A p, q \in patches[e] : /\ q.version = p.version + 1 => q.before = p.after
                               /\ q.version = p.version => q = p
  BY DEF EntityOK, Follow
<1>4. /\ addSnapshots(e)[1] = {blank}
      /\ \A n \in 2..last : addSnapshots(e)[n] = replay(e, n, addSnapshots(e)[n - 1])
  BY SnapshotsType
<1>5. ASSUME NEW n \in 2..last, NEW p \in patches[e], p.version = n, p.before.type = "entity",
             NEW D, \A s \in D : s.type = "none" /\ content(s) = content(p.before),
             NEW c \in replay(e, n, D)
      PROVE  /\ c.type = "none" /\ content(c) = content(p.after) /\ p.after.type = "entity"
             /\ D # {}
  <2>1. posted(e, n) = {p}
    BY <1>3, <1>5 DEF posted
  <2>2. PICK s \in D : c \in patchDoc(p, s)
    BY <2>1, <1>5 DEF replay
  <2>3. /\ content(c) = content(p.after)
        /\ c.type \in patchValue("entity", p.after.type, "none", "none")
    BY <1>2, <1>5, <2>2, PatchedContent
  <2> QED
    BY <2>2, <2>3 DEF patchValue
<1>6. 0 \in T
  <2>1. PICK p \in patches[e] : Creation(p)
    BY DEF EntityOK, Follow
  <2>2. p.version = 2 /\ p.before.type = "entity" /\ content(p.before) = content(blank)
    BY <2>1 DEF Creation, versionned, NoDoc, documentOf, create, blank, content
  <2>3. \A s \in {blank} : s.type = "none" /\ content(s) = content(p.before)
    <3>1. blank.type = "none"
      BY DEF blank
    <3> QED
      BY <2>2, <3>1
  <2>4. 2 \in 2..last /\ addSnapshots(e)[2] = replay(e, 2, {blank})
    <3>1. 2 \in 2..last /\ 2 - 1 = 1
      BY <1>1
    <3> QED
      BY <1>4, <3>1
  <2>5. \A q \in patches[e] : q.version <= 2 => q = p
    BY <1>2, <1>3, <2>2
  <2>6. Told(2)
    <3> SUFFICES ASSUME NEW c \in addSnapshots(e)[2]
                 PROVE  c.type = "none" /\ content(c) = content(p.after)
                        /\ p.after.type = "entity"
      BY <2>2, <2>5
    <3> QED
      BY <1>5, <2>2, <2>3, <2>4
  <2> HIDE DEF Told
  <2> QED
    BY <2>6
<1>7. ASSUME NEW n \in Nat, n \in T PROVE n + 1 \in T
  <2> SUFFICES ASSUME n + 3 <= last PROVE Told(n + 3)
    <3> HIDE DEF Told
    <3> QED
      OBVIOUS
  <2>1. /\ n + 2 \in 2..last /\ n + 3 \in 2..last /\ n + 3 - 1 = n + 2 /\ n + 2 <= last
        /\ n + 3 = n + 2 + 1
    BY <1>1
  <2>2. Told(n + 2)
    <3> HIDE DEF Told
    <3> QED
      BY <1>7, <2>1
  <2>3. PICK p \in patches[e] : p.version = n + 3
    BY <2>1 DEF Whole
  <2>4. PICK q \in patches[e] : q.version = n + 2
    BY <2>1 DEF Whole
  <2>5. p.before = q.after
    BY <1>3, <2>1, <2>3, <2>4
  <2> SUFFICES ASSUME NEW c \in addSnapshots(e)[n + 3]
               PROVE  /\ c.type = "none" /\ content(c) = content(p.after)
                      /\ \A x \in patches[e] : x.version <= n + 3 =>
                            x.before.type = "entity" /\ x.after.type = "entity"
    BY <1>3, <2>3
  <2>6. c \in replay(e, n + 3, addSnapshots(e)[n + 2])
    BY <1>4, <2>1
  <2>7. \A s \in addSnapshots(e)[n + 2] : /\ s.type = "none"
                                          /\ content(s) = content(p.before)
                                          /\ q.after.type = "entity"
    BY <2>2, <2>4, <2>5
  <2>8. addSnapshots(e)[n + 2] # {}
    <3>1. posted(e, n + 3) = {p}
      BY <1>3, <2>3 DEF posted
    <3> QED
      BY <2>6, <3>1 DEF replay
  <2>9. c.type = "none" /\ content(c) = content(p.after) /\ p.after.type = "entity"
    BY <1>5, <2>1, <2>3, <2>5, <2>6, <2>7, <2>8
  <2>10. p.before.type = "entity"
    BY <2>5, <2>7, <2>8
  <2>11. \A x \in patches[e] : x.version <= n + 2 =>
             x.before.type = "entity" /\ x.after.type = "entity"
    BY <2>2, <2>8
  <2>12. \A x \in patches[e] : x.version <= n + 3 => x.version <= n + 2 \/ x = p
    BY <1>2, <1>3, <2>3
  <2> QED
    BY <2>9, <2>10, <2>11, <2>12
<1>8. v - 2 \in T /\ v - 2 + 2 = v /\ v <= last
  <2>1. Nat \subseteq T
    <3> HIDE DEF T
    <3> QED
      BY <1>6, <1>7, ByInduction
  <2> HIDE DEF T
  <2> QED
    BY <1>1, <2>1
<1>9. Told(v)
  <2> HIDE DEF Told
  <2> QED
    BY <1>8
<1> QED
  BY <1>9

\* The version to restore is one the entity had, and if its last patch made it a redirection, it
\* is the version that this patch was made from
LEMMA VersionBeforeMerge ==
    ASSUME NEW e \in Ids, EntityOK(e), Whole(e), written(e) = patches[e],
           NEW c \in findVersionBeforeRedirect(e)
    PROVE  /\ c.type = "none" /\ Pure(e) /\ isRedirection(docs[e])
           /\ \E p \in patches[e] : content(c) = content(p.after)
           /\ \A p \in patches[e] : p.version = docs[e].version /\ p.before.redirect = NoUri
                => content(c) = content(p.before)
<1> DEFINE last == docs[e].version
           before == {v \in 2..last : \E d \in addSnapshots(e)[v] : ~isRedirection(d)}
<1>1. last \in Nat /\ last >= 2
  BY DEF EntityOK, Docs
<1>2. PICK d0 \in addSnapshots(e)[last] : isRedirection(d0)
  BY DEF findVersionBeforeRedirect
<1>3. c \in addSnapshots(e)[Max(before)]
  BY DEF findVersionBeforeRedirect
<1>4. /\ 2 \in before /\ before \subseteq 0..last
      /\ \A v \in 2..last : addSnapshots(e)[v] = replay(e, v, addSnapshots(e)[v - 1])
  BY <1>1, SnapshotsType
<1>5. Max(before) \in before /\ \A v \in before : Max(before) >= v
  <2> HIDE DEF before
  <2> QED
    BY <1>1, <1>4, Greatest
<1> DEFINE m == Max(before)
<1>6. m \in 2..last
  BY <1>5
<1> HIDE DEF m
<1>7. PICK q \in patches[e] : q.version = m
  BY <1>6 DEF Whole
<1>8. c.type = "none" /\ content(c) = content(q.after)
  BY <1>3, <1>6, <1>7, SnapshotsFollow DEF m
<1>9. Pure(e)
  <2>1. last \in 2..last /\ \A p \in patches[e] : p.version <= last
    BY <1>1 DEF EntityOK, Follow
  <2>2. \A p \in patches[e] : p.before.type = "entity" /\ p.after.type = "entity"
    BY <1>2, <2>1, SnapshotsFollow
  <2> QED
    BY <2>2 DEF Pure
<1>10. ASSUME NEW p \in patches[e], p.version = last, p.before.redirect = NoUri
       PROVE  content(c) = content(p.before)
  <2>1. \A d \in addSnapshots(e)[last] : content(d) = content(p.after)
    BY <1>1, <1>10, SnapshotsFollow
  <2>2. \A d \in addSnapshots(e)[last] : isRedirection(d)
    BY <1>2, <2>1 DEF content, isRedirection
  <2>3. last \notin before /\ last - 1 \in 2..last /\ last = last - 1 + 1
    BY <1>1, <1>4, <2>2
  <2>4. PICK x \in patches[e] : x.version = last - 1
    BY <2>3 DEF Whole
  <2>5. p.before = x.after
    BY <1>10, <2>3, <2>4 DEF EntityOK, Follow
  <2>6. addSnapshots(e)[last - 1] # {}
    <3>1. addSnapshots(e)[last] = replay(e, last, addSnapshots(e)[last - 1])
      BY <1>1, <1>4
    <3>2. p \in posted(e, last)
      BY <1>10 DEF posted
    <3> QED
      BY <1>2, <3>1, <3>2 DEF replay
  <2>7. \A d \in addSnapshots(e)[last - 1] : content(d) = content(p.before)
    BY <2>3, <2>4, <2>5, SnapshotsFollow
  <2>8. last - 1 \in before
    BY <1>10, <2>3, <2>6, <2>7 DEF content, isRedirection
  <2>9. m = last - 1
    <3>1. m \in before /\ m >= last - 1
      BY <1>5, <2>8 DEF m
    <3>2. m # last
      BY <2>3, <3>1
    <3> HIDE DEF before
    <3> QED
      BY <1>1, <1>6, <3>1, <3>2
  <2> QED
    BY <1>3, <2>7, <2>9 DEF m
<1>11. isRedirection(docs[e])
  <2>1. last \in 2..last
    BY <1>1
  <2>2. PICK p \in patches[e] : p.version = last
    BY <2>1 DEF Whole
  <2>3. content(d0) = content(p.after)
    BY <1>2, <2>1, <2>2, SnapshotsFollow
  <2>4. p.after = versionned(docs[e])
    BY <2>2 DEF EntityOK, Follow
  <2> QED
    BY <1>2, <2>3, <2>4 DEF content, versionned, isRedirection
<1> QED
  BY <1>7, <1>8, <1>9, <1>10, <1>11

-----------------------------------------------------------------------------
(* Claims that occur once *)

Once(v, s) == \A k, n \in DOMAIN s : s[k] = v /\ s[n] = v => k = n

LEMMA Concatenation ==
    ASSUME NEW S, NEW s \in Seq(S), NEW t \in Seq(S)
    PROVE  /\ s \o t \in Seq(S) /\ Len(s \o t) = Len(s) + Len(t)
           /\ \A n \in 1..Len(s) : (s \o t)[n] = s[n]
           /\ \A n \in 1..Len(t) : (s \o t)[Len(s) + n] = t[n]
OBVIOUS

LEMMA RemoveAtValues ==
    ASSUME NEW S, NEW s \in Seq(S), NEW i \in 1..Len(s)
    PROVE  /\ RemoveAt(s, i) \in Seq(S) /\ Len(RemoveAt(s, i)) = Len(s) - 1
           /\ \A n \in 1..(Len(s) - 1) : RemoveAt(s, i)[n] = IF n < i THEN s[n] ELSE s[n + 1]
<1> DEFINE A == SubSeq(s, 1, i - 1)
           B == SubSeq(s, i + 1, Len(s))
<1>1. A \in Seq(S) /\ Len(A) = i - 1 /\ \A n \in 1..(i - 1) : A[n] = s[n]
  OBVIOUS
<1>2. B \in Seq(S) /\ Len(B) = Len(s) - i /\ \A n \in 1..(Len(s) - i) : B[n] = s[i + n]
  OBVIOUS
<1>3. RemoveAt(s, i) = A \o B
  BY DEF RemoveAt
<1> HIDE DEF A, B
<1>4. /\ A \o B \in Seq(S) /\ Len(A \o B) = Len(s) - 1
      /\ \A n \in 1..(Len(s) - 1) :
            (A \o B)[n] = IF n <= Len(A) THEN A[n] ELSE B[n - Len(A)]
  <2>1. A \o B \in Seq(S) /\ Len(A \o B) = Len(s) - 1
    <3>1. A \o B \in Seq(S) /\ Len(A \o B) = Len(A) + Len(B)
      BY <1>1, <1>2, Concatenation
    <3>2. Len(A) + Len(B) = Len(s) - 1
      BY <1>1, <1>2
    <3> QED
      BY <3>1, <3>2
  <2>2. ASSUME NEW n \in 1..(Len(s) - 1)
        PROVE  (A \o B)[n] = IF n <= Len(A) THEN A[n] ELSE B[n - Len(A)]
    <3>1. CASE n <= Len(A)
      BY <1>1, <1>2, <3>1, Concatenation
    <3>2. CASE ~(n <= Len(A))
      <4>1. n - Len(A) \in 1..Len(B) /\ Len(A) + (n - Len(A)) = n
        BY <1>1, <1>2, <3>2
      <4>2. (A \o B)[Len(A) + (n - Len(A))] = B[n - Len(A)]
        BY <1>1, <1>2, <4>1, Concatenation
      <4> QED
        BY <3>2, <4>1, <4>2
    <3> QED
      BY <3>1, <3>2
  <2> QED
    BY <2>1, <2>2
<1>5. ASSUME NEW n \in 1..(Len(s) - 1)
      PROVE  (A \o B)[n] = IF n < i THEN s[n] ELSE s[n + 1]
  <2>1. CASE n < i
    BY <1>1, <1>4, <2>1
  <2>2. CASE ~(n < i)
    <3>1. n - (i - 1) \in 1..(Len(s) - i) /\ i + (n - (i - 1)) = n + 1 /\ ~(n <= i - 1)
      BY <2>2
    <3> QED
      BY <1>1, <1>2, <1>4, <2>2, <3>1
  <2> QED
    BY <2>1, <2>2
<1> QED
  BY <1>3, <1>4, <1>5

LEMMA InsertAtValues ==
    ASSUME NEW S, NEW s \in Seq(S), NEW i \in 1..(Len(s) + 1), NEW v \in S
    PROVE  /\ InsertAt(s, i, v) \in Seq(S) /\ Len(InsertAt(s, i, v)) = Len(s) + 1
           /\ \A n \in 1..(Len(s) + 1) :
                InsertAt(s, i, v)[n] = IF n < i THEN s[n] ELSE IF n = i THEN v ELSE s[n - 1]
<1> DEFINE A == SubSeq(s, 1, i - 1)
           B == SubSeq(s, i, Len(s))
           AV == A \o <<v>>
<1>1. A \in Seq(S) /\ Len(A) = i - 1 /\ \A n \in 1..(i - 1) : A[n] = s[n]
  OBVIOUS
<1>2. /\ B \in Seq(S) /\ Len(B) = Len(s) - i + 1
      /\ \A n \in 1..(Len(s) - i + 1) : B[n] = s[i + n - 1]
  OBVIOUS
<1>3. InsertAt(s, i, v) = AV \o B
  BY DEF InsertAt
<1> HIDE DEF A, B
<1>4. /\ AV \in Seq(S) /\ Len(AV) = i /\ AV[i] = v
      /\ \A n \in 1..(i - 1) : AV[n] = s[n]
  BY <1>1
<1> HIDE DEF AV
<1>5. /\ AV \o B \in Seq(S) /\ Len(AV \o B) = Len(s) + 1
      /\ \A n \in 1..(Len(s) + 1) :
            (AV \o B)[n] = IF n <= Len(AV) THEN AV[n] ELSE B[n - Len(AV)]
  BY <1>2, <1>4
<1>6. ASSUME NEW n \in 1..(Len(s) + 1)
      PROVE  (AV \o B)[n] = IF n < i THEN s[n] ELSE IF n = i THEN v ELSE s[n - 1]
  <2>1. CASE n <= i
    BY <1>4, <1>5, <2>1
  <2>2. CASE ~(n <= i)
    <3>1. n - i \in 1..(Len(s) - i + 1) /\ i + (n - i) - 1 = n - 1 /\ ~(n <= i)
      BY <2>2
    <3> QED
      BY <1>2, <1>4, <1>5, <2>2, <3>1
  <2> QED
    BY <2>1, <2>2
<1> QED
  BY <1>3, <1>5, <1>6

LEMMA SameSequence ==
    ASSUME NEW S, NEW s \in Seq(S), NEW t \in Seq(S), Len(s) = Len(t),
           \A n \in 1..Len(s) : s[n] = t[n]
    PROVE  s = t
OBVIOUS

LEMMA OnceRemoved ==
    ASSUME NEW S, NEW s \in Seq(S), NEW i \in 1..Len(s), NEW v, Once(v, s)
    PROVE  Once(v, RemoveAt(s, i))
<1> DEFINE t == RemoveAt(s, i)
<1>1. /\ t \in Seq(S) /\ Len(t) = Len(s) - 1
      /\ \A n \in 1..(Len(s) - 1) : t[n] = IF n < i THEN s[n] ELSE s[n + 1]
  BY RemoveAtValues
<1> HIDE DEF t
<1> SUFFICES ASSUME NEW k \in 1..Len(t), NEW n \in 1..Len(t), t[k] = v, t[n] = v PROVE k = n
  BY <1>1 DEF Once, t
<1> DEFINE from(m) == IF m < i THEN m ELSE m + 1
<1>2. from(k) \in 1..Len(s) /\ from(n) \in 1..Len(s) /\ s[from(k)] = v /\ s[from(n)] = v
  BY <1>1
<1>3. from(k) = from(n)
  <2> HIDE DEF from
  <2> QED
    BY <1>2 DEF Once
<1> QED
  BY <1>1, <1>3

LEMMA OnceInserted ==
    ASSUME NEW S, NEW s \in Seq(S), NEW i \in 1..(Len(s) + 1), NEW w \in S, NEW v, v # w,
           Once(v, s)
    PROVE  Once(v, InsertAt(s, i, w))
<1> DEFINE t == InsertAt(s, i, w)
<1>1. /\ t \in Seq(S) /\ Len(t) = Len(s) + 1
      /\ \A n \in 1..(Len(s) + 1) :
            t[n] = IF n < i THEN s[n] ELSE IF n = i THEN w ELSE s[n - 1]
  BY InsertAtValues
<1> HIDE DEF t
<1> SUFFICES ASSUME NEW k \in 1..Len(t), NEW n \in 1..Len(t), t[k] = v, t[n] = v PROVE k = n
  BY <1>1 DEF Once, t
<1> DEFINE from(m) == IF m < i THEN m ELSE m - 1
<1>2. k # i /\ n # i
  BY <1>1
<1>3. from(k) \in 1..Len(s) /\ from(n) \in 1..Len(s) /\ s[from(k)] = v /\ s[from(n)] = v
  BY <1>1, <1>2
<1>4. from(k) = from(n)
  <2> HIDE DEF from
  <2> QED
    BY <1>3 DEF Once
<1> QED
  BY <1>1, <1>2, <1>4

\* Before the first occurrence of what is left out everything stays where it is
LEMMA withoutPrefix ==
    ASSUME NEW S, NEW s \in Seq(S), NEW v, NEW q \in 0..Len(s), \A m \in 1..q : s[m] # v
    PROVE  /\ without(s, v) \in Seq(S) /\ Len(without(s, v)) \in q..Len(s)
           /\ \A m \in 1..q : without(s, v)[m] = s[m]
           /\ \A w : Once(w, s) => Once(w, without(s, v))
<1>1. PICK kept : Keeps(kept, s, v) /\ without(s, v) = kept[Len(s)]
  BY withoutKeeps
<1> DEFINE N == Len(s)
           least(n) == IF n < q THEN n ELSE q
           From(n) == \A k \in 1..Len(kept[n]) : \E m \in 1..n : s[m] = kept[n][k]
           Good(n) == /\ kept[n] \in Seq(S) /\ Len(kept[n]) \in least(n)..n
                      /\ \A m \in 1..least(n) : kept[n][m] = s[m]
                      /\ From(n)
                      /\ \A w : Once(w, s) => Once(w, kept[n])
           T == {n \in Nat : n <= N => Good(n)}
<1>2. 0 \in T
  <2>1. kept[0] = <<>>
    BY <1>1 DEF Keeps
  <2>2. Once(v, <<>>) /\ \A w : Once(w, <<>>)
    BY DEF Once
  <2>3. <<>> \in Seq(S) /\ Len(<<>>) = 0 /\ least(0) = 0
    OBVIOUS
  <2>4. From(0)
    BY <2>1, <2>3
  <2>5. Len(kept[0]) \in least(0)..0 /\ \A m \in 1..least(0) : kept[0][m] = s[m]
    BY <2>1, <2>3
  <2> HIDE DEF From, least
  <2>6. Good(0)
    BY <2>1, <2>2, <2>3, <2>4, <2>5
  <2> HIDE DEF Good
  <2> QED
    BY <2>6
<1>3. ASSUME NEW n \in Nat, n \in T PROVE n + 1 \in T
  <2> SUFFICES ASSUME n + 1 <= N PROVE Good(n + 1)
    OBVIOUS
  <2>1. Good(n)
    <3>1. n <= N
      OBVIOUS
    <3> HIDE DEF Good
    <3> QED
      BY <1>3, <3>1
  <2> DEFINE x == s[n + 1]
             k == kept[n]
  <2>2. kept[n + 1] = IF x = v THEN k ELSE Append(k, x)
    BY <1>1 DEF Keeps
  <2>3. x \in S /\ k \in Seq(S)
    BY <2>1
  <2>4. CASE x = v
    <3>1. ~(n + 1 <= q)
      BY <2>4
    <3>2. least(n + 1) = least(n)
      BY <3>1
    <3>3. From(n + 1)
      <4>1. From(n) /\ kept[n + 1] = kept[n]
        BY <2>1, <2>2, <2>4
      <4>2. \A m \in 1..n : m \in 1..(n + 1)
        OBVIOUS
      <4> QED
        BY <4>1, <4>2
    <3> QED
      BY <2>1, <2>2, <2>4, <3>2, <3>3
  <2>5. CASE x # v
    <3>1. kept[n + 1] = Append(k, x)
      BY <2>2, <2>5
    <3> DEFINE l == kept[n + 1]
    <3>2. /\ l \in Seq(S) /\ Len(l) = Len(k) + 1 /\ l[Len(k) + 1] = x
          /\ \A m \in 1..Len(k) : l[m] = k[m]
      BY <2>3, <3>1
    <3>3. Len(k) \in least(n)..n /\ \A m \in 1..least(n) : k[m] = s[m]
      BY <2>1
    <3>4. Len(l) \in least(n + 1)..(n + 1)
      BY <3>2, <3>3
    <3>5. ASSUME NEW m \in 1..least(n + 1) PROVE l[m] = s[m]
      <4>1. CASE m <= least(n)
        BY <3>2, <3>3, <4>1
      <4>2. CASE m > least(n)
        <5>1. n < q /\ m = n + 1 /\ Len(k) = n
          BY <3>3, <4>2
        <5> QED
          BY <3>2, <5>1
      <4> QED
        BY <4>1, <4>2
    <3>6. From(n + 1)
      <4> SUFFICES ASSUME NEW h \in 1..Len(l) PROVE \E m \in 1..(n + 1) : s[m] = l[h]
        OBVIOUS
      <4>1. CASE h <= Len(k)
        <5>1. \E m \in 1..n : s[m] = k[h]
          BY <2>1, <2>3, <3>2, <4>1
        <5> QED
          BY <2>3, <3>2, <4>1, <5>1
      <4>2. CASE h > Len(k)
        BY <2>3, <3>2, <4>2
      <4> QED
        BY <2>3, <3>2, <4>1, <4>2
    <3>7. ASSUME NEW w, Once(w, s) PROVE Once(w, l)
      <4>1. Once(w, k) /\ From(n)
        BY <2>1, <3>7
      <4> SUFFICES ASSUME NEW g \in 1..Len(l), NEW h \in 1..Len(l), l[g] = w, l[h] = w
                   PROVE  g = h
        BY <3>2 DEF Once
      <4>2. ASSUME w = x PROVE \A m \in 1..Len(k) : k[m] # w
        <5> SUFFICES ASSUME NEW m \in 1..Len(k), k[m] = w PROVE FALSE
          OBVIOUS
        <5>1. PICK y \in 1..n : s[y] = w
          BY <4>1
        <5> QED
          BY <3>7, <4>2, <5>1 DEF Once
      <4>3. CASE g <= Len(k) /\ h <= Len(k)
        <5>1. g \in DOMAIN k /\ h \in DOMAIN k /\ k[g] = w /\ k[h] = w
          BY <2>3, <3>2, <4>3
        <5> QED
          BY <4>1, <5>1 DEF Once
      <4>4. CASE g > Len(k) \/ h > Len(k)
        <5>1. w = x
          BY <2>3, <3>2, <4>4
        <5>2. ~(g <= Len(k)) /\ ~(h <= Len(k))
          BY <2>3, <3>2, <4>2, <5>1
        <5> QED
          BY <2>3, <3>2, <5>2
      <4> QED
        BY <2>3, <4>3, <4>4
    <3> HIDE DEF From, least
    <3> QED
      BY <3>2, <3>4, <3>5, <3>6, <3>7
  <2> QED
    BY <2>4, <2>5
<1>4. Good(N)
  <2>1. N \in T
    <3>1. N \in Nat
      OBVIOUS
    <3> HIDE DEF T
    <3> QED
      BY <1>2, <1>3, <3>1, ByInduction
  <2>2. N \in Nat /\ N <= N
    OBVIOUS
  <2> HIDE DEF Good
  <2> QED
    BY <2>1, <2>2
<1>5. least(N) = q
  OBVIOUS
<1> HIDE DEF From, least
<1> QED
  BY <1>1, <1>4, <1>5

LEMMA withoutOnce ==
    ASSUME NEW S, NEW s \in Seq(S), NEW i \in 1..Len(s), NEW v, s[i] = v, Once(v, s)
    PROVE  without(s, v) = RemoveAt(s, i)
<1>1. PICK kept : Keeps(kept, s, v) /\ without(s, v) = kept[Len(s)]
  BY withoutKeeps
<1> DEFINE N == Len(s)
           t == RemoveAt(s, i)
           long(n) == IF n < i THEN n ELSE n - 1
           Good(n) == /\ kept[n] \in Seq(S) /\ Len(kept[n]) = long(n)
                      /\ \A m \in 1..long(n) : kept[n][m] = t[m]
           T == {n \in Nat : n <= N => Good(n)}
<1>2. /\ t \in Seq(S) /\ Len(t) = N - 1
      /\ \A n \in 1..(N - 1) : t[n] = IF n < i THEN s[n] ELSE s[n + 1]
  BY RemoveAtValues
<1> HIDE DEF t
<1>3. 0 \in T
  <2>1. kept[0] = <<>> /\ <<>> \in Seq(S) /\ Len(<<>>) = 0 /\ long(0) = 0
    BY <1>1 DEF Keeps
  <2>2. Len(kept[0]) = long(0) /\ \A m \in 1..long(0) : kept[0][m] = t[m]
    BY <2>1
  <2>3. kept[0] \in Seq(S)
    BY <2>1
  <2> HIDE DEF long
  <2>4. Good(0)
    BY <2>2, <2>3
  <2> HIDE DEF Good
  <2> QED
    BY <2>4
<1>4. ASSUME NEW n \in Nat, n \in T PROVE n + 1 \in T
  <2> SUFFICES ASSUME n + 1 <= N PROVE Good(n + 1)
    OBVIOUS
  <2>1. Good(n)
    <3>1. n <= N
      OBVIOUS
    <3> HIDE DEF Good
    <3> QED
      BY <1>4, <3>1
  <2> DEFINE x == s[n + 1]
             k == kept[n]
  <2>2. kept[n + 1] = IF x = v THEN k ELSE Append(k, x)
    BY <1>1 DEF Keeps
  <2>3. x \in S /\ k \in Seq(S)
    BY <2>1
  <2>4. x = v <=> n + 1 = i
    BY DEF Once
  <2>5. CASE x = v
    BY <2>1, <2>2, <2>4, <2>5
  <2>6. CASE x # v
    <3>1. kept[n + 1] = Append(k, x)
      BY <2>2, <2>6
    <3> DEFINE l == kept[n + 1]
    <3>2. /\ l \in Seq(S) /\ Len(l) = Len(k) + 1 /\ l[Len(k) + 1] = x
          /\ \A m \in 1..Len(k) : l[m] = k[m]
      BY <2>3, <3>1
    <3>3. Len(k) = long(n) /\ long(n + 1) = long(n) + 1
      BY <2>1, <2>4, <2>6
    <3>4. t[long(n) + 1] = x
      BY <1>2, <2>4, <2>6
    <3>5. \A m \in 1..long(n) : k[m] = t[m]
      BY <2>1
    <3>6. long(n) \in Nat
      OBVIOUS
    <3> HIDE DEF long, l, x, k
    <3> QED
      BY <3>2, <3>3, <3>4, <3>5, <3>6 DEF l
  <2> QED
    BY <2>5, <2>6
<1>5. Good(N)
  <2>1. N \in T
    <3>1. N \in Nat
      OBVIOUS
    <3> HIDE DEF T
    <3> QED
      BY <1>3, <1>4, <3>1, ByInduction
  <2>2. N \in Nat /\ N <= N
    OBVIOUS
  <2> HIDE DEF Good
  <2> QED
    BY <2>1, <2>2
<1>6. long(N) = N - 1
  OBVIOUS
<1> HIDE DEF long
<1>7. without(s, v) \in Seq(S) /\ Len(without(s, v)) = Len(t)
      /\ \A m \in 1..Len(t) : without(s, v)[m] = t[m]
  BY <1>1, <1>2, <1>5, <1>6
<1> QED
  BY <1>2, <1>7, SameSequence DEF t

\* What a merge does to authors: the first author of the other work where there is none, and
\* claims on the merged entity that are given up, the first one where the lists start to differ
TakesFirst(b, a) == a = b \/ (b = <<>> /\ Len(a) = 1)
GivesUp(b, a, v) == a # <<>> /\ a # b /\ Len(a) <= Len(b) /\ b[diffAt(b, a)] = v

LEMMA diffAtFirst ==
    ASSUME NEW S, NEW a \in Seq(S), NEW b \in Seq(S), NEW i \in 1..Len(b),
           \A k \in 1..(i - 1) : k <= Len(a) /\ b[k] = a[k], i > Len(a) \/ b[i] # a[i]
    PROVE  diffAt(b, a) = i
<1> DEFINE I == {k \in 1..(Len(b) + 1) : k > Len(b) \/ k > Len(a) \/ b[k] # a[k]}
<1>1. I \subseteq Nat /\ i \in I
  OBVIOUS
<1>2. diffAt(b, a) \in I /\ \A k \in I : diffAt(b, a) <= k
  BY <1>1, Least DEF diffAt
<1>3. \A k \in I : i <= k
  OBVIOUS
<1>4. diffAt(b, a) <= i /\ i <= diffAt(b, a) /\ diffAt(b, a) \in Nat /\ i \in Nat
  BY <1>1, <1>2, <1>3
<1> QED
  BY <1>4

LEMMA GivenUp ==
    ASSUME NEW S, NEW a \in Seq(S), NEW b \in Seq(S), NEW i \in 1..Len(b),
           Len(a) \in (i - 1)..Len(b), \A k \in 1..(i - 1) : b[k] = a[k],
           b[i] \notin ToSet(a), a # <<>>
    PROVE  diffAt(b, a) = i /\ GivesUp(b, a, b[i])
<1>1. i > Len(a) \/ b[i] # a[i]
  BY DEF ToSet
<1>2. \A k \in 1..(i - 1) : k <= Len(a) /\ b[k] = a[k]
  OBVIOUS
<1>3. diffAt(b, a) = i
  BY <1>1, <1>2, diffAtFirst
<1>4. a # b
  BY <1>1
<1> QED
  BY <1>3, <1>4 DEF GivesUp

\* Where the value is found first
LEMMA FirstOccurrence ==
    ASSUME NEW S, NEW s \in Seq(S), NEW v \in ToSet(s)
    PROVE  /\ indexOf(s, v) \in 1..Len(s) /\ s[indexOf(s, v)] = v
           /\ \A k \in 1..(indexOf(s, v) - 1) : s[k] # v
<1> DEFINE I == {i \in 1..Len(s) : s[i] = v}
<1>1. I # {} /\ I \subseteq Nat
  BY DEF ToSet
<1>2. Min(I) \in I /\ \A k \in I : Min(I) <= k
  BY <1>1, Least
<1>3. indexOf(s, v) = Min(I)
  BY <1>1 DEF indexOf, SelectInSeq
<1>4. ASSUME NEW k \in 1..(Min(I) - 1) PROVE s[k] # v
  BY <1>2
<1> QED
  BY <1>2, <1>3, <1>4

LEMMA ClaimReplaced ==
    ASSUME NEW S, NEW b \in Seq(S), NEW from \in ToSet(b), NEW to \in S, to \notin ToSet(b),
           NEW n, n = indexOf(b, from), NEW c, c = ReplaceAt(b, n, to)
    PROVE  /\ n \in 1..Len(b) /\ b[n] = from /\ \A k \in 1..(n - 1) : b[k] # from
           /\ c \in Seq(S) /\ Len(c) = Len(b) /\ c[n] = to
           /\ \A k \in 1..Len(b) : k # n => c[k] = b[k]
           /\ \A w : Once(w, b) => Once(w, c)
<1>1. n \in 1..Len(b) /\ b[n] = from /\ \A k \in 1..(n - 1) : b[k] # from
  BY FirstOccurrence
<1>2. /\ c \in Seq(S) /\ Len(c) = Len(b) /\ c[n] = to
      /\ \A k \in 1..Len(b) : k # n => c[k] = b[k]
  BY <1>1 DEF ReplaceAt
<1>3. \A k \in 1..Len(b) : b[k] # to
  BY DEF ToSet
<1>4. ASSUME NEW w, Once(w, b), NEW k \in 1..Len(b), NEW m \in 1..Len(b), c[k] = w, c[m] = w
      PROVE  k = m
  <2>1. CASE w = to
    BY <1>2, <1>3, <1>4, <2>1
  <2>2. CASE w # to
    <3>1. b[k] = w /\ b[m] = w
      BY <1>2, <1>4, <2>2
    <3> QED
      BY <1>4, <3>1 DEF Once
  <2> QED
    BY <2>1, <2>2
<1>5. DOMAIN c = 1..Len(b)
  BY <1>2
<1>6. \A w : Once(w, b) => Once(w, c)
  BY <1>4, <1>5 DEF Once
<1> QED
  BY <1>1, <1>2, <1>6

\* The claims of a work once those on the merged entity are redirected, all of them
LEMMA RedirectedClaims ==
    ASSUME NEW S, NEW b \in Seq(S), NEW from, NEW to, from # to, from \in S => to \in S,
           NEW a \in applyRedirections(b, Cardinality({n \in DOMAIN b : b[n] = from}), from, to)
    PROVE  /\ a \in Seq(S) /\ GivesUp(b, a, from) /\ \A w : Once(w, b) => Once(w, a)
           /\ Once(from, b) => revertAuthors(b, a, a) \subseteq {b}
<1> DEFINE rows == {k \in DOMAIN b : b[k] = from}
           n == indexOf(b, from)
           c == ReplaceAt(b, n, to)
<1>1. a \in Seq(S) /\ from \in ToSet(b) /\ from \notin ToSet(a)
  <2>1. /\ applyRedirections(b, Cardinality(rows), from, to) \subseteq Seq(S)
        /\ applyRedirections(b, Cardinality(rows), from, to) # {} => from \in ToSet(b)
    <3> DEFINE m == Cardinality(rows)
    <3> HIDE DEF m
    <3>1. /\ applyRedirections(b, m, from, to) \subseteq Seq(S)
          /\ applyRedirections(b, m, from, to) # {} => from \in ToSet(b)
      BY applyRedirectionsType
    <3> QED
      BY <3>1 DEF m
  <2>2. from \notin ToSet(a)
    BY RedirectedClaimsAreGone
  <2> QED
    BY <2>1, <2>2
<1>2. from \in S /\ to \in S
  BY <1>1 DEF ToSet
<1>3. n \in 1..Len(b) /\ b[n] = from /\ \A k \in 1..(n - 1) : b[k] # from
  BY <1>1, FirstOccurrence
<1>4. \A q : \A x \in redirectClaim(q, from, to) : to \in ToSet(q) => x = without(q, from)
  BY DEF redirectClaim
<1>5. \A q : from \notin ToSet(q) => redirectClaim(q, from, to) = {}
  BY DEF redirectClaim
<1>6. ASSUME Once(from, b) PROVE Cardinality(rows) = 1
  <2>1. rows = {n}
    BY <1>3, <1>6 DEF Once
  <2> QED
    BY <2>1, FS_Singleton
<1>7. CASE to \in ToSet(b)
  <2>1. a = without(b, from)
    <3>1. \A x \in redirectClaim(b, from, to) : from \notin ToSet(x)
      BY <1>4, <1>7, withoutType
    <3>2. a \in redirectClaim(b, from, to)
      BY <1>5, <3>1 DEF applyRedirections
    <3> QED
      BY <1>4, <1>7, <3>2
  <2>2. /\ Len(a) \in (n - 1)..Len(b) /\ \A k \in 1..(n - 1) : a[k] = b[k]
        /\ \A w : Once(w, b) => Once(w, a)
    <3>1. n - 1 \in 0..Len(b)
      BY <1>3
    <3> QED
      BY <1>3, <2>1, <3>1, withoutPrefix
  <2>3. a # <<>>
    <3>1. to \in ToSet(a)
      BY <1>7, <2>1, withoutType
    <3> QED
      BY <3>1 DEF ToSet
  <2>4. diffAt(b, a) = n /\ GivesUp(b, a, from)
    <3> HIDE DEF n
    <3> QED
      BY <1>1, <1>3, <2>2, <2>3, GivenUp
  <2>5. ASSUME Once(from, b) PROVE revertAuthors(b, a, a) \subseteq {b}
    <3>1. a = RemoveAt(b, n)
      BY <1>3, <2>1, <2>5, withoutOnce
    <3>2. /\ Len(a) = Len(b) - 1
          /\ \A k \in 1..(Len(b) - 1) : a[k] = IF k < n THEN b[k] ELSE b[k + 1]
      BY <1>3, <3>1, RemoveAtValues
    <3>3. revertAuthors(b, a, a) = add(a, n + 1 + Len(a) - Len(b), b[n])
      BY <2>3, <2>4, <3>2 DEF revertAuthors, GivesUp
    <3> HIDE DEF n
    <3>4. n + 1 + Len(a) - Len(b) = n /\ n \in 1..(Len(a) + 1)
      BY <1>3, <3>2
    <3>5. revertAuthors(b, a, a) = {InsertAt(a, n, from)}
      BY <1>3, <3>3, <3>4 DEF add
    <3>6. /\ InsertAt(a, n, from) \in Seq(S) /\ Len(InsertAt(a, n, from)) = Len(a) + 1
          /\ \A k \in 1..(Len(a) + 1) : InsertAt(a, n, from)[k]
               = IF k < n THEN a[k] ELSE IF k = n THEN from ELSE a[k - 1]
      BY <1>1, <1>2, <3>4, InsertAtValues
    <3> DEFINE d == InsertAt(a, n, from)
    <3> HIDE DEF d
    <3>7. Len(d) = Len(b) /\ d \in Seq(S)
      BY <3>2, <3>6 DEF d
    <3>8. ASSUME NEW k \in 1..Len(d) PROVE d[k] = b[k]
      <4>1. d[k] = IF k < n THEN a[k] ELSE IF k = n THEN from ELSE a[k - 1]
        BY <3>2, <3>6, <3>7 DEF d
      <4>2. CASE k < n
        BY <1>3, <3>2, <3>7, <4>1, <4>2
      <4>3. CASE k = n
        BY <1>3, <4>1, <4>3
      <4>4. CASE k > n
        <5>1. k - 1 \in 1..(Len(b) - 1) /\ ~(k - 1 < n) /\ k - 1 + 1 = k
          BY <1>3, <3>7, <4>4
        <5>2. a[k - 1] = b[k]
          BY <3>2, <5>1
        <5> QED
          BY <1>3, <4>1, <4>4, <5>2
      <4> QED
        BY <1>3, <4>2, <4>3, <4>4
    <3>9. d = b
      BY <3>7, <3>8, SameSequence
    <3> QED
      BY <3>5, <3>9 DEF d
  <2> QED
    BY <1>1, <2>2, <2>4, <2>5
<1>8. CASE to \notin ToSet(b)
  <2>1. redirectClaim(b, from, to) = {c}
    BY <1>1, <1>8 DEF redirectClaim
  <2>2. /\ c \in Seq(S) /\ Len(c) = Len(b) /\ c[n] = to
        /\ \A k \in 1..Len(b) : k # n => c[k] = b[k]
        /\ \A w : Once(w, b) => Once(w, c)
    BY <1>1, <1>2, <1>8, ClaimReplaced
  <2> HIDE DEF n, c
  <2>3. a # <<>> /\ Len(a) \in (n - 1)..Len(b) /\ (\A k \in 1..(n - 1) : a[k] = b[k])
        /\ \A w : Once(w, b) => Once(w, a)
    <3>1. CASE a = c
      BY <1>3, <2>2, <3>1
    <3>2. CASE a # c
      <4>1. a \in redirectClaim(c, from, to)
        BY <2>1, <3>2 DEF applyRedirections
      <4>2. to \in ToSet(c)
        BY <1>3, <2>2 DEF ToSet
      <4>3. a = without(c, from)
        BY <1>4, <4>1, <4>2
      <4>4. n \in 0..Len(c) /\ \A m \in 1..n : c[m] # from
        BY <1>3, <2>2
      <4>5. /\ Len(a) \in n..Len(c) /\ \A m \in 1..n : a[m] = c[m]
            /\ \A w : Once(w, c) => Once(w, a)
        BY <2>2, <4>3, <4>4, withoutPrefix
      <4> QED
        BY <1>1, <1>3, <2>2, <4>5
    <3> QED
      BY <3>1, <3>2
  <2>4. diffAt(b, a) = n /\ GivesUp(b, a, from)
    BY <1>1, <1>3, <2>3, GivenUp
  <2>5. ASSUME Once(from, b) PROVE revertAuthors(b, a, a) \subseteq {b}
    <3>1. a = c
      BY <1>6, <2>1, <2>5 DEF applyRedirections
    <3>2. \A k \in 1..Len(b) : k # n => c[k] # to
      BY <1>8, <2>2 DEF ToSet
    <3>3. indexOf(a, to) = n
      <4>1. to \in ToSet(a)
        BY <1>3, <2>2, <3>1 DEF ToSet
      <4> QED
        BY <1>1, <2>2, <3>1, <3>2, <4>1, FirstOccurrence
    <3>4. n + 1 + Len(a) - Len(b) = n + 1 /\ n + 1 \in 1..(Len(a) + 1)
      BY <1>3, <2>2, <3>1
    <3> DEFINE d == InsertAt(a, n + 1, from)
    <3>5. revertAuthors(b, a, a) = testRemove(d, n, to)
      <4>1. add(a, n + 1 + Len(a) - Len(b), b[n]) = {d}
        BY <1>3, <3>4 DEF add
      <4>2. a # b /\ a # <<>> /\ ~(Len(a) < Len(b)) /\ ~(Len(a) > Len(b))
        BY <2>2, <2>3, <2>4, <3>1 DEF GivesUp
      <4>3. a[n] = to
        BY <2>2, <3>1
      <4> HIDE DEF d
      <4>4. revertAuthors(b, a, a)
              = UNION {testRemove(l, indexOf(a, a[n]), a[n]) : l \in {d}}
        BY <2>4, <4>1, <4>2 DEF revertAuthors
      <4>5. UNION {testRemove(l, indexOf(a, a[n]), a[n]) : l \in {d}}
              = testRemove(d, indexOf(a, a[n]), a[n])
        OBVIOUS
      <4> QED
        BY <3>3, <4>3, <4>4, <4>5
    <3>6. /\ d \in Seq(S) /\ Len(d) = Len(a) + 1
          /\ \A k \in 1..(Len(a) + 1) : d[k]
               = IF k < n + 1 THEN a[k] ELSE IF k = n + 1 THEN from ELSE a[k - 1]
      <4> DEFINE m == n + 1
      <4>1. m \in 1..(Len(a) + 1) /\ d = InsertAt(a, m, from)
        BY <3>4
      <4> HIDE DEF m, d
      <4>2. /\ d \in Seq(S) /\ Len(d) = Len(a) + 1
            /\ \A k \in 1..(Len(a) + 1) :
                 d[k] = IF k < m THEN a[k] ELSE IF k = m THEN from ELSE a[k - 1]
        BY <1>1, <1>2, <4>1, InsertAtValues
      <4> QED
        BY <4>2 DEF m
    <3> HIDE DEF d
    <3> DEFINE f == RemoveAt(d, n)
    <3>7. n \in 1..Len(d)
      BY <1>3, <2>2, <3>1, <3>6
    <3>8. /\ f \in Seq(S) /\ Len(f) = Len(d) - 1
          /\ \A k \in 1..(Len(d) - 1) : f[k] = IF k < n THEN d[k] ELSE d[k + 1]
      BY <3>6, <3>7, RemoveAtValues
    <3>9. testRemove(d, n, to) \subseteq {f}
      BY DEF testRemove
    <3> HIDE DEF f
    <3>10. Len(f) = Len(b) /\ Len(d) - 1 = Len(b) /\ Len(a) = Len(b)
      BY <2>2, <3>1, <3>6, <3>8
    <3>11. ASSUME NEW k \in 1..Len(f) PROVE f[k] = b[k]
      <4>1. CASE k < n
        <5>1. f[k] = d[k] /\ d[k] = a[k]
          BY <1>3, <3>6, <3>8, <3>10, <4>1
        <5> QED
          BY <1>3, <2>3, <3>10, <4>1, <5>1
      <4>2. CASE k = n
        <5>1. f[k] = d[n + 1] /\ d[n + 1] = from
          BY <1>3, <3>4, <3>6, <3>8, <3>10, <4>2
        <5> QED
          BY <1>3, <4>2, <5>1
      <4>3. CASE k > n
        <5>1. /\ k + 1 \in 1..(Len(a) + 1) /\ k + 1 - 1 = k /\ ~(k + 1 < n + 1)
              /\ k + 1 # n + 1 /\ ~(k < n) /\ k \in 1..(Len(d) - 1) /\ k \in 1..Len(b)
          BY <1>3, <3>10, <4>3
        <5>2. f[k] = d[k + 1]
          BY <3>8, <5>1
        <5>3. d[k + 1] = a[k]
          BY <3>6, <5>1
        <5> QED
          BY <1>3, <2>2, <3>1, <4>3, <5>1, <5>2, <5>3
      <4> QED
        BY <1>3, <4>1, <4>2, <4>3
    <3>12. f = b
      BY <3>8, <3>10, <3>11, SameSequence
    <3> QED
      BY <3>5, <3>9, <3>12
  <2> QED
    BY <1>1, <2>3, <2>4, <2>5
<1> QED
  BY <1>7, <1>8

\* A first author is undone too
LEMMA FirstAuthorUndone ==
    ASSUME NEW S, NEW a \in Seq(S), NEW b \in Seq(S), TakesFirst(b, a)
    PROVE  revertAuthors(b, a, a) \subseteq {b}
<1>1. CASE a = b
  BY <1>1 DEF revertAuthors
<1>2. CASE a # b
  <2>1. b = <<>> /\ Len(b) = 0 /\ Len(a) = 1
    BY <1>2 DEF TakesFirst
  <2>2. diffAt(b, a) = 1
    <3>1. diffAt(b, a) \in 1..(Len(b) + 1)
      BY <1>2, diffAtType
    <3> QED
      BY <2>1, <3>1
  <2>3. revertAuthors(b, a, a) = testRemove(a, indexOf(a, a[1]), a[1])
    <3>1. a # <<>> /\ Len(a) > Len(b) /\ ~(Len(a) < Len(b))
      <4>1. Len(a) = 1 /\ Len(b) = 0
        BY <2>1
      <4>2. a # <<>>
        BY <1>2, <2>1
      <4> HIDE DEF TakesFirst
      <4> QED
        BY <4>1, <4>2
    <3>2. revertAuthors(b, a, a)
            = UNION {testRemove(l, indexOf(a, a[1]), a[1]) : l \in {a}}
      BY <1>2, <2>2, <3>1 DEF revertAuthors
    <3> QED
      BY <3>2
  <2>4. ASSUME NEW v \in testRemove(a, indexOf(a, a[1]), a[1]) PROVE v = b
    <3>1. indexOf(a, a[1]) \in 1..Len(a) /\ v = RemoveAt(a, indexOf(a, a[1]))
      BY <2>4 DEF testRemove
    <3>2. v \in Seq(S) /\ Len(v) = 0
      BY <2>1, <3>1, RemoveAtValues
    <3> QED
      BY <2>1, <3>2, SameSequence
  <2> QED
    BY <2>3, <2>4
<1> QED
  BY <1>1, <1>2

\* Undoing what a merge did to a list brings back no claim but those on the merged entity
LEMMA RevertedClaims ==
    ASSUME NEW S, NEW a \in Seq(S), NEW b \in Seq(S), NEW s \in Seq(S), NEW from,
           TakesFirst(b, a) \/ GivesUp(b, a, from), NEW v \in revertAuthors(b, a, s),
           NEW w, w # from, Once(w, s)
    PROVE  Once(w, v)
<1> DEFINE i == diffAt(b, a)
           place == indexOf(s, a[i])
           added == IF Len(a) > Len(b) THEN {s} ELSE add(s, i + 1 + Len(a) - Len(b), b[i])
           removed == UNION {testRemove(l, place, a[i]) : l \in added}
<1>1. CASE a = b
  BY <1>1 DEF revertAuthors
<1>2. CASE a # b
  <2>1. a # <<>> /\ (Len(a) > Len(b) \/ (b[i] = from /\ Len(a) <= Len(b)))
    BY <1>2 DEF TakesFirst, GivesUp
  <2>2. v \in added \/ v \in removed
    BY <1>2, <2>1 DEF revertAuthors
  <2>3. ASSUME NEW l \in added PROVE l \in Seq(S) /\ Once(w, l)
    <3>1. CASE Len(a) > Len(b)
      BY <2>3, <3>1
    <3>2. CASE ~(Len(a) > Len(b))
      <4>1. b[i] = from /\ Len(a) <= Len(b)
        BY <2>1, <3>2
      <4>2. i \in 1..Len(b) /\ from \in S
        <5>1. i \in 1..(Len(b) + 1) /\ i <= Len(b)
          BY <1>2, <4>1, diffAtType
        <5> HIDE DEF i
        <5>2. i \in 1..Len(b)
          BY <5>1
        <5> QED
          BY <4>1, <5>2
      <4> DEFINE k == i + 1 + Len(a) - Len(b)
      <4>3. l \in add(s, k, from)
        BY <2>3, <3>2, <4>1
      <4> HIDE DEF k
      <4>4. k \in 1..(Len(s) + 1) /\ l = InsertAt(s, k, from)
        BY <4>3 DEF add
      <4> QED
        BY <4>2, <4>4, InsertAtValues, OnceInserted
    <3> QED
      BY <3>1, <3>2
  <2>4. ASSUME v \in removed PROVE Once(w, v)
    <3> HIDE DEF place, added
    <3>1. PICK l \in added : v \in testRemove(l, place, a[i])
      BY <2>4
    <3>2. place \in 1..Len(l) /\ v = RemoveAt(l, place)
      BY <3>1 DEF testRemove
    <3> QED
      BY <2>3, <3>2, OnceRemoved
  <2> HIDE DEF added, removed
  <2> QED
    BY <2>2, <2>3, <2>4
<1> QED
  BY <1>1, <1>2

-----------------------------------------------------------------------------
(* What the history tells of merges, where no request fails or overlaps another *)

ctx(e) == {<<"mergeFrom", e>>, <<"redirectClaims", e>>}

\* An entity that was never removed or restored is not claimed twice by a work
Unrepeated(authors) == \A e \in Ids : Pure(e) => Once(e, authors)

ForMerge(p) == \A e \in Ids :
    /\ p.context = <<"mergeFrom", e>> => TakesFirst(p.before.authors, p.after.authors)
    /\ p.context = <<"redirectClaims", e>> => GivesUp(p.before.authors, p.after.authors, e)

Told(e) == Whole(e) /\ \A p \in written(e) : ForMerge(p) /\ Unrepeated(p.after.authors)

\* No merge of it was written of
Unmerged(e) == \A x \in Ids : \A p \in written(x) : p.context \notin ctx(e)
MergingOf(e) == \E s \in Slots : requests[s].kind = "merge" /\ requests[s].from = e

diffOf(j) == getDiff(j.doc, j.new, j.context)
Noted(r, j) ==
    /\ ForMerge(diffOf(j)) /\ Unrepeated(j.new.authors)
    /\ \A e \in Ids : j.context \in ctx(e) => r.kind = "merge" /\ r.from = e

\* A revert undoes patches of the merge, and its restored document has lost its type
Restores(r) ==
    /\ \A j \in r.jobs : j.step = "revert" =>
         \E p \in patches[j.id] : p.version = j.patch /\ p.context \in ctx(r.from)
    /\ r.stage = "restore" => r.change.type = "none"
    /\ r.stage = "items" => /\ \A j \in puts(r) : j.new.type = "none"
                            /\ puts(r) # {} \/ ~Pure(r.from)
    /\ r.stage \notin {"restore", "items"} => ~Pure(r.from)

Ledger(r) ==
    /\ r.kind = "edit" => \A j, k \in r.jobs : j = k /\ j.step \in {"put", "patch"}
    /\ Unrepeated(r.change.authors)
    /\ \A j \in puts(r) : Noted(r, j)
    /\ r.kind = "revert" => Restores(r)

LedgerInv == Clean =>
    /\ \A e \in Ids : Told(e)
    /\ \A e \in Ids : Pure(e) /\ ~isRedirection(docs[e]) => Unmerged(e) \/ MergingOf(e)
    /\ \A s \in Slots : ~idle(s) => Ledger(requests[s])

LEMMA SameWritten ==
    ASSUME EntitiesInv, NEW s \in Slots, NEW r, goes(s, r), UNCHANGED patches,
           \A j : j.step = "patch" => (j \in r.jobs <=> j \in requests[s].jobs)
    PROVE  \A e \in Ids : written(e)' = written(e)
<1>1. \A t \in Slots : requests'[t] = IF t = s THEN r ELSE requests[t]
  BY DEF goes, EntitiesInv
<1>2. ASSUME NEW e \in Ids PROVE writing(e)' = writing(e)
  <2>1. \A j : j \in writing(e)' <=> \E t \in Slots : j \in requests'[t].jobs
                                        /\ j.step = "patch" /\ j.id = e
    BY DEF writing
  <2>2. \A j : j \in writing(e) <=> \E t \in Slots : j \in requests[t].jobs
                                        /\ j.step = "patch" /\ j.id = e
    BY DEF writing
  <2>3. \A j : \A t \in Slots : j.step = "patch" =>
            (j \in requests'[t].jobs <=> j \in requests[t].jobs)
    BY <1>1
  <2>4. \A j : j \in writing(e)' <=> j \in writing(e)
    BY <2>1, <2>2, <2>3
  <2> QED
    BY <2>4
<1> QED
  BY <1>2 DEF written

LEMMA PostedWritten ==
    ASSUME EntitiesInv, NEW s \in Slots, NEW j \in requests[s].jobs, j.step = "patch",
           NEW r, goes(s, r), r.jobs = requests[s].jobs \ {j}, j.id \in Ids,
           patches' = [patches EXCEPT ![j.id] = @ \cup {diffOf(j)}]
    PROVE  \A e \in Ids : written(e)' = written(e)
<1>1. \A t \in Slots : requests'[t] = IF t = s THEN r ELSE requests[t]
  BY DEF goes, EntitiesInv
<1>2. \A e \in Ids : patches'[e] = IF e = j.id THEN patches[e] \cup {diffOf(j)} ELSE patches[e]
  BY DEF EntitiesInv
<1> SUFFICES ASSUME NEW e \in Ids PROVE written(e)' = written(e)
  OBVIOUS
<1>3. writing(e)' \subseteq writing(e)
  BY <1>1 DEF writing
<1>4. \A k \in writing(e) : k \in writing(e)' \/ k = j
  BY <1>1 DEF writing
<1>5. e = j.id => j \in writing(e)
  BY DEF writing
<1>6. \A k \in writing(e) : k = j => e = j.id
  BY DEF writing
<1> DEFINE D(W) == {diffOf(k) : k \in W}
<1>7. /\ written(e) = patches[e] \cup D(writing(e))
      /\ written(e)' = patches'[e] \cup D(writing(e)')
  BY DEF written, diffOf
<1>8. \A x \in D(writing(e)) : x \in D(writing(e)') \/ (x = diffOf(j) /\ e = j.id)
  BY <1>4, <1>6
<1>9. D(writing(e)') \subseteq D(writing(e))
  BY <1>3
<1>10. e = j.id => diffOf(j) \in D(writing(e))
  BY <1>5
<1> HIDE DEF D
<1> QED
  BY <1>2, <1>7, <1>8, <1>9, <1>10

LEMMA PutWritten ==
    ASSUME EntitiesInv, NEW s \in Slots, NEW j \in requests[s].jobs, j.step = "put",
           follows(s, j, {[j EXCEPT !.step = "patch"]}), UNCHANGED patches
    PROVE  /\ j.id \in Ids
           /\ \A e \in Ids : written(e)' = IF e = j.id THEN written(e) \cup {diffOf(j)}
                                           ELSE written(e)
<1> DEFINE r == requests[s]
           k == [j EXCEPT !.step = "patch"]
<1>1. r \in Requests /\ j \in Jobs /\ j.id \in Ids
  BY DEF EntitiesInv, Requests, RequestOK, JobOK, Writes
<1>2. k.step = "patch" /\ k.id = j.id /\ diffOf(k) = diffOf(j)
  <2>1. k.step = "patch" /\ k.id = j.id /\ k.doc = j.doc /\ k.new = j.new
        /\ k.context = j.context
    BY <1>1 DEF Jobs
  <2> QED
    BY <2>1 DEF diffOf
<1> HIDE DEF k
<1>3. /\ \A t \in Slots : t # s => requests'[t] = requests[t]
      /\ requests'[s].jobs = (r.jobs \ {j}) \cup {k}
  BY <1>1 DEF follows, goes, EntitiesInv, Requests, k
<1> SUFFICES ASSUME NEW e \in Ids
             PROVE  written(e)' = IF e = j.id THEN written(e) \cup {diffOf(j)} ELSE written(e)
  BY <1>1
<1>4. \A x : x \in writing(e)' <=> \E t \in Slots : x \in requests'[t].jobs
                                      /\ x.step = "patch" /\ x.id = e
  BY DEF writing
<1>5. \A x : x \in writing(e) <=> \E t \in Slots : x \in requests[t].jobs
                                      /\ x.step = "patch" /\ x.id = e
  BY DEF writing
<1>6. \A x : x \in writing(e)' <=> x \in writing(e) \/ (x = k /\ e = j.id)
  <2>1. \A x : \A t \in Slots : x.step = "patch" =>
          (x \in requests'[t].jobs <=> (x \in requests[t].jobs \/ (t = s /\ x = k)))
    BY <1>3
  <2> QED
    BY <1>2, <1>4, <1>5, <2>1
<1> DEFINE D(W) == {diffOf(x) : x \in W}
<1>7. /\ written(e) = patches[e] \cup D(writing(e))
      /\ written(e)' = patches[e] \cup D(writing(e)')
  BY DEF written, diffOf
<1>8. CASE e = j.id
  <2>1. writing(e)' = writing(e) \cup {k}
    BY <1>6, <1>8
  <2>2. D(writing(e)') = D(writing(e)) \cup {diffOf(j)}
    BY <1>2, <2>1
  <2> HIDE DEF D
  <2> QED
    BY <1>7, <1>8, <2>2
<1>9. CASE e # j.id
  <2>1. writing(e)' = writing(e)
    BY <1>6, <1>9
  <2> QED
    BY <1>7, <1>9, <2>1
<1> QED
  BY <1>8, <1>9

\* What the history tells while no document is written
LEMMA LedgerUnchanged ==
    ASSUME UNCHANGED docs, \A e \in Ids : written(e)' = written(e)
    PROVE  /\ \A e \in Ids : Pure(e)' = Pure(e) /\ Told(e)' = Told(e)
                             /\ Unmerged(e)' = Unmerged(e)
           /\ \A a : Unrepeated(a)' = Unrepeated(a)
           /\ \A r, j : Noted(r, j)' = Noted(r, j)
<1>1. \A e \in Ids : Pure(e)' = Pure(e) /\ Unmerged(e)' = Unmerged(e) /\ Whole(e)' = Whole(e)
  BY DEF Pure, Unmerged, Whole
<1>2. \A a : Unrepeated(a)' = Unrepeated(a)
  BY <1>1 DEF Unrepeated
<1>3. \A p : ForMerge(p)' = ForMerge(p)
  BY DEF ForMerge
<1>4. \A e \in Ids : Told(e)' = Told(e)
  BY <1>1, <1>2, <1>3 DEF Told
<1>5. \A r, j : Noted(r, j)' = Noted(r, j)
  BY <1>2, <1>3 DEF Noted
<1> QED
  BY <1>1, <1>2, <1>4, <1>5

LEMMA LedgerStays ==
    ASSUME EntitiesInv, UNCHANGED docs, \A e \in Ids : written(e)' = written(e),
           \A e \in Ids : patches[e] \subseteq patches'[e],
           NEW r, r.kind # "none", RequestOK(r)', Ledger(r)
    PROVE  Ledger(r)'
<1>1. \A a : Unrepeated(a)' = Unrepeated(a)
  BY LedgerUnchanged
<1>2. \A j : Noted(r, j)' = Noted(r, j)
  BY LedgerUnchanged
<1>3. r.from \in Ids /\ Pure(r.from)' = Pure(r.from)
  BY LedgerUnchanged DEF RequestOK
<1>4. \A j \in r.jobs : j.step = "revert" => j.id \in Ids
  BY DEF RequestOK, JobOK
<1>5. Restores(r) => Restores(r)'
  BY <1>3, <1>4 DEF Restores
<1> QED
  BY <1>1, <1>2, <1>5 DEF Ledger

LEMMA LedgerStep ==
    ASSUME EntitiesInv, Separate, LedgerInv, NEW s \in Slots, ~idle(s), NEW r, goes(s, r),
           past' = past, UNCHANGED docs, \A e \in Ids : written(e)' = written(e),
           \A e \in Ids : patches[e] \subseteq patches'[e],
           r.kind = requests[s].kind, r.from = requests[s].from, EntitiesInv',
           ~r.failed => ~requests[s].failed,
           past = "orderly" /\ ~r.failed /\ Ledger(requests[s]) => Ledger(r)
    PROVE  LedgerInv'
<1>1. requests' = [t \in Slots |-> IF t = s THEN r ELSE requests[t]]
  BY DEF goes, EntitiesInv
<1> SUFFICES ASSUME Clean'
             PROVE  /\ \A e \in Ids : Told(e)'
                    /\ \A e \in Ids : Pure(e)' /\ ~isRedirection(docs'[e]) =>
                                          Unmerged(e)' \/ MergingOf(e)'
                    /\ \A t \in Slots : ~idle(t)' => Ledger(requests[t])'
  BY DEF LedgerInv
<1>2. past = "orderly" /\ ~r.failed
  BY <1>1 DEF Clean, idle
<1>3. \A t \in Slots : t # s => idle(t)
  BY <1>2 DEF Separate, Alone
<1>4. Clean
  BY <1>2, <1>3 DEF Clean
<1>5. \A e \in Ids : MergingOf(e)' = MergingOf(e)
  BY <1>1 DEF MergingOf
<1>6. \A e \in Ids : Told(e)' /\ (Pure(e)' = Pure(e)) /\ (Unmerged(e)' = Unmerged(e))
  BY <1>4, LedgerUnchanged DEF LedgerInv
<1>7. Ledger(r)
  BY <1>2, <1>4 DEF LedgerInv
<1>8. r.kind # "none"
  BY DEF idle
<1>9. Ledger(r)'
  <2>1. RequestOK(requests[s])' /\ requests'[s] = r
    BY <1>1 DEF EntitiesInv
  <2>2. RequestOK(r)'
    BY <2>1
  <2> QED
    BY <1>7, <1>8, <2>2, LedgerStays
<1>10. ASSUME NEW t \in Slots, ~idle(t)' PROVE Ledger(requests[t])'
  <2>1. t = s /\ requests'[t] = r
    BY <1>1, <1>3, <1>10 DEF idle
  <2> QED
    BY <1>9, <2>1
<1> QED
  BY <1>4, <1>5, <1>6, <1>10 DEF LedgerInv

\* A step that only reads, and starts no patch
LEMMA LedgerRead ==
    ASSUME EntitiesInv, Separate, LedgerInv, NEW s \in Slots, ~idle(s), NEW r, goes(s, r),
           past' = past, UNCHANGED <<docs, patches>>,
           \A j : j.step = "patch" => (j \in r.jobs <=> j \in requests[s].jobs),
           r.kind = requests[s].kind, r.from = requests[s].from, EntitiesInv',
           ~r.failed => ~requests[s].failed,
           past = "orderly" /\ ~r.failed /\ Ledger(requests[s]) => Ledger(r)
    PROVE  LedgerInv'
<1>1. \A e \in Ids : written(e)' = written(e)
  BY SameWritten
<1> QED
  BY <1>1, LedgerStep

LEMMA LedgerFailure ==
    ASSUME EntitiesInv, NEW s \in Slots, ~idle(s), fails(s) \/ \E j : throws(s, j)
    PROVE  ~Clean'
<1> DEFINE r == requests[s]
           q(jobs) == [r EXCEPT !.failed = TRUE, !.jobs = jobs]
<1>1. PICK jobs : goes(s, q(jobs))
  <2>1. \A j : throws(s, j) => goes(s, q(r.jobs \ {j}))
    BY DEF throws
  <2>2. fails(s) => goes(s, q({}))
    BY DEF fails
  <2> HIDE DEF q
  <2> QED
    BY <2>1, <2>2
<1>2. q(jobs).kind = r.kind /\ q(jobs).failed = TRUE
  BY DEF EntitiesInv, Requests
<1> HIDE DEF q, r
<1>3. requests'[s] = q(jobs)
  BY <1>1 DEF goes, EntitiesInv
<1>4. r.kind # "none"
  BY DEF idle, r
<1> QED
  BY <1>2, <1>3, <1>4 DEF Clean, idle

LEMMA DocUnrepeated ==
    ASSUME EntitiesInv, NEW e \in Ids, Told(e)
    PROVE  Unrepeated(docs[e].authors)
<1>1. EntityOK(e) /\ docs[e].version \in 2..docs[e].version
  BY DEF EntitiesInv, EntityOK, Docs
<1>2. PICK p \in written(e) : p.version = docs[e].version
  BY <1>1 DEF Told, Whole
<1>3. p.after = versionned(docs[e])
  BY <1>1, <1>2 DEF EntityOK, Follow
<1>4. p.after.authors = docs[e].authors
  BY <1>3 DEF versionned
<1> QED
  BY <1>4 DEF Told

LEMMA NoContext == \A e \in Ids : None \notin ctx(e)
BY DEF ctx, None

\* A write that is neither of a merge nor of redirected claims
LEMMA NotedWrite ==
    ASSUME NEW r, NEW j, j.context = None, Unrepeated(j.new.authors)
    PROVE  Noted(r, j)
<1>1. \A e \in Ids : j.context \notin ctx(e)
  BY NoContext
<1>2. diffOf(j).context = None
  BY DEF diffOf, getDiff
<1>3. ForMerge(diffOf(j))
  BY <1>2 DEF ForMerge, None
<1> QED
  BY <1>1, <1>3 DEF Noted

LEMMA putUpdateNoted ==
    ASSUME NEW id \in Ids, NEW d \in Docs, NEW new \in Docs, NEW context \in Contexts,
           NEW j, j = putUpdate(id, d, new, context)
    PROVE  /\ j.context = context /\ j.new.authors = new.authors /\ j.doc = d /\ j.patch = 0
           /\ context = None /\ Unrepeated(new.authors) => \A r : Noted(r, j)
<1>1. j.context = context /\ j.patch = 0
  BY DEF putUpdate, NoJob
<1>2. content(j.new) = content(new) /\ j.doc = d
  BY putUpdateType
<1>3. j.new.authors = new.authors
  BY <1>2 DEF content
<1> QED
  BY <1>1, <1>2, <1>3, NotedWrite

\* The document is written: its patch is to be posted
LEMMA LedgerPut ==
    ASSUME EntitiesInv, Separate, TidyInv, LedgerInv, NEW s \in Slots,
           NEW j \in requests[s].jobs, PutDoc(s, j), docs[j.id].version = j.doc.version
    PROVE  LedgerInv'
<1> DEFINE e == j.id
           p == diffOf(j)
           k == [j EXCEPT !.step = "patch"]
<1>1. PICK r \in Requests : r = requests[s]
  BY DEF EntitiesInv
<1>2. /\ RequestOK(r) /\ JobOK(r, j) /\ j \in Jobs /\ ~idle(s) /\ r.kind # "none"
      /\ docs' = [docs EXCEPT ![e] = j.new] /\ e \in Ids
      /\ j.doc = docs[e] /\ past' = past /\ patches' = patches /\ j.step = "put"
      /\ follows(s, j, {k}) /\ j.new.version = docs[e].version + 1
  <2>1. RequestOK(r) /\ JobOK(r, j) /\ j \in Jobs
    BY <1>1 DEF EntitiesInv, RequestOK, Requests
  <2>2. j.step = "put" /\ past' = past /\ patches' = patches /\ follows(s, j, {k})
        /\ docs' = [docs EXCEPT ![e] = j.new]
    BY DEF PutDoc
  <2>3. Writes(r, j) /\ Read(e, j.doc)
    BY <2>1, <2>2 DEF JobOK
  <2>4. e \in Ids /\ j.doc = docs[e] /\ j.new.version = docs[e].version + 1
    BY <2>3 DEF Writes, Read
  <2>5. r.kind # "none"
    BY <1>1, <2>1 DEF RequestOK
  <2> QED
    BY <1>1, <2>1, <2>2, <2>4, <2>5 DEF idle
<1>3. /\ k.step = "patch" /\ k.id = e /\ k.new = j.new /\ k.doc = j.doc
      /\ k.context = j.context
  BY <1>2 DEF Jobs
<1>4. PICK q : q = [r EXCEPT !.jobs = (r.jobs \ {j}) \cup {k}]
  OBVIOUS
<1>5. /\ q.kind = r.kind /\ q.stage = r.stage /\ q.from = r.from /\ q.to = r.to
      /\ q.jobs = (r.jobs \ {j}) \cup {k} /\ q.change = r.change /\ q.failed = r.failed
  BY <1>4 DEF Requests
<1>6. goes(s, q)
  BY <1>1, <1>2, <1>4 DEF follows
<1>7. \A x \in Ids : written(x)' = IF x = e THEN written(x) \cup {p} ELSE written(x)
  <2> HIDE DEF p
  <2> QED
    BY <1>2, PutWritten DEF p
<1>8. /\ docs'[e] = j.new /\ \A x \in Ids : x # e => docs'[x] = docs[x]
  BY <1>2 DEF EntitiesInv
<1> HIDE DEF k
<1>9. /\ p.version = docs[e].version + 1 /\ p.after.authors = j.new.authors
      /\ p.after.type = j.new.type /\ p.context = j.context
  BY <1>2 DEF diffOf, getDiff, versionned
<1> HIDE DEF p
<1>10. requests' = [t \in Slots |-> IF t = s THEN q ELSE requests[t]]
  BY <1>6 DEF goes, EntitiesInv
<1> SUFFICES ASSUME Clean'
             PROVE  /\ \A x \in Ids : Told(x)'
                    /\ \A x \in Ids : Pure(x)' /\ ~isRedirection(docs'[x]) =>
                                          Unmerged(x)' \/ MergingOf(x)'
                    /\ \A t \in Slots : ~idle(t)' => Ledger(requests[t])'
  BY DEF LedgerInv
<1>11. past = "orderly" /\ ~r.failed
  BY <1>2, <1>5, <1>10 DEF Clean, idle
<1>12. \A t \in Slots : t # s => idle(t)
  BY <1>2, <1>11 DEF Separate, Alone
<1>13. Clean
  BY <1>1, <1>11, <1>12 DEF Clean
<1>14. Ledger(r) /\ Noted(r, j) /\ \A x \in Ids : Told(x)
  BY <1>1, <1>2, <1>13 DEF LedgerInv, Ledger, puts
<1>15. Progress(r)
  BY <1>1, <1>2, <1>13 DEF TidyInv, quiet
<1>16. \A x \in Ids : Pure(x)' => Pure(x)
  BY <1>7 DEF Pure
<1>17. \A a : Unrepeated(a) => Unrepeated(a)'
  BY <1>16 DEF Unrepeated
<1>18. \A x : ForMerge(x)' = ForMerge(x)
  BY DEF ForMerge
<1>19. ForMerge(p) /\ Unrepeated(p.after.authors)
  BY <1>9, <1>14 DEF Noted, p
<1>20. ASSUME NEW x \in Ids PROVE Told(x)'
  <2>1. Whole(x)'
    <3> SUFFICES ASSUME NEW v \in 2..docs'[x].version
                 PROVE  \E y \in written(x)' : y.version = v
      BY DEF Whole
    <3>1. docs[x].version \in Nat /\ docs[e].version \in Nat
      BY <1>2 DEF EntitiesInv, EntityOK, Docs
    <3>2. CASE v \in 2..docs[x].version
      <4>1. \E y \in written(x) : y.version = v
        BY <1>14, <3>2 DEF Told, Whole
      <4> QED
        BY <1>7, <4>1
    <3>3. CASE v \notin 2..docs[x].version
      <4>1. x = e /\ v = docs[e].version + 1
        BY <1>2, <1>8, <3>1, <3>3
      <4> QED
        BY <1>7, <1>9, <4>1
    <3> QED
      BY <3>2, <3>3
  <2>2. ASSUME NEW y \in written(x)' PROVE ForMerge(y)' /\ Unrepeated(y.after.authors)'
    <3>1. y \in written(x) \/ y = p
      BY <1>7, <2>2
    <3>2. ForMerge(y) /\ Unrepeated(y.after.authors)
      BY <1>14, <1>19, <3>1 DEF Told
    <3> QED
      BY <1>17, <1>18, <3>2
  <2> QED
    BY <2>1, <2>2 DEF Told
<1>21. r.kind = "revert" /\ r.stage = "items" => e = r.from /\ j.new.type = "none"
  <2>1. j \in puts(r)
    BY <1>1, <1>2 DEF puts
  <2>2. r.kind = "revert" => Restores(r) /\ RevertJobs(r)
    BY <1>14, <1>15 DEF Ledger, Progress
  <2> QED
    BY <2>1, <2>2 DEF Restores, RevertJobs
<1>22. j.new.type = "none" => ~Pure(e)'
  BY <1>2, <1>7, <1>9 DEF Pure
<1>23. ASSUME NEW x \in Ids, Pure(x)', ~isRedirection(docs'[x])
       PROVE  Unmerged(x)' \/ MergingOf(x)'
  <2>1. ~isRedirection(docs[x])
    <3> SUFFICES ASSUME isRedirection(docs[x]) PROVE FALSE
      OBVIOUS
    <3>1. x = e /\ j.new.redirect # j.doc.redirect /\ j.new.redirect = NoUri
      BY <1>2, <1>8, <1>23 DEF isRedirection
    <3>2. r.kind = "revert" /\ r.stage = "items"
      <4>1. j \in puts(r)
        BY <1>1, <1>2 DEF puts
      <4>2. ~isRedirection(j.doc) => FALSE
        BY <1>2, <3>1 DEF isRedirection
      <4> QED
        BY <1>2, <1>15, <3>1, <4>1, <4>2, RedirectionsOfWrites
    <3> QED
      BY <1>21, <1>22, <1>23, <3>1, <3>2
  <2>2. MergingOf(x) => MergingOf(x)'
    BY <1>1, <1>5, <1>10 DEF MergingOf
  <2>3. Unmerged(x) \/ MergingOf(x)
    BY <1>13, <1>16, <1>23, <2>1 DEF LedgerInv
  <2>4. ASSUME p.context \in ctx(x) PROVE MergingOf(x)'
    <3>1. r.kind = "merge" /\ r.from = x
      BY <1>9, <1>14, <2>4 DEF Noted
    <3> QED
      BY <1>5, <1>10, <3>1 DEF MergingOf
  <2>5. p.context \notin ctx(x) /\ Unmerged(x) => Unmerged(x)'
    BY <1>7 DEF Unmerged, ctx
  <2> QED
    BY <2>2, <2>3, <2>4, <2>5
<1>24. puts(q) \subseteq puts(r)
  BY <1>3, <1>5 DEF puts
<1>25. ASSUME NEW x \in puts(q) PROVE Noted(q, x)'
  <2>1. Noted(r, x)
    BY <1>14, <1>24 DEF Ledger
  <2> QED
    BY <1>5, <1>17, <1>18, <2>1 DEF Noted
<1>26. ASSUME r.kind = "revert" PROVE Restores(q)'
  <2>1. Restores(r)
    BY <1>14, <1>26 DEF Ledger
  <2>2. \A x \in q.jobs : x.step = "revert" => x \in r.jobs
    BY <1>3, <1>5
  <2>3. \A x \in q.jobs : x.step = "revert" =>
            \E y \in patches'[x.id] : y.version = x.patch /\ y.context \in ctx(q.from)
    BY <1>2, <1>5, <2>1, <2>2 DEF Restores
  <2>4. q.stage = "restore" => q.change.type = "none"
    BY <1>5, <2>1 DEF Restores
  <2>5. q.stage = "items" => /\ \A x \in puts(q) : x.new.type = "none"
                             /\ puts(q) # {} \/ ~Pure(q.from)'
    BY <1>5, <1>21, <1>22, <1>24, <1>26, <2>1 DEF Restores
  <2>6. q.stage \notin {"restore", "items"} => ~Pure(q.from)'
    <3>1. r.from \in Ids
      BY <1>2 DEF RequestOK
    <3> QED
      BY <1>5, <1>16, <2>1, <3>1 DEF Restores
  <2> QED
    BY <2>3, <2>4, <2>5, <2>6 DEF Restores, ctx, puts
<1>27. Ledger(q)'
  <2>1. q.kind = "edit" => \A x, y \in q.jobs : x = y /\ x.step \in {"put", "patch"}
    BY <1>1, <1>3, <1>5, <1>14 DEF Ledger
  <2>2. Unrepeated(q.change.authors)'
    BY <1>5, <1>14, <1>17 DEF Ledger
  <2>3. \A x \in puts(q) : Noted(q, x)'
    BY <1>25
  <2>4. q.kind = "revert" => Restores(q)'
    BY <1>5, <1>26
  <2>5. puts(q)' = puts(q)
    BY DEF puts
  <2> QED
    BY <2>1, <2>2, <2>3, <2>4, <2>5 DEF Ledger
<1>28. ASSUME NEW t \in Slots, ~idle(t)' PROVE Ledger(requests[t])'
  <2>1. t = s /\ requests'[t] = q
    BY <1>10, <1>12, <1>28 DEF idle
  <2> QED
    BY <1>27, <2>1
<1> QED
  BY <1>20, <1>23, <1>28

LEMMA LedgerPutDoc ==
    ASSUME EntitiesInv, Separate, TidyInv, LedgerInv, NEW s \in Slots,
           NEW j \in requests[s].jobs, PutDoc(s, j), EntitiesInv'
    PROVE  LedgerInv'
<1> DEFINE r == requests[s]
           q == [r EXCEPT !.jobs = {}, !.stage = "read"]
<1>1. r \in Requests /\ RequestOK(r) /\ ~idle(s)
  BY DEF EntitiesInv, RequestOK, idle
<1>2. CASE docs[j.id].version = j.doc.version
  BY <1>2, LedgerPut
<1>3. CASE throws(s, j)
  BY <1>1, <1>3, LedgerFailure DEF LedgerInv
<1>4. CASE docs[j.id].version # j.doc.version /\ r.kind = "edit"
  <2>1. goes(s, q) /\ UNCHANGED <<docs, patches, past>> /\ j.step = "put"
    BY <1>4 DEF PutDoc
  <2>2. /\ q.kind = r.kind /\ q.stage = "read" /\ q.from = r.from /\ q.to = r.to
        /\ q.jobs = {} /\ q.change = r.change /\ q.failed = r.failed
        /\ q.doc = r.doc /\ q.copies = r.copies
    BY <1>1 DEF Requests
  <2> HIDE DEF q
  <2>4. Ledger(r) => Ledger(q)
    BY <1>4, <2>2 DEF Ledger, puts
  <2>6. CASE Clean
    <3>1. Ledger(r)
      BY <1>1, <2>6 DEF LedgerInv
    <3>2. \A x \in r.jobs : x = j
      BY <1>4, <3>1 DEF Ledger
    <3>3. \A x : x.step = "patch" => (x \in q.jobs <=> x \in requests[s].jobs)
      BY <2>1, <2>2, <3>2
    <3> HIDE DEF r
    <3> QED
      BY <1>1, <2>1, <2>2, <2>4, <3>3, LedgerRead DEF r
  <2>7. CASE ~Clean
    <3>1. ~Clean'
      <4>1. requests' = [t \in Slots |-> IF t = s THEN q ELSE requests[t]]
        BY <2>1 DEF goes, EntitiesInv
      <4> QED
        BY <1>4, <2>1, <2>2, <2>7, <4>1 DEF Clean, idle
    <3> QED
      BY <3>1 DEF LedgerInv
  <2> QED
    BY <2>6, <2>7
<1> QED
  BY <1>2, <1>3, <1>4 DEF PutDoc

-----------------------------------------------------------------------------
(* What is left to undo of a merge: the ghost beforeMerge tells what the merge of the entity     *)
(* found, and the patches that are marked with the merge tell what it did to other entities      *)

was(e) == beforeMerge.world.docs[e][1]
wasRemoved(e) == beforeMerge.world.docs[e][2]
wasAt(i) == beforeMerge.world.items[i]
Recorded ==
    /\ beforeMerge.world =
         [docs |-> [e \in Ids |-> <<was(e), wasRemoved(e)>>],
          items |-> [i \in Items |-> <<wasAt(i)[1], wasAt(i)[2]>>]]
    /\ \A e \in Ids : wasRemoved(e) \in BOOLEAN
    /\ \A i \in Items : wasAt(i)[2] \in Seq(Works)
    /\ beforeMerge.from \in Ids /\ was(beforeMerge.from)[3] = NoUri

marked(from, e) == {p \in written(e) : p.context \in ctx(from)}
Same(e) == content(docs[e]) = was(e)
By(e, p) == content(p.before) = was(e) /\ content(p.after) = content(docs[e]) /\ Undoes(p)
Traced(from, e) ==
    \/ marked(from, e) = {} /\ Same(e)
    \/ \E p \in written(e) : marked(from, e) = {p} /\ By(e, p)
OnOthers(from, to) == \A e \in Ids : \A p \in marked(from, e) :
    e # from /\ (p.context = <<"mergeFrom", from>> => e = to)
Gone(from, to) ==
    /\ docs[from].redirect = to
    /\ \E p \in written(from) : p.version = docs[from].version /\ content(p.before) = was(from)

removedNow(e) == docs[e].type = "removed:placeholder"
RemovedBy(removed) == \A e \in Ids :
    /\ removedNow(e) <=> wasRemoved(e) \/ e \in removed
    /\ e \in removed => ~wasRemoved(e)

Kept(i) == items[i].entity = wasAt(i)[1] /\ items[i].previousEntity = wasAt(i)[2]
KeptOrMoved(i, from, to) ==
    \/ Kept(i) /\ from \notin ToSet(items[i].previousEntity)
    \/ /\ wasAt(i)[1] = from /\ items[i].entity = to
       /\ items[i].previousEntity = <<from>> \o wasAt(i)[2] /\ from \notin ToSet(wasAt(i)[2])

\* The merge is done
MergedInto(from, to) ==
    /\ \A e \in Ids \ {from} : Traced(from, e)
    /\ OnOthers(from, to) /\ Gone(from, to)
    /\ RemovedBy(docs[from].removedPlaceholdersIds)
    /\ \A i \in Items : KeptOrMoved(i, from, to)

pend(r) == {j \in r.jobs : j.step = "patch"}
OneJob(r) == \A j, k \in r.jobs : j = k
OneJobEach(r) == \A j, k \in r.jobs : j.id = k.id => j = k
Turned(r) == r.stage = "end" \/ (r.stage = "propagate" /\ puts(r) = {})
Claiming(r) == r.stage # "end" \/ has(r, "claims") \/ has(r, "redirectClaims")
Untouched(r) == r.stage = "mergeDocs" \/ (r.stage = "isolate" /\ puts(r) # {})

\* What a merge has done to the documents so far, and what it is about to write
MergePut(r, j) ==
    /\ r.stage = "isolate" => j.context = <<"mergeFrom", r.from>> /\ Undoes(diffOf(j))
    /\ r.stage = "turn" => j.context = None /\ content(j.new) = content(j.doc)
                           /\ j.new.type = "removed:placeholder"
    /\ r.stage = "propagate" => /\ j.context = None
                                /\ RemovedBy(j.new.removedPlaceholdersIds)
    /\ r.stage = "end" => /\ j.context = <<"redirectClaims", r.from>> /\ Undoes(diffOf(j))
                          /\ marked(r.from, j.id) = {} /\ j.id # r.from
                          /\ \A k \in puts(r) : k.id = j.id => k = j
    /\ r.stage # "turn" => j.new.type = j.doc.type
MergedSoFar(r) ==
    /\ \A e \in Ids \ {r.from} : Traced(r.from, e)
    /\ OnOthers(r.from, r.to)
    /\ Claiming(r) => \A e \in Ids : \A p \in written(e) :
                          p.context # <<"redirectClaims", r.from>>
    /\ Untouched(r) => \A e \in Ids : marked(r.from, e) = {}
    /\ IF Turned(r) THEN Gone(r.from, r.to) ELSE Same(r.from)
    /\ r.stage \in {"isolate", "propagate"} => OneJob(r)
    /\ \A j \in puts(r) : MergePut(r, j)

\* The authors it has removed, or is removing
Removing(r) ==
    /\ OneJobEach(r) /\ \A j \in r.jobs : j.id # r.from /\ j.id \notin r.removed
    /\ \A e \in r.removed : removedNow(e) /\ ~wasRemoved(e)
    /\ \A e \in Ids \ r.removed :
         (\A j \in pend(r) : j.id # e) => (removedNow(e) <=> wasRemoved(e))
    /\ \A j \in pend(r) : /\ removedNow(j.id) /\ content(j.doc) = content(j.new)
                          /\ j.new.type = "removed:placeholder"
                          /\ wasRemoved(j.id) <=> j.doc.type = "removed:placeholder"
RemovedSoFar(r) ==
    /\ r.stage \in {"mergeDocs", "isolate"} => r.removed = {} /\ RemovedBy({})
    /\ r.stage = "turn" => Removing(r)
    /\ Turned(r) => RemovedBy(docs[r.from].removedPlaceholdersIds)

Merging(r) ==
    /\ MergedSoFar(r) /\ RemovedSoFar(r)
    /\ \A i \in Items : KeptOrMoved(i, r.from, r.to)

\* What a revert is still to put back
Undoing(r, e) == \E j \in r.jobs : j.id = e /\ j.step \in {"revert", "put"}
Undoable(r, j) == \E p \in patches[j.id] :
    marked(r.from, j.id) = {p} /\ By(j.id, p) /\ p.version = j.patch
Halfway(r, e) ==
    \/ /\ Traced(r.from, e) /\ ~Undoing(r, e)
       /\ \A p \in marked(r.from, e) : p.context = <<"redirectClaims", r.from>>
    \/ /\ Same(e) \/ Undoing(r, e)
       /\ \A p \in marked(r.from, e) : p.context = <<"mergeFrom", r.from>>
RevertPut(r, j) ==
    /\ r.stage = "items" => content(j.new) = was(r.from)
    /\ r.stage = "mergePatch" => content(j.new) = content(j.doc) /\ j.new.type = "entity"
    /\ r.stage \in {"redirections", "end"} =>
         content(j.new) = was(j.id) /\ j.new.type = j.doc.type
RevertedSoFar(r) ==
    /\ OnOthers(r.from, r.to)
    /\ ~(r.stage = "items" /\ puts(r) # {}) => Same(r.from)
    /\ r.stage \in {"items", "placeholders", "mergePatch"} =>
         \A e \in Ids \ {r.from} : Traced(r.from, e)
    /\ r.stage = "redirections" => \A e \in Ids \ {r.from} : Halfway(r, e)
    /\ r.stage = "end" => \A e \in Ids \ {r.from} : Same(e) \/ Undoing(r, e)
    /\ r.stage \in {"redirections", "end"} =>
         OneJobEach(r) /\ \A j \in r.jobs : j.step = "revert" => Undoable(r, j)
    /\ \A j \in puts(r) : RevertPut(r, j)
Recovering(r) ==
    CASE r.stage \in {"items", "placeholders"} -> r.removed
      [] r.stage = "mergePatch" -> {j.id : j \in {k \in r.jobs : k.step \in {"recover", "put"}}}
      [] OTHER -> {}
RecoveredSoFar(r) == \A e \in Ids :
    /\ removedNow(e) => wasRemoved(e) \/ e \in Recovering(r)
    /\ wasRemoved(e) => removedNow(e) /\ e \notin Recovering(r)
Reverting(r) ==
    /\ ~wasRemoved(r.from)
    /\ r.stage = "restore" =>
         MergedInto(r.from, docs[r.from].redirect) /\ content(r.change) = was(r.from)
    /\ r.stage # "restore" =>
         /\ RevertedSoFar(r) /\ RecoveredSoFar(r)
         /\ \A i \in Items :
              IF r.stage = "items" \/ (r.stage = "placeholders" /\ has(r, "bulk"))
              THEN KeptOrMoved(i, r.from, r.to) ELSE Kept(i)

Undo(r) ==
    /\ r.from = beforeMerge.from /\ r.kind \in {"merge", "revert"}
    /\ r.kind = "merge" => (Pure(r.from) => Merging(r))
    /\ r.kind = "revert" => Reverting(r)
Undone(from) == Pure(from) /\ isRedirection(docs[from]) => MergedInto(from, docs[from].redirect)

UndoInv == Clean /\ beforeMerge.from # NoUri =>
    /\ Recorded
    /\ quiet => Undone(beforeMerge.from)
    /\ \A s \in Slots : ~idle(s) => Undo(requests[s])

\* What is left to undo of documents, while none is written
LEMMA DocsUnchanged ==
    ASSUME UNCHANGED <<docs, beforeMerge>>, \A e \in Ids : written(e)' = written(e)
    PROVE  /\ Recorded' = Recorded
           /\ \A e \in Ids : Pure(e)' = Pure(e) /\ Same(e)' = Same(e)
           /\ \A e \in Ids : removedNow(e)' = removedNow(e) /\ wasRemoved(e)' = wasRemoved(e)
                             /\ was(e)' = was(e)
           /\ \A i : wasAt(i)' = wasAt(i)
           /\ \A f, e \in Ids : marked(f, e)' = marked(f, e) /\ Traced(f, e)' = Traced(f, e)
           /\ \A e \in Ids : \A p : By(e, p)' = By(e, p)
           /\ \A f \in Ids : \A to : OnOthers(f, to)' = OnOthers(f, to)
                                  /\ Gone(f, to)' = Gone(f, to)
           /\ \A removed : RemovedBy(removed)' = RemovedBy(removed)
<1>1. /\ \A e : was(e)' = was(e) /\ wasRemoved(e)' = wasRemoved(e) /\ Same(e)' = Same(e)
                /\ removedNow(e)' = removedNow(e)
      /\ \A i : wasAt(i)' = wasAt(i)
  BY DEF was, wasRemoved, Same, removedNow, wasAt
<1>2. Recorded' = Recorded
  BY <1>1 DEF Recorded
<1>3. \A e \in Ids : Pure(e)' = Pure(e) /\ \A f : marked(f, e)' = marked(f, e)
  BY DEF Pure, marked
<1>4. \A e : \A p : By(e, p)' = By(e, p)
  BY <1>1 DEF By
<1>5. \A f : \A e \in Ids : Traced(f, e)' = Traced(f, e)
  BY <1>1, <1>3, <1>4 DEF Traced
<1>6. \A f \in Ids : \A to : OnOthers(f, to)' = OnOthers(f, to) /\ Gone(f, to)' = Gone(f, to)
  BY <1>1, <1>3 DEF OnOthers, Gone
<1>7. \A removed : RemovedBy(removed)' = RemovedBy(removed)
  BY <1>1 DEF RemovedBy
<1> QED
  BY <1>1, <1>2, <1>3, <1>4, <1>5, <1>6, <1>7

\* Nor any item
LEMMA UndoUnchanged ==
    ASSUME UNCHANGED <<docs, items, beforeMerge>>, \A e \in Ids : written(e)' = written(e)
    PROVE  /\ \A f \in Ids : \A to : MergedInto(f, to)' = MergedInto(f, to)
           /\ \A f \in Ids : Undone(f)' = Undone(f)
           /\ \A i \in Items : Kept(i)' = Kept(i)
           /\ \A i \in Items : \A f, to : KeptOrMoved(i, f, to)' = KeptOrMoved(i, f, to)
<1>1. /\ \A f, e \in Ids : Traced(f, e)' = Traced(f, e)
      /\ \A f \in Ids : \A to : OnOthers(f, to)' = OnOthers(f, to) /\ Gone(f, to)' = Gone(f, to)
      /\ \A removed : RemovedBy(removed)' = RemovedBy(removed)
      /\ \A i : wasAt(i)' = wasAt(i) /\ \A e \in Ids : Pure(e)' = Pure(e)
  BY DocsUnchanged
<1>2. \A i : Kept(i)' = Kept(i)
  BY <1>1 DEF Kept
<1>3. \A i, f, to : KeptOrMoved(i, f, to)' = KeptOrMoved(i, f, to)
  BY <1>1, <1>2 DEF KeptOrMoved
<1>4. \A f \in Ids : \A to : MergedInto(f, to)' = MergedInto(f, to)
  BY <1>1, <1>3 DEF MergedInto
<1>5. \A f \in Ids : Undone(f)' = Undone(f)
  BY <1>1, <1>4 DEF Undone
<1> QED
  BY <1>2, <1>3, <1>4, <1>5

LEMMA SoFarStays ==
    ASSUME UNCHANGED <<docs, beforeMerge>>, \A e \in Ids : written(e)' = written(e),
           \A e \in Ids : patches[e] \subseteq patches'[e],
           NEW r, r.from \in Ids, \A j \in r.jobs : j.step \in {"put", "revert"} => j.id \in Ids
    PROVE  /\ MergedSoFar(r) => MergedSoFar(r)'
           /\ RemovedSoFar(r) => RemovedSoFar(r)'
           /\ RevertedSoFar(r) => RevertedSoFar(r)'
           /\ RecoveredSoFar(r) => RecoveredSoFar(r)'
<1>1. /\ \A f, e \in Ids : marked(f, e)' = marked(f, e) /\ Traced(f, e)' = Traced(f, e)
      /\ \A f \in Ids : \A to : OnOthers(f, to)' = OnOthers(f, to)
                             /\ Gone(f, to)' = Gone(f, to)
  BY DocsUnchanged
<1>2. \A e \in Ids : /\ Same(e)' = Same(e) /\ removedNow(e)' = removedNow(e)
                     /\ wasRemoved(e)' = wasRemoved(e) /\ was(e)' = was(e)
                     /\ Pure(e)' = Pure(e) /\ \A p : By(e, p)' = By(e, p)
  BY DocsUnchanged
<1>3. \A removed : RemovedBy(removed)' = RemovedBy(removed)
  BY DocsUnchanged
<1>4. /\ \A j \in puts(r) : j.id \in Ids
      /\ \A j \in r.jobs : j.step = "revert" => j.id \in Ids
  BY DEF puts
<1>5. \A j \in puts(r) : MergePut(r, j) => MergePut(r, j)'
  BY <1>1, <1>3, <1>4 DEF MergePut
<1>6. MergedSoFar(r) => MergedSoFar(r)'
  BY <1>1, <1>2, <1>5 DEF MergedSoFar, Claiming, Untouched, Turned, puts, has
<1>7. Removing(r) => Removing(r)'
  BY <1>2, Zenon DEF Removing, removedNow, wasRemoved
<1>8. RemovedSoFar(r) => RemovedSoFar(r)'
  BY <1>3, <1>7 DEF RemovedSoFar, Turned, puts
<1>9. \A j \in r.jobs : j.step = "revert" => (Undoable(r, j) => Undoable(r, j)')
  BY <1>1, <1>2, <1>4 DEF Undoable
<1>10. \A j \in puts(r) : RevertPut(r, j) => RevertPut(r, j)'
  BY <1>2, <1>4 DEF RevertPut
<1>11. \A e \in Ids : Halfway(r, e) => Halfway(r, e)'
  BY <1>1, <1>2 DEF Halfway, Undoing
<1>12. ASSUME RevertedSoFar(r) PROVE RevertedSoFar(r)'
  <2>1. Same(r.from) => Same(r.from)'
    BY <1>2
  <2>2. \A e \in Ids : (Traced(r.from, e) => Traced(r.from, e)')
    BY <1>1
  <2>3. OnOthers(r.from, r.to)'
    BY <1>1, <1>12 DEF RevertedSoFar
  <2>4. ~(r.stage = "items" /\ puts(r) # {}) => Same(r.from)'
    BY <1>12, <2>1 DEF RevertedSoFar
  <2>5. r.stage \in {"items", "placeholders", "mergePatch"} =>
          \A e \in Ids \ {r.from} : Traced(r.from, e)'
    BY <1>12, <2>2 DEF RevertedSoFar
  <2>6. r.stage = "redirections" => \A e \in Ids \ {r.from} : Halfway(r, e)'
    BY <1>11, <1>12 DEF RevertedSoFar
  <2>7. r.stage = "end" => \A e \in Ids \ {r.from} : Same(e)' \/ Undoing(r, e)
    BY <1>2, <1>12 DEF RevertedSoFar
  <2>8. r.stage \in {"redirections", "end"} =>
          OneJobEach(r) /\ \A j \in r.jobs : j.step = "revert" => Undoable(r, j)'
    BY <1>9, <1>12 DEF RevertedSoFar
  <2>9. \A j \in puts(r) : RevertPut(r, j)'
    BY <1>10, <1>12 DEF RevertedSoFar
  <2>10. OneJobEach(r)' = OneJobEach(r) /\ puts(r)' = puts(r)
         /\ \A e : Undoing(r, e)' = Undoing(r, e)
    BY DEF OneJobEach, puts, Undoing
  <2> QED
    BY <2>3, <2>4, <2>5, <2>6, <2>7, <2>8, <2>9, <2>10 DEF RevertedSoFar
<1>13. RecoveredSoFar(r) => RecoveredSoFar(r)'
  BY <1>2 DEF RecoveredSoFar, Recovering
<1> QED
  BY <1>6, <1>8, <1>12, <1>13

LEMMA UndoStays ==
    ASSUME UNCHANGED <<docs, items, beforeMerge>>, \A e \in Ids : written(e)' = written(e),
           \A e \in Ids : patches[e] \subseteq patches'[e],
           NEW r, r.from \in Ids, \A j \in r.jobs : j.step \in {"put", "revert"} => j.id \in Ids,
           Undo(r)
    PROVE  Undo(r)'
<1>1. /\ \A f \in Ids : \A to : MergedInto(f, to)' = MergedInto(f, to)
      /\ \A i \in Items : Kept(i)' = Kept(i)
      /\ \A i \in Items : \A f, to : KeptOrMoved(i, f, to)' = KeptOrMoved(i, f, to)
  BY UndoUnchanged
<1>2. \A e \in Ids : wasRemoved(e)' = wasRemoved(e) /\ was(e)' = was(e) /\ Pure(e)' = Pure(e)
  BY DocsUnchanged
<1>3. /\ MergedSoFar(r) => MergedSoFar(r)'
      /\ RemovedSoFar(r) => RemovedSoFar(r)'
      /\ RevertedSoFar(r) => RevertedSoFar(r)'
      /\ RecoveredSoFar(r) => RecoveredSoFar(r)'
  BY SoFarStays
<1>4. Merging(r) => Merging(r)'
  BY <1>1, <1>3 DEF Merging
<1>5. Reverting(r) => Reverting(r)'
  BY <1>1, <1>2, <1>3 DEF Reverting, has
<1> QED
  BY <1>2, <1>4, <1>5 DEF Undo

\* A request goes on, alone and without failure so far
LEMMA UndoStep ==
    ASSUME EntitiesInv, Separate, UndoInv, NEW s \in Slots, ~idle(s), NEW r, goes(s, r),
           UNCHANGED <<past, beforeMerge>>, r.kind # "none", ~r.failed => ~requests[s].failed,
           Clean /\ Recorded /\ Undo(requests[s]) /\ ~r.failed => Undo(r)'
    PROVE  UndoInv'
<1>1. requests' = [t \in Slots |-> IF t = s THEN r ELSE requests[t]]
  BY DEF goes, EntitiesInv
<1> SUFFICES ASSUME Clean', beforeMerge.from # NoUri
             PROVE  /\ Recorded' /\ ~quiet'
                    /\ \A t \in Slots : ~idle(t)' => Undo(requests[t])'
  BY DEF UndoInv
<1>2. past = "orderly" /\ ~r.failed
  BY <1>1 DEF Clean, idle
<1>3. \A t \in Slots : t # s => idle(t)
  BY <1>2 DEF Separate, Alone
<1>4. Clean
  BY <1>2, <1>3 DEF Clean
<1>5. Recorded /\ Undo(requests[s])
  BY <1>4 DEF UndoInv
<1>6. Undo(r)' /\ Recorded'
  BY <1>2, <1>4, <1>5 DEF Recorded, was, wasRemoved, wasAt
<1>7. ASSUME NEW t \in Slots, ~idle(t)' PROVE Undo(requests[t])'
  <2>1. t = s
    BY <1>1, <1>3, <1>7 DEF idle
  <2>2. requests'[t] = r
    BY <1>1, <2>1
  <2> QED
    BY <1>6, <2>2
<1>8. ~quiet'
  BY <1>1 DEF quiet, idle
<1> QED
  BY <1>6, <1>7, <1>8

\* A step that only reads, or posts a patch
LEMMA HistoryPost ==
    ASSUME EntitiesInv, Separate, LedgerInv, UndoInv, NEW s \in Slots, ~idle(s), NEW r,
           goes(s, r), UNCHANGED <<docs, items, past, beforeMerge>>,
           \A e \in Ids : written(e)' = written(e),
           \A e \in Ids : patches[e] \subseteq patches'[e],
           r.kind = requests[s].kind, r.from = requests[s].from, EntitiesInv',
           ~r.failed => ~requests[s].failed,
           Clean /\ ~r.failed /\ Ledger(requests[s]) => Ledger(r),
           Clean /\ ~r.failed /\ Recorded /\ Undo(requests[s]) => Undo(r)
    PROVE  LedgerInv' /\ UndoInv'
<1>1. ~r.failed /\ past = "orderly" => Clean
  BY DEF Clean, Separate, Alone
<1>2. LedgerInv'
  BY <1>1, LedgerStep
<1>3. r.kind # "none" /\ requests'[s] = r
  BY DEF idle, goes, EntitiesInv
<1>4. r.from \in Ids /\ \A j \in r.jobs : j.step \in {"put", "revert"} => j.id \in Ids
  <2>1. RequestOK(requests[s])'
    BY DEF EntitiesInv
  <2>2. RequestOK(r)'
    BY <1>3, <2>1
  <2> QED
    BY <1>3, <2>2 DEF RequestOK, JobOK, Writes
<1>5. Undo(r) => Undo(r)'
  BY <1>4, UndoStays
<1>6. UndoInv'
  BY <1>3, <1>5, UndoStep
<1> QED
  BY <1>2, <1>6

LEMMA HistoryRead ==
    ASSUME EntitiesInv, Separate, LedgerInv, UndoInv, NEW s \in Slots, ~idle(s), NEW r,
           goes(s, r), reads, \A j : j.step = "patch" => (j \in r.jobs <=> j \in requests[s].jobs),
           r.kind = requests[s].kind, r.from = requests[s].from, EntitiesInv',
           ~r.failed => ~requests[s].failed,
           Clean /\ ~r.failed /\ Ledger(requests[s]) => Ledger(r),
           Clean /\ ~r.failed /\ Recorded /\ Undo(requests[s]) => Undo(r)
    PROVE  LedgerInv' /\ UndoInv'
<1>1. /\ UNCHANGED <<docs, items, past, beforeMerge>> /\ UNCHANGED patches
      /\ \A e \in Ids : written(e)' = written(e)
  BY SameWritten DEF reads
<1> QED
  BY <1>1, HistoryPost

LEMMA HistoryFailure ==
    ASSUME EntitiesInv, NEW s \in Slots, ~idle(s), fails(s) \/ \E j : throws(s, j)
    PROVE  LedgerInv' /\ UndoInv'
BY LedgerFailure DEF LedgerInv, UndoInv

-----------------------------------------------------------------------------
(* The stages of a merge, and what is left to undo *)

LEMMA HistoryMergeInvEntities ==
    ASSUME EntitiesInv, Separate, TidyInv, LedgerInv, UndoInv, NEW s \in Slots,
           MergeInvEntities(s), EntitiesInv'
    PROVE  LedgerInv' /\ UndoInv'
<1> DEFINE r == requests[s]
           from == docs[r.from]
           to == docs[r.to]
           new == mergeDocs(from, to)
           context == <<"mergeFrom", r.from>>
           job == putUpdate(r.to, to, new, context)
           jobs == {putUpdate(r.to, to, n, <<"mergeFrom", r.from>>) : n \in {new} \ {to}}
           q == [r EXCEPT !.stage = "isolate", !.jobs = jobs]
<1>1. /\ r \in Requests /\ RequestOK(r) /\ ~idle(s) /\ reads /\ ~r.failed
      /\ r.kind = "merge" /\ r.stage = "mergeDocs" /\ r.jobs = {}
  BY DEF EntitiesInv, MergeInvEntities, at, idle
<1>2. CASE isRedirection(from) \/ isRedirection(to)
  BY <1>1, <1>2, HistoryFailure DEF MergeInvEntities
<1>3. CASE ~(isRedirection(from) \/ isRedirection(to))
  <2>1. goes(s, q)
    BY <1>3 DEF MergeInvEntities
  <2>2. jobs = IF new = to THEN {} ELSE {job}
    OBVIOUS
  <2>3. /\ q.kind = "merge" /\ q.stage = "isolate" /\ q.jobs = jobs /\ q.change = r.change
        /\ q.from = r.from /\ q.to = r.to /\ q.failed = r.failed /\ q.removed = r.removed
    BY <1>1 DEF Requests
  <2>4. r.from \in Ids /\ r.to \in Ids /\ from \in Docs /\ to \in Docs /\ r.to # r.from
    BY <1>1, CurrentDoc DEF RequestOK
  <2>5. /\ new \in Docs /\ new.redirect = to.redirect /\ new.type = to.type
        /\ new.authors = to.authors \/ (to.authors = <<>> /\ Len(new.authors) = 1)
    <3>1. from.authors # <<>> => Head(from.authors) \in Authors
      BY <2>4 DEF Docs
    <3>2. from.authors # <<>> => <<Head(from.authors)>> \in Seq(Authors)
                                 /\ Len(<<Head(from.authors)>>) = 1
      BY <3>1
    <3> QED
      BY <2>4, <3>2 DEF mergeDocs, Docs
  <2>6. /\ job.step = "put" /\ job.id = r.to /\ job.doc = to /\ job.new.redirect = to.redirect
        /\ job.context = context /\ job.new.type = to.type /\ job.new.authors = new.authors
    <3>1. <<"mergeFrom", r.from>> \in Contexts
      BY <2>4 DEF Contexts
    <3>2. /\ job.step = "put" /\ job.id = r.to /\ job.doc = to /\ content(job.new) = content(new)
          /\ job.new.redirect = new.redirect /\ job.new.type = new.type
      BY <2>4, <2>5, <3>1, putUpdateType
    <3>3. job.context = context
      BY <2>4, <2>5, <3>1, putUpdateNoted
    <3> QED
      BY <2>5, <3>2, <3>3 DEF content
  <2> DEFINE p == diffOf(job)
  <2>7. /\ p.before.authors = to.authors /\ p.after.authors = new.authors /\ p.context = context
        /\ p.before.redirect = p.after.redirect
    BY <2>6 DEF diffOf, getDiff, versionned
  <2> HIDE DEF new, from, to, job, p
  <2>8. TakesFirst(p.before.authors, p.after.authors)
    BY <2>5, <2>7 DEF TakesFirst
  <2>9. Undoes(p)
    <3>1. new.authors \in Seq(Authors) /\ to.authors \in Seq(Authors)
      BY <2>4, <2>5 DEF Docs
    <3> QED
      BY <2>7, <2>8, <3>1, FirstAuthorUndone DEF Undoes
  <2>10. \A j \in puts(q) : j = job
    BY <2>2, <2>3 DEF puts
  <2>11. \A j \in q.jobs : j.step = "put"
    BY <2>2, <2>3, <2>6
  <2> HIDE DEF jobs, q
  <2>12. ASSUME Clean, Ledger(r) PROVE Ledger(q)
    <3>1. ForMerge(p)
      BY <2>7, <2>8 DEF ForMerge
    <3>2. Unrepeated(new.authors)
      <4>1. Unrepeated(to.authors)
        BY <2>4, <2>12, DocUnrepeated DEF LedgerInv, to
      <4>2. CASE new.authors = to.authors
        BY <4>1, <4>2
      <4>3. CASE Len(new.authors) = 1
        <5>1. DOMAIN new.authors = 1..1
          BY <2>5, <4>3 DEF Docs
        <5> QED
          BY <5>1 DEF Unrepeated, Once
      <4> QED
        BY <2>5, <4>2, <4>3
    <3>3. Noted(q, job)
      BY <2>3, <2>6, <3>1, <3>2 DEF Noted, ctx, p
    <3> QED
      BY <2>3, <2>10, <2>12, <3>3 DEF Ledger
  <2>13. ASSUME Undo(r) PROVE Undo(q)
    <3> SUFFICES ASSUME Pure(r.from) PROVE Merging(q)
      BY <1>1, <2>3, <2>13 DEF Undo
    <3>1. Merging(r)
      BY <1>1, <2>13 DEF Undo
    <3>2. ~Turned(q) /\ ~Turned(r) /\ Claiming(r) /\ Untouched(r)
      BY <1>1, <2>3 DEF Turned, Claiming, Untouched
    <3>3. OneJob(q)
      BY <2>10, <2>11 DEF OneJob, puts
    <3>4. \A j \in puts(q) : MergePut(q, j)
      BY <2>3, <2>6, <2>9, <2>10 DEF MergePut, p
    <3>5. MergedSoFar(q)
      BY <2>3, <3>1, <3>2, <3>3, <3>4 DEF Merging, MergedSoFar
    <3>6. RemovedSoFar(q)
      BY <1>1, <2>3, <3>1, <3>2 DEF Merging, RemovedSoFar
    <3> QED
      BY <2>3, <3>1, <3>5, <3>6 DEF Merging
  <2>14. \A j : j.step = "patch" => (j \in q.jobs <=> j \in r.jobs)
    BY <1>1, <2>11
  <2> HIDE DEF r
  <2> QED
    BY <1>1, <2>1, <2>3, <2>12, <2>13, <2>14, HistoryRead DEF r
<1> QED
  BY <1>2, <1>3

LEMMA HistoryRemoveObsoletePlaceholders ==
    ASSUME EntitiesInv, Separate, TidyInv, LedgerInv, UndoInv, NEW s \in Slots,
           RemoveObsoletePlaceholderEntities(s), EntitiesInv'
    PROVE  LedgerInv' /\ UndoInv'
<1> DEFINE r == requests[s]
           d == docs[r.from]
           checks == {Job("check", h) : h \in ToSet(d.authors) \cap Humans}
           q == [r EXCEPT !.stage = "turn", !.doc = d, !.jobs = checks]
<1>1. /\ r \in Requests /\ RequestOK(r) /\ ~idle(s) /\ reads /\ ~r.failed
      /\ r.kind = "merge" /\ r.stage = "isolate" /\ r.jobs = {} /\ r.from \in Ids
  BY DEF EntitiesInv, RemoveObsoletePlaceholderEntities, at, idle, RequestOK
<1>2. CASE isRedirection(d)
  BY <1>1, <1>2, HistoryFailure DEF RemoveObsoletePlaceholderEntities
<1>3. CASE ~isRedirection(d)
  <2>1. goes(s, q)
    BY <1>3 DEF RemoveObsoletePlaceholderEntities
  <2>2. /\ q.kind = "merge" /\ q.stage = "turn" /\ q.jobs = checks /\ q.change = r.change
        /\ q.from = r.from /\ q.to = r.to /\ q.failed = r.failed /\ q.removed = r.removed
    BY <1>1 DEF Requests
  <2>3. ASSUME NEW j \in checks
        PROVE  \E h \in Humans : j = Job("check", h) /\ j.step = "check" /\ j.id = h
               /\ h \in ToSet(d.authors)
    BY JobType DEF Steps, Ids
  <2>4. ASSUME NEW j \in checks PROVE j.id # r.from
    <3>1. PICK h \in Humans : j.id = h /\ h \in ToSet(d.authors)
      BY <2>3, <2>4
    <3>2. r.from \in Humans => d.authors = <<>>
      BY <1>1, CurrentDoc DEF Fits
    <3> QED
      BY <3>1, <3>2 DEF ToSet
  <2>5. \A j, k \in checks : j.id = k.id => j = k
    BY <2>3
  <2>6. \A j \in checks : j.step = "check"
    BY <2>3
  <2> HIDE DEF q, checks
  <2>7. puts(q) = {} /\ pend(q) = {}
    BY <2>2, <2>6 DEF puts, pend
  <2>8. Ledger(r) => Ledger(q)
    BY <1>1, <2>2, <2>7 DEF Ledger
  <2>9. ASSUME Undo(r) PROVE Undo(q)
    <3> SUFFICES ASSUME Pure(r.from) PROVE Merging(q)
      BY <1>1, <2>2, <2>9 DEF Undo
    <3>1. Merging(r)
      BY <1>1, <2>9 DEF Undo
    <3>2. ~Turned(q) /\ ~Turned(r) /\ Claiming(r) /\ ~Untouched(q)
      BY <1>1, <2>2 DEF Turned, Claiming, Untouched
    <3>3. MergedSoFar(q)
      BY <2>2, <2>7, <3>1, <3>2 DEF Merging, MergedSoFar
    <3>4. r.removed = {} /\ RemovedBy({})
      BY <1>1, <3>1 DEF Merging, RemovedSoFar
    <3>5. Removing(q)
      BY <2>2, <2>4, <2>5, <2>7, <3>4 DEF Removing, OneJobEach, RemovedBy
    <3> QED
      BY <2>2, <3>1, <3>2, <3>3, <3>5 DEF Merging, RemovedSoFar
  <2>10. \A j : j.step = "patch" => (j \in q.jobs <=> j \in r.jobs)
    BY <1>1, <2>2, <2>6
  <2> HIDE DEF r
  <2> QED
    BY <1>1, <2>1, <2>2, <2>8, <2>9, <2>10, HistoryRead DEF r
<1> QED
  BY <1>2, <1>3

LEMMA HistoryTurnIntoRedirection ==
    ASSUME EntitiesInv, Separate, TidyInv, LedgerInv, UndoInv, NEW s \in Slots,
           TurnIntoRedirection(s), EntitiesInv'
    PROVE  LedgerInv' /\ UndoInv'
<1> DEFINE r == requests[s]
           new == turnIntoRedirection(r.doc, r.to, r.removed)
           job == putUpdate(r.from, r.doc, new, None)
           q == [r EXCEPT !.stage = "propagate", !.doc = NoDoc, !.removed = {}, !.jobs = {job}]
<1>1. /\ r \in Requests /\ RequestOK(r) /\ ~idle(s) /\ reads /\ ~r.failed
      /\ r.kind = "merge" /\ r.stage = "turn" /\ r.jobs = {}
  BY DEF EntitiesInv, TurnIntoRedirection, at, idle
<1>2. /\ r.from \in Ids /\ r.to \in Uris /\ r.to # r.from
      /\ r.doc \in Docs /\ r.removed \subseteq Humans
  BY <1>1 DEF RequestOK, Requests
<1>3. goes(s, q)
  BY <1>2 DEF TurnIntoRedirection
<1>4. /\ q.kind = "merge" /\ q.stage = "propagate" /\ q.jobs = {job} /\ q.change = r.change
      /\ q.from = r.from /\ q.to = r.to /\ q.failed = r.failed
  BY <1>1 DEF Requests
<1>5. /\ new \in Docs /\ new.type = r.doc.type /\ new.authors = <<>>
      /\ new.removedPlaceholdersIds = r.removed
  <2>1. <<>> \in Seq(Authors)
    OBVIOUS
  <2> QED
    BY <1>2, <2>1 DEF turnIntoRedirection, Docs
<1>6. /\ job.step = "put" /\ job.id = r.from /\ job.doc = r.doc /\ job.new.type = r.doc.type
      /\ job.context = None /\ job.new.authors = <<>>
      /\ job.new.removedPlaceholdersIds = r.removed
  <2> HIDE DEF new
  <2>1. None \in Contexts
    BY DEF Contexts
  <2>2. /\ job.step = "put" /\ job.id = r.from /\ job.doc = r.doc /\ job.new.type = new.type
        /\ job.context = None /\ job.new.authors = new.authors
    BY <1>2, <1>5, <2>1, putUpdateType, putUpdateNoted
  <2>3. job.new.removedPlaceholdersIds = new.removedPlaceholdersIds
    <3>1. job.new = [new EXCEPT !.version = r.doc.version + 1]
      BY DEF putUpdate, NoJob
    <3> HIDE DEF job
    <3> QED
      BY <1>5, <3>1 DEF Docs
  <2> QED
    BY <1>5, <2>2, <2>3
<1> HIDE DEF q, job
<1>7. puts(q) = {job} /\ ~Turned(q) /\ ~Turned(r)
  BY <1>1, <1>4, <1>6 DEF puts, Turned
<1>8. ASSUME Ledger(r) PROVE Ledger(q)
  <2>1. Unrepeated(job.new.authors)
    BY <1>6 DEF Unrepeated, Once
  <2>2. Noted(q, job)
    BY <1>6, <2>1, NotedWrite
  <2> QED
    BY <1>4, <1>7, <1>8, <2>2 DEF Ledger
<1>9. ASSUME Undo(r) PROVE Undo(q)
  <2> SUFFICES ASSUME Pure(r.from) PROVE Merging(q)
    BY <1>1, <1>4, <1>9 DEF Undo
  <2>1. Merging(r)
    BY <1>1, <1>9 DEF Undo
  <2>2. RemovedBy(r.removed)
    BY <1>1, <2>1 DEF Merging, RemovedSoFar, Removing, RemovedBy, pend
  <2>3. Claiming(r) /\ ~Untouched(q) /\ OneJob(q)
    BY <1>1, <1>4 DEF Claiming, Untouched, OneJob
  <2>4. MergePut(q, job)
    BY <1>4, <1>6, <2>2 DEF MergePut
  <2>5. MergedSoFar(q)
    BY <1>4, <1>7, <2>1, <2>3, <2>4 DEF Merging, MergedSoFar
  <2> QED
    BY <1>4, <1>7, <2>1, <2>5 DEF Merging, RemovedSoFar
<1>10. \A j : j.step = "patch" => (j \in q.jobs <=> j \in r.jobs)
  BY <1>1, <1>4, <1>6
<1> HIDE DEF r
<1> QED
  BY <1>1, <1>3, <1>4, <1>8, <1>9, <1>10, HistoryRead DEF r

LEMMA HistoryPropagateRedirection ==
    ASSUME EntitiesInv, Separate, TidyInv, LedgerInv, UndoInv, NEW s \in Slots,
           PropagateRedirection(s), EntitiesInv'
    PROVE  LedgerInv' /\ UndoInv'
<1> DEFINE r == requests[s]
           claims == Job("claims", NoUri)
           moves == Job("items", NoUri)
           q == [r EXCEPT !.stage = "end", !.jobs = {claims, moves}]
<1>1. /\ r \in Requests /\ RequestOK(r) /\ ~idle(s) /\ reads /\ ~r.failed
      /\ r.kind = "merge" /\ r.stage = "propagate" /\ r.jobs = {}
  BY DEF EntitiesInv, PropagateRedirection, at, idle
<1>2. goes(s, q)
  BY DEF PropagateRedirection
<1>3. /\ q.kind = "merge" /\ q.stage = "end" /\ q.jobs = {claims, moves} /\ q.change = r.change
      /\ q.from = r.from /\ q.to = r.to /\ q.failed = r.failed
  BY <1>1 DEF Requests
<1>4. claims.step = "claims" /\ moves.step = "items"
  BY JobType DEF Steps
<1> HIDE DEF q
<1>5. puts(q) = {} /\ puts(r) = {}
  BY <1>1, <1>3, <1>4 DEF puts
<1>6. Turned(q) /\ Turned(r) /\ Claiming(r) /\ ~Untouched(q)
  BY <1>1, <1>3, <1>5 DEF Turned, Claiming, Untouched
<1>7. Ledger(r) => Ledger(q)
  BY <1>1, <1>3, <1>5 DEF Ledger
<1>8. ASSUME Undo(r) PROVE Undo(q)
  <2> SUFFICES ASSUME Pure(r.from) PROVE Merging(q)
    BY <1>1, <1>3, <1>8 DEF Undo
  <2>1. Merging(r)
    BY <1>1, <1>8 DEF Undo
  <2>2. MergedSoFar(q)
    BY <1>3, <1>5, <1>6, <2>1 DEF Merging, MergedSoFar
  <2>3. RemovedSoFar(q)
    BY <1>3, <1>6, <2>1 DEF Merging, RemovedSoFar
  <2> QED
    BY <1>3, <2>1, <2>2, <2>3 DEF Merging
<1>9. \A j : j.step = "patch" => (j \in q.jobs <=> j \in r.jobs)
  BY <1>1, <1>3, <1>4
<1> HIDE DEF r
<1> QED
  BY <1>1, <1>2, <1>3, <1>7, <1>8, <1>9, HistoryRead DEF r

-----------------------------------------------------------------------------
(* The stages of a revert *)

\* A request that has no job writes nothing, and there is no other
LEMMA NothingWritten ==
    ASSUME Separate, past = "orderly", \A t \in Slots : ~idle(t) => requests[t].jobs = {},
           EntitiesInv
    PROVE  \A e \in Ids : written(e) = patches[e]
<1>1. \A t \in Slots : requests[t].jobs = {}
  BY DEF EntitiesInv, RequestOK, idle
<1>2. \A e : writing(e) = {}
  BY <1>1 DEF writing
<1> QED
  BY <1>2 DEF written

LEMMA NothingWrittenAt ==
    ASSUME EntitiesInv, Separate, past = "orderly", NEW s \in Slots, ~idle(s),
           requests[s].jobs = {}
    PROVE  \A e \in Ids : written(e) = patches[e]
<1>1. \A t \in Slots : ~idle(t) => requests[t].jobs = {}
  BY DEF Separate, Alone
<1> QED
  BY <1>1, NothingWritten

LEMMA HistoryRestoreVersion ==
    ASSUME EntitiesInv, Separate, TidyInv, LedgerInv, UndoInv, NEW s \in Slots,
           RestoreVersion(s), EntitiesInv'
    PROVE  LedgerInv' /\ UndoInv'
<1> DEFINE r == requests[s]
           d == docs[r.from]
           restored == documentOf(r.change, 0)
           put == putUpdate(r.from, d, restored, None)
           q == [r EXCEPT !.stage = "items", !.change = create, !.to = d.redirect,
                          !.removed = d.removedPlaceholdersIds, !.jobs = {put}]
<1>1. /\ r \in Requests /\ RequestOK(r) /\ ~idle(s) /\ reads /\ ~r.failed /\ r.jobs = {}
      /\ r.kind = "revert" /\ r.stage = "restore" /\ goes(s, q)
  BY DEF EntitiesInv, RestoreVersion, at, idle
<1>2. /\ q.kind = "revert" /\ q.stage = "items" /\ q.jobs = {put} /\ q.change = create
      /\ q.from = r.from /\ q.to = d.redirect /\ q.failed = r.failed
      /\ q.removed = d.removedPlaceholdersIds
  BY <1>1 DEF Requests
<1>3. r.from \in Ids /\ r.change \in Contents /\ r.change.redirect = NoUri
  BY <1>1 DEF RequestOK, Requests, isRedirection
<1>4. /\ put.step = "put" /\ put.id = r.from /\ put.doc = d /\ content(put.new) = content(r.change)
      /\ put.new.type = r.change.type /\ put.context = None
  <2>1. /\ restored \in Docs /\ content(restored) = content(r.change)
        /\ restored.type = r.change.type
    BY <1>3 DEF documentOf, Docs, Contents, content
  <2>2. d \in Docs /\ None \in Contexts
    BY <1>3, CurrentDoc DEF Contexts
  <2> HIDE DEF restored, d
  <2> QED
    BY <1>3, <2>1, <2>2, putUpdateType, putUpdateNoted
<1> HIDE DEF put, q
<1>5. puts(q) = {put}
  BY <1>2, <1>4 DEF puts
<1>6. ASSUME Ledger(r) PROVE Ledger(q)
  <2>1. Unrepeated(put.new.authors)
    BY <1>4, <1>6 DEF Ledger, content
  <2>2. Noted(q, put)
    BY <1>4, <2>1, NotedWrite
  <2>3. Unrepeated(create.authors)
    BY DEF Unrepeated, Once, create
  <2>4. put.new.type = "none"
    BY <1>1, <1>4, <1>6 DEF Ledger, Restores
  <2>5. Restores(q)
    BY <1>2, <1>4, <1>5, <2>4 DEF Restores
  <2> QED
    BY <1>2, <1>5, <2>2, <2>3, <2>5 DEF Ledger
<1>7. ASSUME Undo(r), Recorded PROVE Undo(q)
  <2>1. /\ ~wasRemoved(r.from) /\ MergedInto(r.from, q.to) /\ content(r.change) = was(r.from)
    BY <1>1, <1>2, <1>7 DEF Undo, Reverting
  <2>2. /\ \A e \in Ids \ {r.from} : Traced(r.from, e)
        /\ OnOthers(r.from, q.to) /\ RemovedBy(q.removed)
        /\ \A i \in Items : KeptOrMoved(i, r.from, q.to)
    BY <1>2, <2>1 DEF MergedInto
  <2>3. RevertPut(q, put)
    BY <1>2, <1>4, <2>1 DEF RevertPut
  <2>4. RevertedSoFar(q)
    BY <1>2, <1>5, <2>2, <2>3 DEF RevertedSoFar
  <2>5. RecoveredSoFar(q)
    BY <1>2, <2>2 DEF RecoveredSoFar, Recovering, RemovedBy
  <2>6. Reverting(q)
    BY <1>2, <2>1, <2>2, <2>4, <2>5 DEF Reverting
  <2> QED
    BY <1>1, <1>2, <1>7, <2>6 DEF Undo
<1>8. \A j : j.step = "patch" => (j \in q.jobs <=> j \in r.jobs)
  BY <1>1, <1>2, <1>4
<1> HIDE DEF r
<1> QED
  BY <1>1, <1>2, <1>6, <1>7, <1>8, HistoryRead DEF r

LEMMA HistoryAfterRevert ==
    ASSUME EntitiesInv, Separate, TidyInv, LedgerInv, UndoInv, NEW s \in Slots,
           AfterRevert(s), EntitiesInv'
    PROVE  LedgerInv' /\ UndoInv'
<1> DEFINE r == requests[s]
           found == {i \in Items : r.from \in ToSet(items[i].previousEntity)}
           copies == copiesOf(found)
           bulk == Job("bulk", NoUri)
           q == [r EXCEPT !.stage = "placeholders", !.copies = copies, !.jobs = {bulk}]
<1>1. /\ r \in Requests /\ RequestOK(r) /\ ~idle(s) /\ reads /\ ~r.failed
      /\ r.kind = "revert" /\ r.stage = "items" /\ r.jobs = {}
  BY DEF EntitiesInv, AfterRevert, at, idle
<1>2. CASE \E i \in found : items[i].entity # r.to \/ Head(items[i].previousEntity) # r.from
  BY <1>1, <1>2, HistoryFailure DEF AfterRevert
<1>3. CASE \A i \in found : items[i].entity = r.to /\ Head(items[i].previousEntity) = r.from
  <2>1. goes(s, q)
    BY <1>3 DEF AfterRevert
  <2>2. /\ q.kind = "revert" /\ q.stage = "placeholders" /\ q.jobs = {bulk}
        /\ q.change = r.change /\ q.removed = r.removed
        /\ q.from = r.from /\ q.to = r.to /\ q.failed = r.failed
    BY <1>1 DEF Requests
  <2>3. bulk.step = "bulk" /\ has(q, "bulk")
    BY <2>2, JobType DEF Steps, has
  <2> HIDE DEF q, bulk
  <2>4. puts(r) = {} /\ puts(q) = {}
    BY <1>1, <2>2, <2>3 DEF puts
  <2>5. Ledger(r) => Ledger(q)
    BY <1>1, <2>2, <2>3, <2>4 DEF Ledger, Restores
  <2>6. ASSUME Undo(r) PROVE Undo(q)
    <3>1. Reverting(r)
      BY <1>1, <2>6 DEF Undo
    <3>2. RevertedSoFar(q)
      BY <1>1, <2>2, <2>4, <3>1 DEF Reverting, RevertedSoFar
    <3>3. RecoveredSoFar(q)
      BY <1>1, <2>2, <3>1 DEF Reverting, RecoveredSoFar, Recovering
    <3>4. Reverting(q)
      BY <1>1, <2>2, <2>3, <3>1, <3>2, <3>3 DEF Reverting
    <3> QED
      BY <2>2, <2>6, <3>4 DEF Undo
  <2>7. \A j : j.step = "patch" => (j \in q.jobs <=> j \in r.jobs)
    BY <1>1, <2>2, <2>3
  <2> HIDE DEF r
  <2> QED
    BY <1>1, <2>1, <2>2, <2>5, <2>6, <2>7, HistoryRead DEF r
<1> QED
  BY <1>2, <1>3

LEMMA HistoryRecoverPlaceholders ==
    ASSUME EntitiesInv, Separate, TidyInv, LedgerInv, UndoInv, NEW s \in Slots,
           RecoverPlaceholders(s), EntitiesInv'
    PROVE  LedgerInv' /\ UndoInv'
<1> DEFINE r == requests[s]
           jobs == {Job("recover", h) : h \in r.removed}
           q == [r EXCEPT !.stage = "mergePatch", !.removed = {}, !.jobs = jobs]
<1>1. /\ r \in Requests /\ RequestOK(r) /\ ~idle(s) /\ reads /\ ~r.failed
      /\ r.kind = "revert" /\ r.stage = "placeholders" /\ r.jobs = {} /\ goes(s, q)
  BY DEF EntitiesInv, RecoverPlaceholders, at, idle
<1>2. /\ q.kind = "revert" /\ q.stage = "mergePatch" /\ q.jobs = jobs /\ q.change = r.change
      /\ q.from = r.from /\ q.to = r.to /\ q.failed = r.failed
  BY <1>1 DEF Requests
<1>3. \A h \in r.removed : Job("recover", h).step = "recover" /\ Job("recover", h).id = h
  BY <1>1, JobType DEF Steps, Ids, Requests
<1>4. \A j \in jobs : j.step = "recover"
  BY <1>3
<1>5. {j.id : j \in {k \in jobs : k.step \in {"recover", "put"}}} = r.removed
  BY <1>3
<1>6. Recovering(q) = r.removed
  <2> HIDE DEF q, jobs
  <2> QED
    BY <1>2, <1>5 DEF Recovering
<1> HIDE DEF q, jobs
<1>7. puts(q) = {} /\ puts(r) = {} /\ ~has(r, "bulk")
  BY <1>1, <1>2, <1>4 DEF puts, has
<1>8. Ledger(r) => Ledger(q)
  BY <1>1, <1>2, <1>4, <1>7 DEF Ledger, Restores
<1>9. ASSUME Undo(r) PROVE Undo(q)
  <2>1. Reverting(r)
    BY <1>1, <1>9 DEF Undo
  <2>2. RevertedSoFar(q)
    BY <1>1, <1>2, <1>7, <2>1 DEF Reverting, RevertedSoFar
  <2>3. RecoveredSoFar(q)
    <3>1. Recovering(r) = r.removed
      BY <1>1 DEF Recovering
    <3> QED
      BY <1>1, <1>6, <2>1, <3>1 DEF Reverting, RecoveredSoFar
  <2>4. Reverting(q)
    BY <1>1, <1>2, <1>7, <2>1, <2>2, <2>3 DEF Reverting
  <2> QED
    BY <1>2, <1>9, <2>4 DEF Undo
<1>10. \A j : j.step = "patch" => (j \in q.jobs <=> j \in r.jobs)
  BY <1>1, <1>2, <1>4
<1> HIDE DEF r
<1> QED
  BY <1>1, <1>2, <1>8, <1>9, <1>10, HistoryRead DEF r

LEMMA HistoryRevertMergePatch ==
    ASSUME EntitiesInv, Separate, TidyInv, LedgerInv, UndoInv, NEW s \in Slots,
           RevertMergePatch(s), EntitiesInv'
    PROVE  LedgerInv' /\ UndoInv'
<1> DEFINE r == requests[s]
           merges == {p \in patches[r.to] : p.context = <<"mergeFrom", r.from>>}
           first == {p \in merges : \A x \in merges : p.version <= x.version}
           jobs == IF r.to \in Ids THEN {revertJob(r.to, p) : p \in first} ELSE {}
           q == [r EXCEPT !.stage = "redirections", !.jobs = jobs]
<1>1. /\ r \in Requests /\ RequestOK(r) /\ ~idle(s) /\ reads /\ ~r.failed
      /\ r.kind = "revert" /\ r.stage = "mergePatch" /\ r.jobs = {} /\ r.from \in Ids
  BY DEF EntitiesInv, RevertMergePatch, at, idle, RequestOK
<1>2. CASE r.to = NoUri
  BY <1>1, <1>2, HistoryFailure DEF RevertMergePatch
<1>3. CASE r.to # NoUri
  <2>1. goes(s, q)
    BY <1>3 DEF RevertMergePatch
  <2>2. /\ q.kind = "revert" /\ q.stage = "redirections" /\ q.jobs = jobs
        /\ q.change = r.change /\ q.from = r.from /\ q.to = r.to /\ q.failed = r.failed
    BY <1>1 DEF Requests
  <2>3. ASSUME NEW p \in first, r.to \in Ids
        PROVE  /\ revertJob(r.to, p).step = "revert" /\ revertJob(r.to, p).id = r.to
               /\ revertJob(r.to, p).patch = p.version
               /\ p \in patches[r.to] /\ p.context = <<"mergeFrom", r.from>>
    BY <2>3, RevertJobType
  <2> HIDE DEF first
  <2>4. \A j \in jobs : \E p \in first : /\ r.to \in Ids /\ j = revertJob(r.to, p)
                                         /\ j.step = "revert" /\ j.id = r.to
                                         /\ j.patch = p.version /\ p \in patches[r.to]
                                         /\ p.context = <<"mergeFrom", r.from>>
    BY <2>3
  <2>5. r.to \in Ids => \A p \in first : revertJob(r.to, p) \in jobs
    OBVIOUS
  <2> HIDE DEF jobs, q
  <2>6. puts(q) = {} /\ puts(r) = {}
    BY <1>1, <2>2, <2>4 DEF puts
  <2>7. ASSUME Ledger(r) PROVE Ledger(q)
    <3>1. \A j \in jobs : \E p \in patches[j.id] : p.version = j.patch /\ p.context \in ctx(r.from)
      BY <2>4 DEF ctx
    <3>2. ~Pure(r.from)
      BY <1>1, <2>7 DEF Ledger, Restores
    <3>3. Restores(q)
      BY <2>2, <3>1, <3>2 DEF Restores
    <3> QED
      BY <2>2, <2>6, <2>7, <3>3 DEF Ledger
  <2>8. ASSUME Undo(r), Clean PROVE Undo(q)
    <3>1. Reverting(r)
      BY <1>1, <2>8 DEF Undo
    <3>2. /\ OnOthers(r.from, r.to) /\ Same(r.from)
          /\ \A e \in Ids \ {r.from} : Traced(r.from, e)
      BY <1>1, <3>1 DEF Reverting, RevertedSoFar
    <3>3. \A e \in Ids : written(e) = patches[e]
      BY <1>1, <2>8, NothingWrittenAt DEF Clean
    <3>4. ASSUME NEW p \in merges, r.to \in Ids
          PROVE  /\ marked(r.from, r.to) = {p} /\ By(r.to, p) /\ r.to # r.from
                 /\ first = {p}
      <4>1. p \in marked(r.from, r.to)
        BY <3>3, <3>4 DEF marked, ctx
      <4>2. r.to # r.from
        BY <1>1, <3>2, <3>4, <4>1 DEF OnOthers
      <4>3. marked(r.from, r.to) = {p} /\ By(r.to, p)
        BY <3>2, <3>4, <4>1, <4>2 DEF Traced
      <4>4. merges = {p}
        BY <3>3, <3>4, <4>3 DEF marked, ctx
      <4>5. p.version \in Nat
        BY <3>4 DEF EntitiesInv, EntityOK, Patches
      <4> HIDE DEF merges
      <4> QED
        BY <4>2, <4>3, <4>4, <4>5 DEF first
    <3>5. \A p \in first : p \in merges
      BY DEF first
    <3>6. ASSUME NEW j \in jobs PROVE Undoable(q, j)
      BY <2>2, <2>4, <3>4, <3>5 DEF Undoable
    <3>7. OneJobEach(q)
      <4> SUFFICES ASSUME NEW j \in jobs, NEW k \in jobs PROVE j = k
        BY <2>2 DEF OneJobEach
      <4>1. PICK p \in first : r.to \in Ids /\ j = revertJob(r.to, p)
        BY <2>4
      <4>2. PICK x \in first : k = revertJob(r.to, x)
        BY <2>4
      <4>3. first = {p}
        BY <3>4, <3>5, <4>1
      <4> QED
        BY <4>1, <4>2, <4>3
    <3>8. ASSUME NEW e \in Ids \ {r.from} PROVE Halfway(q, e)
      <4>1. Undoing(q, e) => e = r.to
        BY <2>2, <2>4 DEF Undoing
      <4>2. CASE \E p \in marked(r.from, e) : p.context = <<"mergeFrom", r.from>>
        <5>1. PICK p \in marked(r.from, e) : p.context = <<"mergeFrom", r.from>>
          BY <4>2
        <5>2. e = r.to /\ p \in merges
          BY <3>2, <3>3, <5>1 DEF OnOthers, marked
        <5>3. p \in first /\ marked(r.from, e) = {p}
          BY <3>4, <5>2
        <5>4. Undoing(q, e)
          <6>1. revertJob(r.to, p) \in jobs
            BY <2>5, <5>2, <5>3
          <6>2. PICK j \in jobs : j = revertJob(r.to, p)
            BY <6>1
          <6>3. j.id = e /\ j.step = "revert"
            BY <2>4, <5>2
          <6> QED
            BY <2>2, <6>3 DEF Undoing
        <5> QED
          BY <2>2, <5>1, <5>3, <5>4 DEF Halfway
      <4>3. CASE ~\E p \in marked(r.from, e) : p.context = <<"mergeFrom", r.from>>
        <5>1. \A p \in marked(r.from, e) : p.context = <<"redirectClaims", r.from>>
          BY <4>3 DEF marked, ctx
        <5>2. ~Undoing(q, e)
          <6> SUFFICES ASSUME Undoing(q, e) PROVE FALSE
            OBVIOUS
          <6>1. e = r.to
            BY <4>1
          <6>2. PICK j \in jobs : j.id = e
            BY <2>2 DEF Undoing
          <6>3. PICK p \in first : p \in patches[r.to] /\ p.context = <<"mergeFrom", r.from>>
            BY <2>4, <6>2
          <6>4. p \in marked(r.from, e)
            BY <3>3, <6>1, <6>3 DEF marked, ctx
          <6> QED
            BY <4>3, <6>3, <6>4
        <5> QED
          BY <2>2, <3>2, <5>1, <5>2 DEF Halfway
      <4> QED
        BY <4>2, <4>3
    <3>9. RevertedSoFar(q)
      BY <2>2, <2>6, <3>2, <3>6, <3>7, <3>8 DEF RevertedSoFar
    <3>10. RecoveredSoFar(q)
      <4>1. Recovering(r) = {} /\ Recovering(q) = {}
        BY <1>1, <2>2 DEF Recovering
      <4> QED
        BY <1>1, <3>1, <4>1 DEF Reverting, RecoveredSoFar
    <3>11. Reverting(q)
      BY <1>1, <2>2, <3>1, <3>9, <3>10 DEF Reverting
    <3> QED
      BY <2>2, <2>8, <3>11 DEF Undo
  <2>9. \A j : j.step = "patch" => (j \in q.jobs <=> j \in r.jobs)
    BY <1>1, <2>2, <2>4
  <2> HIDE DEF r
  <2> QED
    BY <1>1, <2>1, <2>2, <2>7, <2>8, <2>9, HistoryRead DEF r
<1> QED
  BY <1>2, <1>3

LEMMA HistoryRevertClaimsRedirections ==
    ASSUME EntitiesInv, Separate, TidyInv, LedgerInv, UndoInv, NEW s \in Slots,
           RevertClaimsRedirections(s), EntitiesInv'
    PROVE  LedgerInv' /\ UndoInv'
<1> DEFINE r == requests[s]
           context == <<"redirectClaims", r.from>>
           found == patchesOf(context)
           jobs == {revertJob(ep[1], ep[2]) : ep \in found}
           q == [r EXCEPT !.stage = "end", !.jobs = jobs]
<1>1. /\ r \in Requests /\ RequestOK(r) /\ ~idle(s) /\ reads /\ ~r.failed
      /\ r.kind = "revert" /\ r.stage = "redirections" /\ r.jobs = {} /\ r.from \in Ids
  BY DEF EntitiesInv, RevertClaimsRedirections, at, idle, RequestOK
<1>2. goes(s, q)
  BY DEF RevertClaimsRedirections
<1>3. /\ q.kind = "revert" /\ q.stage = "end" /\ q.jobs = jobs
      /\ q.change = r.change /\ q.from = r.from /\ q.to = r.to /\ q.failed = r.failed
  BY <1>1 DEF Requests
<1>4. \A j \in jobs : \E e \in Ids : \E p \in patches[e] :
         /\ j = revertJob(e, p) /\ p.context = context /\ j.step = "revert" /\ j.id = e
         /\ j.patch = p.version
  <2>1. \A ep \in found : ep[1] \in Ids /\ ep[2] \in patches[ep[1]] /\ ep[2].context = context
    BY DEF patchesOf
  <2> HIDE DEF found, context
  <2> QED
    BY <2>1, RevertJobType
<1>5. ASSUME NEW e \in Ids, NEW p \in patches[e], p.context = context
      PROVE  \E j \in jobs : j.id = e /\ j.step = "revert"
  <2>1. <<e, p>> \in found
    BY <1>5 DEF patchesOf
  <2>2. revertJob(e, p) \in jobs
    <3>1. <<e, p>>[1] = e /\ <<e, p>>[2] = p
      OBVIOUS
    <3> HIDE DEF found
    <3> QED
      BY <2>1, <3>1
  <2> HIDE DEF jobs
  <2> QED
    BY <2>2, RevertJobType
<1> HIDE DEF jobs, q, context
<1>6. puts(q) = {} /\ puts(r) = {}
  BY <1>1, <1>3, <1>4 DEF puts
<1>7. ASSUME Ledger(r) PROVE Ledger(q)
  <2>1. context \in ctx(r.from)
    BY DEF ctx, context
  <2>2. \A j \in jobs : \E p \in patches[j.id] : p.version = j.patch /\ p.context \in ctx(r.from)
    BY <1>4, <2>1
  <2>3. ~Pure(r.from)
    BY <1>1, <1>7 DEF Ledger, Restores
  <2>4. Restores(q)
    BY <1>3, <2>2, <2>3 DEF Restores
  <2> QED
    BY <1>3, <1>6, <1>7, <2>4 DEF Ledger
<1>8. ASSUME Undo(r), Clean PROVE Undo(q)
  <2>1. Reverting(r)
    BY <1>1, <1>8 DEF Undo
  <2>2. /\ OnOthers(r.from, r.to) /\ Same(r.from)
        /\ \A e \in Ids \ {r.from} : Halfway(r, e)
    BY <1>1, <2>1 DEF Reverting, RevertedSoFar
  <2>3. \A e \in Ids : written(e) = patches[e]
    BY <1>1, <1>8, NothingWrittenAt DEF Clean
  <2>4. ASSUME NEW e \in Ids, NEW p \in patches[e], p.context = context
        PROVE  marked(r.from, e) = {p} /\ By(e, p)
    <3>1. p \in marked(r.from, e) /\ context # <<"mergeFrom", r.from>>
      BY <2>3, <2>4 DEF marked, ctx, context
    <3>2. e # r.from
      BY <2>2, <3>1 DEF OnOthers
    <3>3. Traced(r.from, e)
      BY <2>2, <2>4, <3>1, <3>2 DEF Halfway
    <3> QED
      BY <3>1, <3>3 DEF Traced
  <2>5. \A j \in jobs : Undoable(q, j)
    BY <1>3, <1>4, <2>4 DEF Undoable
  <2>6. OneJobEach(q)
    <3> SUFFICES ASSUME NEW j \in jobs, NEW k \in jobs, j.id = k.id PROVE j = k
      BY <1>3 DEF OneJobEach
    <3>1. PICK p : j = revertJob(j.id, p) /\ p \in patches[j.id] /\ p.context = context
      BY <1>4
    <3>2. PICK x : k = revertJob(k.id, x) /\ x \in patches[k.id] /\ x.context = context
      BY <1>4
    <3>3. j.id \in Ids
      BY <1>4
    <3>4. {x} = {p}
      BY <2>4, <3>1, <3>2, <3>3
    <3> QED
      BY <3>1, <3>2, <3>4
  <2>7. ASSUME NEW e \in Ids \ {r.from} PROVE Same(e) \/ Undoing(q, e)
    <3>1. CASE \E p \in patches[e] : p.context = context
      BY <1>3, <1>5, <3>1 DEF Undoing
    <3>2. CASE \A p \in patches[e] : p.context # context
      <4>1. Halfway(r, e) /\ ~Undoing(r, e)
        BY <1>1, <2>2 DEF Undoing
      <4> QED
        BY <2>3, <3>2, <4>1 DEF Halfway, Traced, marked, context
    <3> QED
      BY <3>1, <3>2
  <2>8. RevertedSoFar(q)
    BY <1>3, <1>6, <2>2, <2>5, <2>6, <2>7 DEF RevertedSoFar
  <2>9. RecoveredSoFar(q)
    <3>1. Recovering(r) = {} /\ Recovering(q) = {}
      BY <1>1, <1>3 DEF Recovering
    <3> QED
      BY <1>1, <2>1, <3>1 DEF Reverting, RecoveredSoFar
  <2>10. Reverting(q)
    BY <1>1, <1>3, <2>1, <2>8, <2>9 DEF Reverting
  <2> QED
    BY <1>3, <1>8, <2>10 DEF Undo
<1>9. \A j : j.step = "patch" => (j \in q.jobs <=> j \in r.jobs)
  BY <1>1, <1>3, <1>4
<1> HIDE DEF r
<1> QED
  BY <1>1, <1>2, <1>3, <1>7, <1>8, <1>9, HistoryRead DEF r

-----------------------------------------------------------------------------
(* Jobs that read, or post a patch *)

LEMMA HistoryCreatePatch ==
    ASSUME EntitiesInv, Separate, TidyInv, LedgerInv, UndoInv, NEW s \in Slots,
           NEW j \in requests[s].jobs, CreatePatch(s, j), EntitiesInv'
    PROVE  LedgerInv' /\ UndoInv'
<1> DEFINE r == requests[s]
           removed == IF r.stage = "turn" THEN r.removed \cup {j.id} ELSE r.removed
           q == [r EXCEPT !.jobs = r.jobs \ {j}, !.removed = removed]
<1>1. r \in Requests /\ RequestOK(r) /\ ~idle(s) /\ j \in Jobs /\ j.step = "patch"
      /\ j.id \in Ids /\ UNCHANGED <<docs, items, past, beforeMerge>>
  BY DEF EntitiesInv, Requests, RequestOK, JobOK, Writes, idle, CreatePatch
<1>2. CASE throws(s, j)
  BY <1>1, <1>2, HistoryFailure
<1>3. CASE ~throws(s, j)
  <2>1. /\ goes(s, q) /\ patches' = [patches EXCEPT ![j.id] = @ \cup {diffOf(j)}]
        /\ versionned(j.doc) # versionned(j.new)
    BY <1>3 DEF CreatePatch, diffOf
  <2>2. /\ q.kind = r.kind /\ q.stage = r.stage /\ q.from = r.from /\ q.to = r.to
        /\ q.jobs = r.jobs \ {j} /\ q.change = r.change /\ q.failed = r.failed
        /\ q.removed = removed
    BY <1>1 DEF Requests
  <2> HIDE DEF q
  <2>3. \A e \in Ids : written(e)' = written(e)
    BY <1>1, <2>1, <2>2, PostedWritten
  <2>4. \A e \in Ids : patches[e] \subseteq patches'[e]
    BY <1>1, <2>1 DEF EntitiesInv
  <2>5. puts(q) = puts(r) /\ pend(q) = pend(r) \ {j} /\ j \in pend(r)
    BY <1>1, <2>2 DEF puts, pend
  <2>6. Ledger(r) => Ledger(q)
    BY <2>2, <2>5 DEF Ledger, Restores, Noted
  <2>7. \A step \in {"bulk", "claims", "redirectClaims"} : has(q, step) = has(r, step)
    BY <1>1, <2>2, JobType DEF has, Steps
  <2>8. ASSUME Undo(r), r.kind = "merge" PROVE Undo(q)
    <3> SUFFICES ASSUME Pure(r.from) PROVE Merging(q)
      BY <2>2, <2>8 DEF Undo
    <3>1. Merging(r)
      BY <2>8 DEF Undo
    <3>2. Turned(q) = Turned(r) /\ Claiming(q) = Claiming(r) /\ Untouched(q) = Untouched(r)
      BY <2>2, <2>5, <2>7 DEF Turned, Claiming, Untouched
    <3>3. \A k \in puts(q) : MergePut(r, k) => MergePut(q, k)
      BY <2>2, <2>5 DEF MergePut
    <3>4. OneJob(r) => OneJob(q)
      BY <2>2 DEF OneJob
    <3>5. MergedSoFar(q)
      BY <2>2, <2>5, <3>1, <3>2, <3>3, <3>4 DEF Merging, MergedSoFar
    <3>6. ASSUME r.stage = "turn" PROVE Removing(q)
      <4>1. Removing(r) /\ q.removed = r.removed \cup {j.id}
        BY <2>2, <3>1, <3>6 DEF Merging, RemovedSoFar
      <4>2. OneJobEach(q) /\ \A k \in q.jobs : k.id # q.from /\ k.id \notin q.removed
        BY <2>2, <4>1 DEF Removing, OneJobEach
      <4>3. removedNow(j.id) /\ ~wasRemoved(j.id)
        <5>1. /\ removedNow(j.id) /\ content(j.doc) = content(j.new)
              /\ j.new.type = "removed:placeholder"
              /\ (wasRemoved(j.id) <=> j.doc.type = "removed:placeholder")
          BY <2>5, <4>1 DEF Removing
        <5>2. j.doc.type # "removed:placeholder"
          BY <2>1, <5>1 DEF versionned, content
        <5> QED
          BY <5>1, <5>2
      <4>4. \A e \in q.removed : removedNow(e) /\ ~wasRemoved(e)
        BY <4>1, <4>3 DEF Removing
      <4>5. \A e \in Ids \ q.removed :
              (\A k \in pend(q) : k.id # e) => (removedNow(e) <=> wasRemoved(e))
        BY <2>5, <4>1 DEF Removing
      <4>6. \A k \in pend(q) : /\ removedNow(k.id) /\ content(k.doc) = content(k.new)
                               /\ k.new.type = "removed:placeholder"
                               /\ (wasRemoved(k.id) <=> k.doc.type = "removed:placeholder")
        BY <2>5, <4>1 DEF Removing
      <4> QED
        BY <4>2, <4>4, <4>5, <4>6 DEF Removing
    <3>7. RemovedSoFar(q)
      <4>1. r.stage # "turn" => q.removed = r.removed
        BY <2>2
      <4> QED
        BY <2>2, <3>1, <3>2, <3>6, <4>1 DEF Merging, RemovedSoFar
    <3> QED
      BY <2>2, <3>1, <3>5, <3>7 DEF Merging
  <2>9. ASSUME Undo(r), r.kind = "revert", Clean PROVE Undo(q)
    <3>1. Reverting(r) /\ RevertJobs(r)
      BY <1>1, <2>9 DEF Undo, TidyInv, quiet, Progress
    <3>12. r.stage # "restore"
      BY <1>1, <3>1 DEF RevertJobs, RevertSteps
    <3>2. \A e : Undoing(q, e) = Undoing(r, e)
      BY <1>1, <2>2 DEF Undoing
    <3>3. \A e : Halfway(q, e) = Halfway(r, e)
      BY <2>2, <3>2 DEF Halfway
    <3>4. \A k : (Undoable(q, k) = Undoable(r, k)) /\ (RevertPut(q, k) = RevertPut(r, k))
      BY <2>2 DEF Undoable, RevertPut
    <3>5. OneJobEach(r) => OneJobEach(q)
      BY <2>2 DEF OneJobEach
    <3>6. RevertedSoFar(q)
      BY <2>2, <2>5, <3>1, <3>2, <3>3, <3>4, <3>5, <3>12 DEF Reverting, RevertedSoFar
    <3>7. r.stage # "turn"
      BY <1>1, <2>9 DEF RequestOK
    <3>8. q.removed = r.removed
      BY <2>2, <3>7
    <3>9. Recovering(q) = Recovering(r)
      <4>1. {k \in q.jobs : k.step \in {"recover", "put"}}
              = {k \in r.jobs : k.step \in {"recover", "put"}}
        BY <1>1, <2>2
      <4> QED
        BY <2>2, <3>8, <4>1 DEF Recovering
    <3>10. RecoveredSoFar(q)
      BY <2>2, <3>1, <3>9, <3>12 DEF Reverting, RecoveredSoFar
    <3>11. Reverting(q)
      BY <2>2, <2>7, <3>1, <3>6, <3>10 DEF Reverting
    <3> QED
      BY <2>2, <2>9, <3>11 DEF Undo
  <2>10. Clean /\ Undo(r) => Undo(q)
    BY <2>8, <2>9 DEF Undo
  <2> HIDE DEF r
  <2> QED
    BY <1>1, <2>1, <2>2, <2>3, <2>4, <2>6, <2>10, HistoryPost DEF r
<1> QED
  BY <1>2, <1>3

\* A job about an entity goes on, and comes to what it is to write
LEMMA HistoryFollows ==
    ASSUME EntitiesInv, Separate, TidyInv, LedgerInv, UndoInv, NEW s \in Slots,
           NEW j \in requests[s].jobs, NEW next, follows(s, j, next), reads, EntitiesInv',
           \A n, m \in next : n = m, \A n \in next : n.id = j.id /\ n.step \in {"remove", "put"},
           \A n \in next : n.step = "put" =>
               (Clean /\ Ledger(requests[s]) => Noted(requests[s], n)),
           \/ /\ j.step \in {"check", "remove"}
              /\ \A n \in next : n.step = "put" =>
                   /\ n.context = None /\ content(n.new) = content(n.doc)
                   /\ n.new.type = "removed:placeholder"
           \/ /\ j.step = "recover"
              /\ \E n \in next : /\ n.step = "put" /\ content(n.new) = content(n.doc)
                                 /\ n.new.type = "entity"
           \/ /\ j.step = "revert"
              /\ \E n \in next : n.step = "put" /\
                   (Clean /\ requests[s].kind = "revert" /\ Undo(requests[s])
                    /\ Undoable(requests[s], j) =>
                       content(n.new) = was(n.id) /\ n.new.type = n.doc.type)
    PROVE  LedgerInv' /\ UndoInv'
<1> DEFINE r == requests[s]
           q == [r EXCEPT !.jobs = (r.jobs \ {j}) \cup next]
<1>1. r \in Requests /\ r.kind # "none" /\ goes(s, q) /\ ~idle(s)
  BY DEF EntitiesInv, RequestOK, follows, idle
<1>2. /\ q.kind = r.kind /\ q.stage = r.stage /\ q.jobs = (r.jobs \ {j}) \cup next
      /\ q.from = r.from /\ q.to = r.to /\ q.failed = r.failed /\ q.change = r.change
      /\ q.removed = r.removed
  BY <1>1 DEF Requests
<1> HIDE DEF q
<1>3. j.step \notin {"patch", "put"} /\ \A n \in next : n.step # "patch"
  OBVIOUS
<1>4. \A n \in puts(q) : n \in puts(r) \/ n \in next
  BY <1>2 DEF puts
<1>5. pend(q) = pend(r)
  BY <1>2, <1>3 DEF pend
<1>6. Clean => Progress(r)
  BY <1>1 DEF TidyInv, quiet
<1>7. \A step \in {"bulk", "claims", "redirectClaims"} : Job(step, NoUri).step = step
  BY JobType DEF Steps
<1>8. \A step \in {"bulk", "claims", "redirectClaims"} : has(q, step) = has(r, step)
  BY <1>2, <1>7 DEF has
<1>9. ASSUME Clean, Ledger(r) PROVE Ledger(q)
  <2>1. r.kind # "edit"
    BY <1>3, <1>9 DEF Ledger
  <2>2. ASSUME NEW n \in puts(q) PROVE Noted(q, n)
    <3>1. n.step = "put" /\ (n \in puts(r) \/ n \in next)
      BY <1>4 DEF puts
    <3>2. Noted(r, n)
      BY <1>9, <3>1 DEF Ledger
    <3> QED
      BY <1>2, <3>2 DEF Noted
  <2>3. ASSUME r.kind = "revert" PROVE Restores(q)
    <3>1. RevertJobs(r) /\ Restores(r)
      BY <1>6, <1>9, <2>3 DEF Progress, Ledger
    <3>2. r.stage # "items"
      BY <1>3, <3>1 DEF RevertJobs, RevertSteps
    <3>3. \A n \in q.jobs : n.step = "revert" => n \in r.jobs
      BY <1>2
    <3> QED
      BY <1>2, <3>1, <3>2, <3>3 DEF Restores
  <2> QED
    BY <1>2, <1>9, <2>1, <2>2, <2>3 DEF Ledger
<1>10. ASSUME Clean, Undo(r), r.kind = "merge" PROVE Undo(q)
  <2> SUFFICES ASSUME Pure(r.from) PROVE Merging(q)
    BY <1>2, <1>10 DEF Undo
  <2>1. Merging(r) /\ MergeJobs(r)
    BY <1>6, <1>10 DEF Undo, Progress
  <2>2. r.stage = "turn" /\ j.step \in {"check", "remove"}
    BY <2>1 DEF MergeJobs, MergeSteps
  <2>3. ~Turned(q) /\ ~Turned(r) /\ Claiming(r) /\ ~Untouched(q)
    BY <1>2, <2>2 DEF Turned, Claiming, Untouched
  <2>4. ASSUME NEW n \in puts(q) PROVE MergePut(q, n)
    <3>1. CASE n \in puts(r)
      BY <1>2, <2>1, <2>2, <3>1 DEF Merging, MergedSoFar, MergePut
    <3>2. CASE n \in next
      <4>1. n.step = "put"
        BY <2>4 DEF puts
      <4> QED
        BY <1>2, <2>2, <3>2, <4>1 DEF MergePut
    <3> QED
      BY <1>4, <3>1, <3>2
  <2>5. MergedSoFar(q)
    BY <1>2, <2>1, <2>2, <2>3, <2>4 DEF Merging, MergedSoFar
  <2>6. Removing(r)
    BY <2>1, <2>2 DEF Merging, RemovedSoFar
  <2>7. OneJobEach(q) /\ \A k \in q.jobs : k.id # q.from /\ k.id \notin q.removed
    BY <1>2, <2>6 DEF Removing, OneJobEach
  <2>8. Removing(q)
    BY <1>2, <1>5, <2>6, <2>7 DEF Removing
  <2> QED
    BY <1>2, <2>1, <2>2, <2>3, <2>5, <2>8 DEF Merging, RemovedSoFar
<1>11. ASSUME Clean, Recorded, Undo(r), r.kind = "revert" PROVE Undo(q)
  <2>1. Reverting(r) /\ RevertJobs(r)
    BY <1>6, <1>11 DEF Undo, Progress
  <2>2. /\ j.step \in {"recover", "revert"} /\ j.step \in RevertSteps[r.stage]
        /\ r.stage \in DOMAIN RevertSteps
    BY <2>1 DEF RevertJobs, RevertSteps
  <2>3. PICK n \in next : n.step = "put" /\ n.id = j.id
    BY <2>2
  <2>4. next = {n} /\ q.jobs = (r.jobs \ {j}) \cup {n} /\ puts(q) = puts(r) \cup {n}
    BY <1>2, <1>3, <2>3 DEF puts
  <2>5. CASE j.step = "recover"
    <3>1. r.stage = "mergePatch" /\ content(n.new) = content(n.doc) /\ n.new.type = "entity"
      BY <2>2, <2>4, <2>5 DEF RevertSteps
    <3>2. RevertedSoFar(q)
      BY <1>2, <2>1, <2>4, <3>1 DEF Reverting, RevertedSoFar, RevertPut
    <3>3. Recovering(q) = Recovering(r)
      <4>1. {k.id : k \in {x \in q.jobs : x.step \in {"recover", "put"}}}
              = {k.id : k \in {x \in r.jobs : x.step \in {"recover", "put"}}}
        BY <2>3, <2>4, <2>5
      <4> QED
        BY <1>2, <3>1, <4>1 DEF Recovering
    <3>4. RecoveredSoFar(q)
      BY <2>1, <1>2, <3>1, <3>3 DEF Reverting, RecoveredSoFar
    <3>5. Reverting(q)
      BY <1>2, <2>1, <3>1, <3>2, <3>4 DEF Reverting
    <3> QED
      BY <1>2, <1>11, <3>5 DEF Undo
  <2>6. CASE j.step = "revert"
    <3>1. r.stage \in {"redirections", "end"}
      BY <2>2, <2>6 DEF RevertSteps
    <3>2. RevertedSoFar(r) /\ OneJobEach(r) /\ Undoable(r, j)
      BY <2>1, <2>6, <3>1 DEF Reverting, RevertedSoFar
    <3>3. content(n.new) = was(n.id) /\ n.new.type = n.doc.type
      BY <1>11, <2>4, <2>6, <3>2
    <3>4. \A e : Undoing(q, e) = Undoing(r, e)
      BY <2>3, <2>4, <2>6 DEF Undoing
    <3>5. \A e : Halfway(q, e) = Halfway(r, e)
      BY <1>2, <3>4 DEF Halfway
    <3>6. OneJobEach(q)
      BY <2>3, <2>4, <3>2 DEF OneJobEach
    <3>7. \A k \in q.jobs : k.step = "revert" => Undoable(q, k)
      BY <1>2, <2>3, <2>4, <3>1, <3>2 DEF RevertedSoFar, Undoable
    <3>8. \A k \in puts(q) : RevertPut(q, k)
      BY <1>2, <2>4, <3>1, <3>2, <3>3 DEF RevertedSoFar, RevertPut
    <3>9. RevertedSoFar(q)
      BY <1>2, <3>1, <3>2, <3>4, <3>5, <3>6, <3>7, <3>8 DEF RevertedSoFar
    <3>10. RecoveredSoFar(q)
      <4>1. Recovering(q) = Recovering(r)
        BY <1>2, <3>1 DEF Recovering
      <4> QED
        BY <1>2, <2>1, <3>1, <4>1 DEF Reverting, RecoveredSoFar
    <3>11. Reverting(q)
      BY <1>2, <2>1, <3>1, <3>9, <3>10 DEF Reverting
    <3> QED
      BY <1>2, <1>11, <3>11 DEF Undo
  <2> QED
    BY <2>2, <2>5, <2>6
<1>12. Clean /\ Recorded /\ Undo(r) => Undo(q)
  BY <1>10, <1>11 DEF Undo
<1>13. \A n : n.step = "patch" => (n \in q.jobs <=> n \in r.jobs)
  BY <1>2, <1>3
<1> HIDE DEF r
<1> QED
  BY <1>1, <1>2, <1>9, <1>12, <1>13, HistoryRead DEF r

LEMMA HistoryPlaceholderJobs ==
    ASSUME EntitiesInv, Separate, TidyInv, LedgerInv, UndoInv, NEW s \in Slots,
           NEW j \in requests[s].jobs, EntitiesInv',
           DeleteIfIsolated(s, j) \/ RemovePlaceholder(s, j) \/ RecoverPlaceholder(s, j)
    PROVE  LedgerInv' /\ UndoInv'
<1> DEFINE d == docs[j.id]
           r == requests[s]
<1>1. reads
  BY DEF DeleteIfIsolated, RemovePlaceholder, RecoverPlaceholder
<1>2. JobOK(r, j)
  BY DEF EntitiesInv, RequestOK
<1>3. j.step \in {"check", "remove", "recover"}
  BY DEF DeleteIfIsolated, RemovePlaceholder, RecoverPlaceholder
<1>4. j.id \in Ids /\ d \in Docs /\ None \in Contexts
  BY <1>2, <1>3, CurrentDoc DEF JobOK, Ids, Contexts
<1>5. CASE DeleteIfIsolated(s, j)
  <2> DEFINE n == Job("remove", j.id)
  <2>1. j.step = "check" /\ n.step = "remove" /\ n.id = j.id
    BY <1>4, <1>5, JobType DEF DeleteIfIsolated, Steps
  <2>2. PICK next \in SUBSET {n} : follows(s, j, next)
    BY <1>5 DEF DeleteIfIsolated
  <2> HIDE DEF n, r
  <2> QED
    BY <1>1, <2>1, <2>2, HistoryFollows
<1>6. ASSUME NEW type \in {"removed:placeholder", "entity"}, NEW new,
             new = [d EXCEPT !.type = type], NEW n, n = putUpdate(j.id, d, new, None)
      PROVE  /\ n.step = "put" /\ n.id = j.id /\ n.doc = d /\ content(n.new) = content(n.doc)
             /\ n.new.type = type /\ n.context = None
             /\ Clean => Noted(r, n)
  <2>1. new \in Docs /\ content(new) = content(d) /\ new.type = type /\ new.authors = d.authors
    BY <1>4, <1>6 DEF Docs, content
  <2> HIDE DEF d
  <2>2. Clean => Unrepeated(d.authors)
    BY <1>4, DocUnrepeated DEF LedgerInv, d
  <2>5. PICK id : id = j.id
    OBVIOUS
  <2>6. id \in Ids /\ d \in Docs /\ None \in Contexts /\ n = putUpdate(id, d, new, None)
    BY <1>4, <1>6, <2>5
  <2>3. /\ n.step = "put" /\ n.id = j.id /\ n.doc = d /\ content(n.new) = content(new)
        /\ n.new.type = new.type
    BY <2>1, <2>5, <2>6, putUpdateType
  <2>4. n.context = None /\ (Unrepeated(new.authors) => \A x : Noted(x, n))
    BY <2>1, <2>6, putUpdateNoted
  <2> HIDE DEF r
  <2> QED
    BY <2>1, <2>2, <2>3, <2>4
<1>7. CASE RemovePlaceholder(s, j)
  <2> DEFINE new == [d EXCEPT !.type = "removed:placeholder"]
             n == putUpdate(j.id, d, new, None)
  <2>1. j.step = "remove"
    BY <1>7 DEF RemovePlaceholder
  <2>2. PICK next \in SUBSET {n} : follows(s, j, next)
    BY <1>7 DEF RemovePlaceholder
  <2>3. /\ n.step = "put" /\ n.id = j.id /\ n.doc = d /\ content(n.new) = content(n.doc)
        /\ n.new.type = "removed:placeholder" /\ n.context = None
        /\ Clean => Noted(r, n)
    BY <1>6
  <2> HIDE DEF n
  <2> QED
    BY <1>1, <2>1, <2>2, <2>3, HistoryFollows
<1>8. CASE RecoverPlaceholder(s, j)
  <2> DEFINE new == [d EXCEPT !.type = "entity"]
             n == putUpdate(j.id, d, new, None)
  <2>1. j.step = "recover" /\ follows(s, j, {n})
    BY <1>8 DEF RecoverPlaceholder
  <2>2. /\ n.step = "put" /\ n.id = j.id /\ n.doc = d /\ content(n.new) = content(n.doc)
        /\ n.new.type = "entity" /\ n.context = None
        /\ Clean => Noted(r, n)
    BY <1>6
  <2> HIDE DEF n
  <2>3. PICK next : next = {n}
    OBVIOUS
  <2> QED
    BY <1>1, <2>1, <2>2, <2>3, HistoryFollows
<1> QED
  BY <1>5, <1>7, <1>8

LEMMA HistoryRevertFromPatchDoc ==
    ASSUME EntitiesInv, Separate, TidyInv, LedgerInv, UndoInv, NEW s \in Slots,
           NEW j \in requests[s].jobs, EntitiesInv', RevertFromPatchDoc(s, j)
    PROVE  LedgerInv' /\ UndoInv'
<1> DEFINE e == j.id
           d == docs[j.id]
           r == requests[s]
           patch == {p \in patches[e] : p.version = j.patch}
           reverted == UNION {revertPatch(d, p) : p \in patch}
           N(new) == [putUpdate(e, d, new, None) EXCEPT !.patch = j.patch]
<1>1. reads /\ j.step = "revert" /\ ~idle(s) /\ r.kind # "none"
  BY DEF RevertFromPatchDoc, EntitiesInv, RequestOK, idle
<1>2. JobOK(r, j)
  BY DEF EntitiesInv, RequestOK
<1>3. e \in Ids /\ d \in Docs /\ None \in Contexts /\ EntityOK(e)
  BY <1>1, <1>2, CurrentDoc DEF JobOK, Contexts, EntitiesInv
<1>4. CASE reverted = {}
  <2>1. throws(s, j)
    BY <1>4 DEF RevertFromPatchDoc
  <2> QED
    BY <1>1, <2>1, HistoryFailure
<1>5. CASE reverted # {}
  <2>1. PICK new \in reverted : follows(s, j, {N(new)})
    BY <1>5 DEF RevertFromPatchDoc
  <2>2. PICK p \in patch : new \in revertPatch(d, p)
    OBVIOUS
  <2>3. /\ p \in patches[e] /\ p.version = j.patch /\ p.before \in Contents /\ p.after \in Contents
        /\ \A x \in written(e) : x.version = j.patch => x = p
    BY <1>3, <2>2 DEF EntityOK, Patches, Follow, written
  <2>4. PICK la \in patchLabels(p.after.labels, p.before.labels, d.labels) \X
                     revertAuthors(p.before.authors, p.after.authors, d.authors) :
            new = [d EXCEPT !.labels = la[1], !.authors = la[2]]
    BY <2>2 DEF revertPatch
  <2>5. new \in Docs /\ new.authors = la[2] /\ new.type = d.type
    <3>1. la[1] \in SUBSET Labels
      BY <1>3, <2>3, <2>4 DEF patchLabels, Contents, Docs
    <3>2. la[2] \in Seq(Authors)
      BY <1>3, <2>3, <2>4, revertAuthorsType DEF Contents, Docs
    <3> QED
      BY <1>3, <2>4, <3>1, <3>2 DEF Docs
  <2> DEFINE n == N(new)
             m == putUpdate(e, d, new, None)
  <2> HIDE DEF reverted, patch
  <2>6. /\ m \in Jobs /\ m.step = "put" /\ m.id = e /\ m.doc = d /\ content(m.new) = content(new)
        /\ m.new.type = new.type /\ m.context = None
    <3> HIDE DEF d, e, m
    <3> QED
      BY <1>3, <2>5, putUpdateType, putUpdateNoted DEF m
  <2>7. n = [m EXCEPT !.patch = j.patch]
    OBVIOUS
  <2> HIDE DEF n, m, N
  <2>8. /\ n.step = "put" /\ n.id = e /\ n.doc = d /\ content(n.new) = content(new)
        /\ n.new.type = d.type /\ n.context = None
    BY <2>5, <2>6, <2>7 DEF Jobs
  <2>9. ASSUME Clean, Ledger(r) PROVE Noted(r, n)
    <3>1. Progress(r)
      BY <1>1, <2>9 DEF TidyInv, quiet
    <3>2. r.kind = "revert"
      <4>1. r.kind # "edit"
        <5> SUFFICES ASSUME r.kind = "edit" PROVE FALSE
          OBVIOUS
        <5> QED
          BY <1>1, <2>9 DEF Ledger
      <4>2. r.kind # "merge"
        BY <1>1, <3>1 DEF Progress, MergeJobs, MergeSteps
      <4> QED
        BY <1>1, <4>1, <4>2 DEF EntitiesInv, Requests
    <3>3. Restores(r) /\ RevertJobs(r)
      BY <2>9, <3>1, <3>2 DEF Ledger, Progress
    <3>4. p.context \in ctx(r.from)
      BY <1>1, <2>3, <3>3 DEF Restores, written
    <3>5. ~Pure(r.from) /\ r.from \in Ids
      <4>1. r.stage \notin {"restore", "items"}
        BY <1>1, <3>3 DEF RevertJobs, RevertSteps
      <4> QED
        BY <1>1, <3>3, <4>1 DEF Restores, EntitiesInv, RequestOK
    <3>6. TakesFirst(p.before.authors, p.after.authors)
          \/ GivesUp(p.before.authors, p.after.authors, r.from)
      BY <1>3, <2>3, <2>9, <3>4, <3>5 DEF LedgerInv, Told, ForMerge, ctx, written
    <3>7. Unrepeated(d.authors)
      BY <1>3, <2>9, DocUnrepeated DEF LedgerInv
    <3>8. Unrepeated(new.authors)
      <4> SUFFICES ASSUME NEW x \in Ids, Pure(x) PROVE Once(x, new.authors)
        BY DEF Unrepeated
      <4>1. x # r.from /\ Once(x, d.authors)
        BY <3>5, <3>7 DEF Unrepeated
      <4>2. la[2] \in revertAuthors(p.before.authors, p.after.authors, d.authors)
        BY <2>4
      <4>3. p.before.authors \in Seq(Authors) /\ p.after.authors \in Seq(Authors)
            /\ d.authors \in Seq(Authors)
        BY <1>3, <2>3 DEF Contents, Docs
      <4>5. PICK b, a, l, v, f : /\ b = p.before.authors /\ a = p.after.authors /\ l = d.authors
                                /\ v = la[2] /\ f = r.from
        OBVIOUS
      <4>6. /\ TakesFirst(b, a) \/ GivesUp(b, a, f)
            /\ v \in revertAuthors(b, a, l) /\ x # f /\ Once(x, l)
            /\ b \in Seq(Authors) /\ a \in Seq(Authors) /\ l \in Seq(Authors)
        BY <3>6, <4>1, <4>2, <4>3, <4>5
      <4>7. Once(x, v)
        BY <4>6, RevertedClaims
      <4>4. Once(x, la[2])
        BY <4>5, <4>7
      <4> QED
        BY <2>5, <4>4
    <3>9. n.new.authors = new.authors
      BY <2>8 DEF content
    <3> QED
      BY <2>8, <3>8, <3>9, NotedWrite
  <2>10. ASSUME Undoable(r, j) PROVE content(n.new) = was(n.id) /\ n.new.type = n.doc.type
    <3>1. PICK x \in patches[e] : By(e, x) /\ x.version = j.patch
      BY <2>10 DEF Undoable
    <3>2. x = p
      BY <2>3, <3>1 DEF written
    <3>3. content(new) = content(p.before)
      BY <1>3, <2>2, <2>3, <3>1, <3>2, RevertedContent DEF By
    <3> QED
      BY <2>8, <3>1, <3>2, <3>3 DEF By
  <2>11. PICK next : next = {n} /\ follows(s, j, next)
    BY <2>1 DEF n
  <2> HIDE DEF r
  <2> QED
    BY <1>1, <2>8, <2>9, <2>10, <2>11, HistoryFollows DEF r
<1> QED
  BY <1>4, <1>5

LEMMA HistoryAfterMerge ==
    ASSUME EntitiesInv, Separate, TidyInv, LedgerInv, UndoInv, NEW s \in Slots,
           NEW j \in requests[s].jobs, AfterMerge(s, j), EntitiesInv'
    PROVE  LedgerInv' /\ UndoInv'
<1> DEFINE r == requests[s]
           copies == copiesOf(on(r.from))
           bulk == Job("bulk", NoUri)
           q == [r EXCEPT !.copies = copies, !.jobs = (r.jobs \ {j}) \cup {bulk}]
<1>1. /\ r \in Requests /\ RequestOK(r) /\ ~idle(s) /\ reads /\ j.step = "items"
      /\ r.kind = "merge" /\ r.stage = "end" /\ goes(s, q)
  BY DEF EntitiesInv, RequestOK, JobOK, AfterMerge, on, idle
<1>2. /\ q.kind = "merge" /\ q.stage = "end" /\ q.jobs = (r.jobs \ {j}) \cup {bulk}
      /\ q.from = r.from /\ q.to = r.to /\ q.failed = r.failed /\ q.change = r.change
  BY <1>1 DEF Requests
<1>3. bulk.step = "bulk" /\ Job("claims", NoUri).step = "claims"
      /\ Job("redirectClaims", NoUri).step = "redirectClaims"
  BY JobType DEF Steps
<1> HIDE DEF q, copies
<1>4. puts(q) = puts(r)
  BY <1>1, <1>2, <1>3 DEF puts
<1>5. has(q, "claims") = has(r, "claims") /\ has(q, "redirectClaims") = has(r, "redirectClaims")
  BY <1>1, <1>2, <1>3 DEF has
<1>6. Ledger(r) => Ledger(q)
  BY <1>1, <1>2, <1>4 DEF Ledger, Noted
<1>7. ASSUME Undo(r) PROVE Undo(q)
  <2> SUFFICES ASSUME Pure(r.from) PROVE Merging(q)
    BY <1>1, <1>2, <1>7 DEF Undo
  <2>1. Merging(r)
    BY <1>1, <1>7 DEF Undo
  <2>2. Turned(q) /\ Turned(r) /\ (Claiming(q) => Claiming(r)) /\ ~Untouched(q)
    BY <1>1, <1>2, <1>5 DEF Turned, Claiming, Untouched
  <2>3. \A k \in puts(q) : MergePut(r, k) => MergePut(q, k)
    BY <1>1, <1>2, <1>4 DEF MergePut
  <2>4. MergedSoFar(q)
    BY <1>2, <1>4, <2>1, <2>2, <2>3 DEF Merging, MergedSoFar
  <2>5. RemovedSoFar(q)
    BY <1>2, <2>1, <2>2 DEF Merging, RemovedSoFar
  <2> QED
    BY <1>2, <2>1, <2>4, <2>5 DEF Merging
<1>8. \A n : n.step = "patch" => (n \in q.jobs <=> n \in r.jobs)
  BY <1>1, <1>2, <1>3
<1> HIDE DEF r
<1> QED
  BY <1>1, <1>2, <1>6, <1>7, <1>8, HistoryRead DEF r

\* Each row of a work gives one result
LEMMA RedirectedClaimsSingle ==
    ASSUME NEW b, NEW rows, NEW from, NEW to
    PROVE  Single(applyRedirections(b, rows, from, to))
<1>1. \A a : Single(redirectClaim(a, from, to))
  BY DEF redirectClaim, Single
<1>2. \A a, x \in redirectClaim(b, from, to) : a = x
  BY <1>1 DEF Single
<1>3. CASE redirectClaim(b, from, to) = {}
  BY <1>1, <1>3 DEF applyRedirections, Single
<1>4. CASE redirectClaim(b, from, to) # {}
  <2>1. PICK a : redirectClaim(b, from, to) = {a}
    BY <1>2, <1>4
  <2>2. UNION {redirectClaim(x, from, to) : x \in redirectClaim(b, from, to)}
          = redirectClaim(a, from, to)
    BY <2>1
  <2> QED
    BY <1>1, <2>2 DEF applyRedirections, Single
<1> QED
  BY <1>3, <1>4

\* What redirecting the claims of a work is about to write of it
LEMMA RedirectedClaimsNoted ==
    ASSUME EntitiesInv, NEW r \in Requests, RequestOK(r), r.kind = "merge",
           r.found = rowsOf(r.from), NEW w \in byClaimsValue(r.from),
           NEW a \in applyRedirections(docs[w].authors, r.found[w], r.from, r.to),
           NEW n, n = putUpdate(w, docs[w], [docs[w] EXCEPT !.authors = a],
                                <<"redirectClaims", r.from>>)
    PROVE  /\ n.step = "put" /\ n.id = w /\ n.doc = docs[w] /\ n.new.type = n.doc.type
           /\ n.context = <<"redirectClaims", r.from>> /\ w \in Works /\ r.from \in Humans
           /\ Unrepeated(docs[w].authors) => Noted(r, n)
           /\ Once(r.from, docs[w].authors) => Undoes(diffOf(n))
<1> DEFINE d == docs[w]
           new == [d EXCEPT !.authors = a]
           context == <<"redirectClaims", r.from>>
<1>1. w \in Works /\ w \in Ids /\ d \in Docs /\ d.authors \in Seq(Authors)
      /\ r.from \in ToSet(d.authors)
  BY CurrentDoc DEF Ids, Docs, byClaimsValue
<1>2. r.from \in Ids /\ r.to \in Uris /\ sameType(r.from, r.to) /\ r.from # r.to
  BY DEF RequestOK
<1>3. r.from \in Authors => r.to \in Authors
  BY <1>2, EntitiesAssumption DEF sameType, Authors, Ids, Uris, Wikidata
<1>4. r.found[w] = Cardinality({n1 \in DOMAIN d.authors : d.authors[n1] = r.from})
  BY DEF rowsOf
<1>5. /\ a \in Seq(Authors) /\ GivesUp(d.authors, a, r.from)
      /\ \A x : Once(x, d.authors) => Once(x, a)
      /\ Once(r.from, d.authors) => revertAuthors(d.authors, a, a) \subseteq {d.authors}
  <2>1. PICK b, f, t : b = d.authors /\ f = r.from /\ t = r.to
    OBVIOUS
  <2>2. /\ b \in Seq(Authors) /\ f # t /\ (f \in Authors => t \in Authors)
        /\ a \in applyRedirections(b, Cardinality({k \in DOMAIN b : b[k] = f}), f, t)
    BY <1>1, <1>2, <1>3, <1>4, <2>1
  <2>3. /\ a \in Seq(Authors) /\ GivesUp(b, a, f) /\ \A x : Once(x, b) => Once(x, a)
        /\ Once(f, b) => revertAuthors(b, a, a) \subseteq {b}
    BY <2>2, RedirectedClaims
  <2> QED
    BY <2>1, <2>3
<1>6. r.from \in Humans
  <2>1. r.from \in Authors
    BY <1>1 DEF ToSet
  <2> QED
    BY <1>2, <2>1, EntitiesAssumption DEF Authors, Ids
<1>7. /\ new \in Docs /\ new.redirect = d.redirect /\ new.authors = a /\ new.type = d.type
  BY <1>1, <1>5 DEF Docs
<1>8. context \in Contexts
  BY <1>2 DEF Contexts
<1>9. n = putUpdate(w, d, new, context)
  OBVIOUS
<1> HIDE DEF new, d
<1>10. /\ n.step = "put" /\ n.id = w /\ n.doc = d /\ content(n.new) = content(new)
       /\ n.new.redirect = new.redirect /\ n.new.type = new.type /\ n.context = context
  <2> HIDE DEF context
  <2> QED
    BY <1>1, <1>7, <1>8, <1>9, putUpdateType, putUpdateNoted
<1>11. n.new.authors = a
  BY <1>7, <1>10 DEF content
<1>12. /\ diffOf(n).before.authors = d.authors /\ diffOf(n).after.authors = a
       /\ diffOf(n).before.redirect = d.redirect /\ diffOf(n).after.redirect = d.redirect
       /\ diffOf(n).context = context
  BY <1>7, <1>10, <1>11 DEF diffOf, getDiff, versionned
<1>13. ForMerge(diffOf(n))
  BY <1>5, <1>12 DEF ForMerge
<1>14. Unrepeated(d.authors) => Unrepeated(n.new.authors)
  BY <1>5, <1>11 DEF Unrepeated
<1>15. \A e \in Ids : n.context \in ctx(e) => r.from = e
  BY <1>10 DEF ctx
<1>16. Once(r.from, d.authors) => Undoes(diffOf(n))
  BY <1>5, <1>12 DEF Undoes
<1> QED
  BY <1>1, <1>6, <1>7, <1>10, <1>13, <1>14, <1>15, <1>16 DEF Noted, d

LEMMA HistoryRedirectClaims ==
    ASSUME EntitiesInv, Separate, TidyInv, LedgerInv, UndoInv, NEW s \in Slots,
           NEW j \in requests[s].jobs, RedirectClaims(s, j), EntitiesInv'
    PROVE  LedgerInv' /\ UndoInv'
<1> DEFINE r == requests[s]
           updates(w) == {[docs[w] EXCEPT !.authors = a] :
                            a \in applyRedirections(docs[w].authors, r.found[w], r.from, r.to)}
           context == <<"redirectClaims", r.from>>
           writes == UNION {{putUpdate(w, docs[w], new, context) : new \in updates(w)} :
                              w \in DOMAIN r.found}
           Q(found, next) == [r EXCEPT !.found = found, !.jobs = (r.jobs \ {j}) \cup next]
           redirect == Job("redirectClaims", NoUri)
<1>1. /\ r \in Requests /\ RequestOK(r) /\ reads /\ ~idle(s)
      /\ r.kind = "merge" /\ r.stage = "end" /\ j.step \in {"claims", "redirectClaims"}
  BY DEF EntitiesInv, RequestOK, JobOK, RedirectClaims, idle
<1>2. \A found, next :
         LET q == Q(found, next) IN
         /\ q.kind = "merge" /\ q.stage = "end" /\ q.change = r.change
         /\ q.jobs = (r.jobs \ {j}) \cup next
         /\ q.from = r.from /\ q.to = r.to /\ q.failed = r.failed
  BY <1>1 DEF Requests
<1>3. \A step \in {"claims", "redirectClaims"} : Job(step, NoUri).step = step
  BY JobType DEF Steps
<1> HIDE DEF Q
<1>4. Clean => Progress(r)
  BY <1>1 DEF TidyInv, quiet
<1>5. ASSUME NEW found, NEW next, goes(s, Q(found, next)),
             \A n \in next : n.step # "patch",
             Clean => Claiming(r),
             ASSUME Clean, Ledger(r), NEW n \in next, n.step = "put" PROVE Noted(r, n),
             ASSUME Clean, Ledger(r), Merging(r), Pure(r.from), NEW n \in next, n.step = "put"
             PROVE  /\ n.context = context /\ Undoes(diffOf(n)) /\ n.new.type = n.doc.type
                    /\ marked(r.from, n.id) = {} /\ n.id # r.from
                    /\ \A k \in puts(Q(found, next)) : k.id = n.id => k = n,
             Clean /\ next # {redirect} => puts(r) = {}
      PROVE  LedgerInv' /\ UndoInv'
  <2> DEFINE q == Q(found, next)
  <2>1. /\ q.kind = "merge" /\ q.stage = "end" /\ q.jobs = (r.jobs \ {j}) \cup next
        /\ q.from = r.from /\ q.to = r.to /\ q.failed = r.failed /\ q.change = r.change
    BY <1>2
  <2> HIDE DEF q
  <2>2. \A n \in puts(q) : n \in puts(r) \/ (n \in next /\ n.step = "put")
    BY <2>1 DEF puts
  <2>3. ASSUME Clean, Ledger(r) PROVE Ledger(q)
    <3>1. \A n \in puts(q) : Noted(r, n)
      BY <1>5, <2>2, <2>3 DEF Ledger
    <3> QED
      BY <1>1, <2>1, <2>3, <3>1 DEF Ledger, Noted
  <2>4. ASSUME Clean, Ledger(r), Undo(r) PROVE Undo(q)
    <3> SUFFICES ASSUME Pure(r.from) PROVE Merging(q)
      BY <1>1, <2>1, <2>4 DEF Undo
    <3>1. Merging(r) /\ Claiming(r)
      BY <1>1, <1>5, <2>4 DEF Undo
    <3>2. Turned(q) /\ Turned(r) /\ ~Untouched(q)
      BY <1>1, <2>1 DEF Turned, Untouched
    <3>3. ASSUME NEW n \in puts(q) PROVE MergePut(q, n)
      <4>1. CASE n \in next /\ n.step = "put"
        BY <1>5, <2>1, <2>4, <3>1, <3>3, <4>1 DEF MergePut, q
      <4>2. CASE ~(n \in next /\ n.step = "put")
        <5>1. n \in puts(r)
          BY <2>2, <3>3, <4>2
        <5>2. next = {redirect} /\ redirect.step = "redirectClaims"
          BY <1>3, <1>5, <2>4, <5>1
        <5>3. puts(q) \subseteq puts(r)
          BY <2>2, <5>2
        <5>4. MergePut(r, n)
          BY <3>1, <5>1 DEF Merging, MergedSoFar
        <5> QED
          BY <1>1, <2>1, <5>3, <5>4 DEF MergePut
      <4> QED
        BY <4>1, <4>2
    <3>4. MergedSoFar(q)
      BY <1>1, <2>1, <3>1, <3>2, <3>3 DEF Merging, MergedSoFar
    <3>5. RemovedSoFar(q)
      BY <2>1, <3>1, <3>2 DEF Merging, RemovedSoFar
    <3> QED
      BY <2>1, <3>1, <3>4, <3>5 DEF Merging
  <2>5. \A n : n.step = "patch" => (n \in q.jobs <=> n \in r.jobs)
    BY <1>1, <1>5, <2>1
  <2>6. Clean => Ledger(r)
    BY <1>1 DEF LedgerInv
  <2>7. goes(s, q)
    BY <1>5 DEF q
  <2>8. Clean /\ Undo(r) => Undo(q)
    BY <2>4, <2>6
  <2> HIDE DEF r
  <2> QED
    BY <1>1, <2>1, <2>3, <2>5, <2>7, <2>8, HistoryRead DEF r
<1>6. CASE j.step = "claims"
  <2>1. goes(s, Q(rowsOf(r.from), {redirect}))
    BY <1>6 DEF RedirectClaims, Q
  <2>2. Clean => Claiming(r)
    BY <1>1, <1>4, <1>6 DEF Progress, MergeJobs, Claiming, has
  <2>3. redirect.step = "redirectClaims"
    BY <1>3
  <2> HIDE DEF redirect, r
  <2> QED
    BY <1>5, <2>1, <2>2, <2>3
<1>7. CASE j.step = "redirectClaims" /\ \E w \in DOMAIN r.found : updates(w) = {}
  <2>1. throws(s, j)
    BY <1>7 DEF RedirectClaims
  <2> QED
    BY <1>1, <2>1, HistoryFailure
<1>8. CASE j.step = "redirectClaims" /\ \A w \in DOMAIN r.found : updates(w) # {}
  <2>1. goes(s, Q(<<>>, writes))
    BY <1>8 DEF RedirectClaims, Q
  <2>2. Clean => has(r, "redirectClaims") /\ puts(r) = {} /\ r.found = rowsOf(r.from)
    <3> SUFFICES ASSUME Clean
                 PROVE  has(r, "redirectClaims") /\ puts(r) = {} /\ r.found = rowsOf(r.from)
      OBVIOUS
    <3>1. MergeJobs(r) /\ MergeClaims(r)
      BY <1>1, <1>4 DEF Progress
    <3>2. has(r, "redirectClaims")
      BY <1>8, <3>1 DEF MergeJobs, has
    <3> QED
      BY <1>1, <3>1, <3>2 DEF MergeClaims
  <2>3. ASSUME NEW n \in writes
        PROVE  \E w \in DOMAIN r.found :
                 \E a \in applyRedirections(docs[w].authors, r.found[w], r.from, r.to) :
                   n = putUpdate(w, docs[w], [docs[w] EXCEPT !.authors = a], context)
    <3>1. PICK w \in DOMAIN r.found : \E new \in updates(w) :
                  n = putUpdate(w, docs[w], new, context)
      OBVIOUS
    <3> QED
      BY <3>1
  <2> HIDE DEF writes
  <2>4. \A n \in writes : n.step = "put"
    <3> SUFFICES ASSUME NEW n \in writes PROVE n.step = "put"
      OBVIOUS
    <3>1. PICK w \in DOMAIN r.found :
             \E a \in applyRedirections(docs[w].authors, r.found[w], r.from, r.to) :
                n = putUpdate(w, docs[w], [docs[w] EXCEPT !.authors = a], context)
      BY <2>3
    <3>2. w \in Works
      BY <1>1, <3>1 DEF Requests
    <3> HIDE DEF r
    <3> QED
      BY <1>1, <3>1, <3>2, RedirectedClaimsOK
  <2>5. ASSUME Clean, Ledger(r), NEW n \in writes
        PROVE  /\ n.context = context /\ n.new.type = n.doc.type /\ Noted(r, n)
               /\ n.id \in Works /\ r.from \in Humans /\ n.id \in Ids
               /\ Once(r.from, docs[n.id].authors) => Undoes(diffOf(n))
               /\ Unrepeated(docs[n.id].authors)
               /\ \A k \in writes : k.id = n.id => k = n
    <3>1. ASSUME NEW k \in writes
          PROVE  \E w \in byClaimsValue(r.from) :
                   \E a \in applyRedirections(docs[w].authors, r.found[w], r.from, r.to) :
                     k = putUpdate(w, docs[w], [docs[w] EXCEPT !.authors = a], context)
      <4>1. DOMAIN r.found = byClaimsValue(r.from)
        BY <2>2, <2>5 DEF rowsOf
      <4> QED
        BY <2>3, <4>1
    <3>2. \A k \in writes : k.id \in byClaimsValue(r.from) /\
                   \E a \in applyRedirections(docs[k.id].authors, r.found[k.id], r.from, r.to) :
                     k = putUpdate(k.id, docs[k.id], [docs[k.id] EXCEPT !.authors = a], context)
      <4> SUFFICES ASSUME NEW k \in writes
                   PROVE  k.id \in byClaimsValue(r.from) /\
                     \E a \in applyRedirections(docs[k.id].authors, r.found[k.id], r.from, r.to) :
                       k = putUpdate(k.id, docs[k.id], [docs[k.id] EXCEPT !.authors = a], context)
        OBVIOUS
      <4>1. PICK w \in byClaimsValue(r.from) :
                   \E a \in applyRedirections(docs[w].authors, r.found[w], r.from, r.to) :
                     k = putUpdate(w, docs[w], [docs[w] EXCEPT !.authors = a], context)
        BY <3>1
      <4>2. k.id = w
        BY <4>1 DEF putUpdate, NoJob
      <4> QED
        BY <4>1, <4>2
    <3>3. PICK w \in byClaimsValue(r.from) :
             /\ w = n.id
             /\ \E a \in applyRedirections(docs[w].authors, r.found[w], r.from, r.to) :
                  n = putUpdate(w, docs[w], [docs[w] EXCEPT !.authors = a], context)
      BY <3>2
    <3>4. w \in Ids
      BY DEF byClaimsValue, Ids
    <3>5. Unrepeated(docs[w].authors)
      BY <2>5, <3>4, DocUnrepeated DEF LedgerInv
    <3>6. r.found = rowsOf(r.from)
      BY <2>2, <2>5
    <3> HIDE DEF r
    <3>7. /\ n.context = context /\ n.new.type = n.doc.type /\ w \in Works /\ r.from \in Humans
          /\ Noted(r, n) /\ (Once(r.from, docs[w].authors) => Undoes(diffOf(n)))
      <4>1. PICK a \in applyRedirections(docs[w].authors, r.found[w], r.from, r.to) :
                  n = putUpdate(w, docs[w], [docs[w] EXCEPT !.authors = a], context)
        BY <3>3
      <4>2. /\ n.new.type = n.doc.type /\ n.context = context /\ w \in Works
            /\ r.from \in Humans /\ (Unrepeated(docs[w].authors) => Noted(r, n))
            /\ (Once(r.from, docs[w].authors) => Undoes(diffOf(n)))
        BY <1>1, <3>6, <4>1, RedirectedClaimsNoted
      <4> QED
        BY <3>5, <4>2
    <3>8. \A k \in writes : k.id = w => k = n
      <4> SUFFICES ASSUME NEW k \in writes, k.id = w PROVE k = n
        OBVIOUS
      <4>1. \A a, b \in applyRedirections(docs[w].authors, r.found[w], r.from, r.to) : a = b
        BY RedirectedClaimsSingle DEF Single
      <4> QED
        BY <3>2, <3>3, <4>1
    <3> QED
      BY <3>3, <3>4, <3>5, <3>7, <3>8
  <2>6. ASSUME Clean, Ledger(r), Merging(r), Pure(r.from), NEW n \in writes
        PROVE  /\ n.context = context /\ Undoes(diffOf(n)) /\ n.new.type = n.doc.type
               /\ marked(r.from, n.id) = {} /\ n.id # r.from
               /\ \A k \in puts(Q(<<>>, writes)) : k.id = n.id => k = n
    <3>1. /\ n.context = context /\ n.new.type = n.doc.type
          /\ n.id \in Works /\ r.from \in Humans /\ n.id \in Ids
          /\ Once(r.from, docs[n.id].authors) => Undoes(diffOf(n))
          /\ Unrepeated(docs[n.id].authors)
          /\ \A k \in writes : k.id = n.id => k = n
      BY <2>5, <2>6
    <3>2. r.from \in Ids /\ sameType(r.from, r.to)
      BY <1>1 DEF RequestOK
    <3>3. Once(r.from, docs[n.id].authors)
      BY <2>6, <3>1, <3>2 DEF Unrepeated
    <3>4. Claiming(r) /\ MergedSoFar(r)
      BY <2>2, <2>6 DEF Claiming, Merging
    <3>5. marked(r.from, n.id) = {}
      <4> SUFFICES ASSUME NEW p \in marked(r.from, n.id) PROVE FALSE
        OBVIOUS
      <4>1. p \in written(n.id) /\ p.context \in ctx(r.from)
        BY DEF marked
      <4>2. p.context = <<"mergeFrom", r.from>>
        BY <3>1, <3>4, <4>1 DEF MergedSoFar, ctx
      <4>3. n.id = r.to
        BY <3>1, <3>4, <4>2 DEF MergedSoFar, OnOthers
      <4> QED
        BY <3>1, <3>2, <4>3, EntitiesAssumption DEF sameType
    <3>6. n.id # r.from
      BY <3>1, EntitiesAssumption
    <3>7. puts(Q(<<>>, writes)) \subseteq writes
      <4>1. Q(<<>>, writes).jobs = (r.jobs \ {j}) \cup writes
        BY <1>2
      <4> QED
        BY <2>2, <2>6, <4>1 DEF puts
    <3> QED
      BY <3>1, <3>3, <3>5, <3>6, <3>7
  <2>7. Clean => Claiming(r)
    BY <2>2 DEF Claiming
  <2> HIDE DEF r, redirect
  <2>8. \A n \in writes : n.step # "patch"
    BY <2>4
  <2> QED
    BY <1>5, <2>1, <2>2, <2>5, <2>6, <2>7, <2>8
<1> QED
  BY <1>1, <1>6, <1>7, <1>8

-----------------------------------------------------------------------------
(* Items are moved, then moved back *)

\* An item that the merge moves
LEMMA MovedAway ==
    ASSUME NEW i \in Items, items[i] \in ItemDocs, NEW from, NEW to, from # to,
           items[i].entity = from, KeptOrMoved(i, from, to), UNCHANGED beforeMerge,
           items'[i] = updateEntity(items[i], to)
    PROVE  KeptOrMoved(i, from, to)'
<1>1. Kept(i) /\ from \notin ToSet(items[i].previousEntity)
  BY DEF KeptOrMoved
<1>2. /\ items'[i].entity = to
      /\ items'[i].previousEntity = <<from>> \o items[i].previousEntity
  BY DEF updateEntity, ItemDocs
<1>3. wasAt(i)' = wasAt(i)
  BY DEF wasAt
<1>4. wasAt(i)[1] = from /\ wasAt(i)[2] = items[i].previousEntity
  BY <1>1 DEF Kept
<1> QED
  BY <1>1, <1>2, <1>3, <1>4 DEF KeptOrMoved

\* An item that the revert moves back
LEMMA MovedBack ==
    ASSUME NEW i \in Items, items[i] \in ItemDocs, NEW from, NEW to, UNCHANGED beforeMerge,
           from \in ToSet(items[i].previousEntity), KeptOrMoved(i, from, to), Recorded,
           items'[i] = revertEntity(items[i])
    PROVE  Kept(i)'
<1> DEFINE x == wasAt(i)[2]
           prev == items[i].previousEntity
<1>1. wasAt(i)[1] = from /\ prev = <<from>> \o x
  BY DEF KeptOrMoved
<1>2. x \in Seq(Works) /\ prev \in Seq(Works)
  BY DEF Recorded, ItemDocs
<1>3. items'[i].entity = Head(prev) /\ items'[i].previousEntity = Tail(prev)
  BY DEF revertEntity, ItemDocs
<1>4. wasAt(i)' = wasAt(i)
  BY DEF wasAt
<1> HIDE DEF x, prev
<1>5. prev # <<>> /\ Head(prev) = prev[1]
  BY <1>1, <1>2
<1>6. Len(prev) = Len(x) + 1 /\ prev[1] = from /\ \A n \in 2..(Len(x) + 1) : prev[n] = x[n - 1]
  BY <1>1, <1>2
<1>7. Tail(prev) \in Seq(Works) /\ Len(Tail(prev)) = Len(x)
      /\ \A n \in 1..Len(x) : Tail(prev)[n] = prev[n + 1]
  BY <1>2, <1>5, <1>6
<1>8. ASSUME NEW n \in 1..Len(x) PROVE Tail(prev)[n] = x[n]
  <2>1. n + 1 \in 2..(Len(x) + 1) /\ n + 1 - 1 = n
    BY <1>2
  <2> QED
    BY <1>6, <1>7, <2>1
<1>9. Tail(prev) = x
  BY <1>2, <1>7, <1>8, SameSequence
<1> QED
  BY <1>1, <1>3, <1>4, <1>5, <1>6, <1>9 DEF Kept, x

LEMMA HistoryBulk ==
    ASSUME EntitiesInv, Separate, TidyInv, LedgerInv, UndoInv, NEW s \in Slots,
           NEW j \in requests[s].jobs, Bulk(s, j), EntitiesInv'
    PROVE  LedgerInv' /\ UndoInv'
<1>1. PICK r \in Requests : r = requests[s]
  BY DEF EntitiesInv
<1> DEFINE fresh == {i \in DOMAIN r.copies : items[i].version = r.copies[i].version}
           update(i) == IF r.kind = "merge" THEN updateEntity(i, r.to) ELSE revertEntity(i)
<1>2. PICK q : q = [r EXCEPT !.jobs = r.jobs \ {j}, !.copies = <<>>,
                             !.failed = r.failed \/ fresh # DOMAIN r.copies]
  OBVIOUS
<1>3. /\ q.kind = r.kind /\ q.stage = r.stage /\ q.jobs = r.jobs \ {j} /\ q.from = r.from
      /\ q.to = r.to /\ q.change = r.change /\ q.removed = r.removed
      /\ (q.failed <=> r.failed \/ fresh # DOMAIN r.copies)
  BY <1>2 DEF Requests
<1>4. /\ goes(s, q) /\ RequestOK(r) /\ j.step = "bulk" /\ j \in r.jobs
      /\ UNCHANGED <<docs, patches, past, beforeMerge>>
      /\ items' = [i \in Items |-> IF i \in fresh THEN update(r.copies[i]) ELSE items[i]]
  BY <1>1, <1>2 DEF Bulk, EntitiesInv
<1>5. r.kind \in {"merge", "revert"} /\ ~idle(s)
  BY <1>1, <1>4 DEF RequestOK, JobOK, idle
<1> HIDE DEF fresh, update
<1>6. ASSUME NEW found \in SUBSET Items, r.copies = copiesOf(found)
      PROVE  /\ \A i \in found : items'[i] = update(items[i])
             /\ \A i \in Items \ found : items'[i] = items[i]
  <2>1. DOMAIN r.copies = found /\ \A i \in found : r.copies[i] = items[i]
    BY <1>6, CopiesType
  <2>2. fresh = found
    BY <2>1 DEF fresh
  <2> QED
    BY <1>4, <2>1, <2>2
<1>7. \A n : n.step = "patch" => (n \in q.jobs <=> n \in requests[s].jobs)
  BY <1>1, <1>3, <1>4
<1>8. puts(q) = puts(r) /\ (\A n \in r.jobs : n.step \in {"revert", "patch"} => n \in q.jobs)
  BY <1>3, <1>4 DEF puts
<1>9. Ledger(r) => Ledger(q)
  BY <1>3, <1>8 DEF Ledger, Restores, Noted
<1>10. LedgerInv'
  BY <1>1, <1>3, <1>4, <1>5, <1>7, <1>9, LedgerRead
<1>11. \A e \in Ids : written(e)' = written(e)
  BY <1>4, <1>7, SameWritten
<1>12. q.from \in Ids /\ \A n \in q.jobs : n.step \in {"put", "revert"} => n.id \in Ids
  BY <1>3, <1>4, <1>5 DEF RequestOK, JobOK, Writes
<1>13. /\ MergedSoFar(q) => MergedSoFar(q)'
       /\ RemovedSoFar(q) => RemovedSoFar(q)'
       /\ RevertedSoFar(q) => RevertedSoFar(q)'
       /\ RecoveredSoFar(q) => RecoveredSoFar(q)'
  BY <1>4, <1>11, <1>12, SoFarStays
<1>14. \A e \in Ids : Pure(e)' = Pure(e) /\ wasRemoved(e)' = wasRemoved(e)
  BY <1>4, <1>11, DocsUnchanged
<1>15. \A step \in {"claims", "redirectClaims", "bulk"} : Job(step, NoUri).step = step
  BY JobType DEF Steps
<1>16. ASSUME NEW i \in Items, items'[i] = items[i]
       PROVE  /\ \A from, to : KeptOrMoved(i, from, to) => KeptOrMoved(i, from, to)'
              /\ Kept(i) => Kept(i)'
  BY <1>4, <1>16 DEF KeptOrMoved, Kept, wasAt
<1>17. \A i \in Items : items[i] \in ItemDocs
  BY DEF EntitiesInv
<1>18. Clean => Progress(r)
  BY <1>1, <1>5 DEF TidyInv, quiet
<1>19. ASSUME Clean, Recorded, Undo(r), r.kind = "merge" PROVE Undo(q)'
  <2> SUFFICES ASSUME Pure(r.from) PROVE Merging(q)'
    BY <1>3, <1>4, <1>12, <1>14, <1>19 DEF Undo
  <2>1. Merging(r)
    BY <1>19 DEF Undo
  <2>2. MergeJobs(r) /\ MergeItems(r)
    BY <1>18, <1>19 DEF Progress
  <2>3. r.stage = "end" /\ has(r, "bulk")
    BY <1>4, <2>2 DEF MergeJobs, MergeSteps, has
  <2>4. r.copies = copiesOf(on(r.from)) /\ r.to # r.from
    BY <1>4, <1>19, <2>2, <2>3 DEF MergeItems, RequestOK
  <2>5. \A i \in Items : items'[i] = IF items[i].entity = r.from THEN updateEntity(items[i], r.to)
                                     ELSE items[i]
    BY <1>6, <1>19, <2>4 DEF on, update
  <2>6. ASSUME NEW i \in Items PROVE KeptOrMoved(i, q.from, q.to)'
    <3>1. KeptOrMoved(i, r.from, r.to)
      BY <2>1 DEF Merging
    <3>2. KeptOrMoved(i, r.from, r.to)'
      BY <1>4, <1>16, <1>17, <2>4, <2>5, <3>1, MovedAway
    <3> QED
      BY <1>3, <3>2
  <2>7. /\ has(q, "claims") = has(r, "claims")
        /\ has(q, "redirectClaims") = has(r, "redirectClaims")
    BY <1>3, <1>4, <1>15 DEF has
  <2>8. Turned(q) /\ Turned(r) /\ (Claiming(q) => Claiming(r)) /\ ~Untouched(q)
    BY <1>3, <2>3, <2>7 DEF Turned, Claiming, Untouched
  <2>9. \A n \in puts(q) : MergePut(r, n) => MergePut(q, n)
    BY <1>3, <1>8 DEF MergePut
  <2>10. MergedSoFar(q)
    BY <1>3, <1>8, <2>1, <2>3, <2>8, <2>9 DEF Merging, MergedSoFar
  <2>11. RemovedSoFar(q)
    BY <1>3, <2>1, <2>3, <2>8 DEF Merging, RemovedSoFar
  <2> QED
    BY <1>13, <2>6, <2>10, <2>11 DEF Merging
<1>20. ASSUME Clean, Recorded, Undo(r), r.kind = "revert" PROVE Undo(q)'
  <2>1. Reverting(r)
    BY <1>20 DEF Undo
  <2>2. RevertJobs(r) /\ RevertItems(r)
    BY <1>18, <1>20 DEF Progress
  <2>3. r.stage = "placeholders" /\ j = Job("bulk", NoUri)
    BY <1>4, <2>2 DEF RevertJobs, RevertSteps
  <2>4. has(r, "bulk") /\ ~has(q, "bulk")
    BY <1>3, <1>4, <2>3 DEF has
  <2> DEFINE found == {i \in Items : r.from \in ToSet(items[i].previousEntity)}
  <2>5. r.copies = copiesOf(found)
    BY <2>2, <2>3, <2>4 DEF RevertItems
  <2>6. \A i \in Items : items'[i] = IF i \in found THEN revertEntity(items[i]) ELSE items[i]
    BY <1>6, <1>20, <2>5 DEF update
  <2>7. ASSUME NEW i \in Items PROVE Kept(i)'
    <3>1. KeptOrMoved(i, r.from, r.to)
      BY <2>1, <2>3, <2>4 DEF Reverting
    <3>2. CASE i \in found
      BY <1>4, <1>17, <1>20, <2>6, <3>1, <3>2, MovedBack
    <3>3. CASE i \notin found
      <4>1. Kept(i)
        <5> SUFFICES ASSUME items[i].previousEntity = <<r.from>> \o wasAt(i)[2] PROVE FALSE
          BY <3>1 DEF KeptOrMoved
        <5>1. wasAt(i)[2] \in Seq(Works)
          BY <1>20 DEF Recorded
        <5>2. 1 \in DOMAIN items[i].previousEntity /\ items[i].previousEntity[1] = r.from
          BY <5>1
        <5> QED
          BY <3>3, <5>2 DEF ToSet
      <4> QED
        BY <1>16, <2>6, <3>3, <4>1
    <3> QED
      BY <3>2, <3>3
  <2>8. RevertedSoFar(q)
    BY <1>3, <1>8, <2>1, <2>3 DEF Reverting, RevertedSoFar, RevertPut
  <2>9. RecoveredSoFar(q)
    BY <1>3, <2>1, <2>3 DEF Reverting, RecoveredSoFar, Recovering
  <2>10. ~wasRemoved(q.from)'
    BY <1>3, <1>12, <1>14, <2>1 DEF Reverting
  <2>11. ~has(q, "bulk")' /\ q.stage = "placeholders"
    BY <1>3, <2>3, <2>4 DEF has
  <2>12. Reverting(q)'
    BY <1>13, <2>7, <2>8, <2>9, <2>10, <2>11 DEF Reverting
  <2> QED
    BY <1>3, <1>4, <1>20, <2>12 DEF Undo
<1>21. Clean /\ Recorded /\ Undo(r) => Undo(q)'
  BY <1>5, <1>19, <1>20
<1>22. UndoInv'
  BY <1>1, <1>3, <1>4, <1>5, <1>21, UndoStep
<1> QED
  BY <1>10, <1>22

-----------------------------------------------------------------------------
(* A document is written *)

LEMMA DocWritten ==
    ASSUME EntitiesInv, NEW s \in Slots, NEW j \in requests[s].jobs, PutDoc(s, j),
           docs[j.id].version = j.doc.version, NEW e, e = j.id, NEW p, p = diffOf(j)
    PROVE  /\ e \in Ids /\ j.step = "put" /\ j \in Jobs /\ j.doc = docs[e] /\ docs'[e] = j.new
           /\ \A x \in Ids : x # e => docs'[x] = docs[x]
           /\ \A x \in Ids : written(x)' = IF x = e THEN written(x) \cup {p} ELSE written(x)
           /\ content(p.before) = content(docs[e]) /\ content(p.after) = content(j.new)
           /\ p.context = j.context /\ p.version = j.new.version
           /\ \A x \in Ids : Pure(x)' => Pure(x)
           /\ \A x : was(x)' = was(x) /\ wasRemoved(x)' = wasRemoved(x)
           /\ \A x \in Ids \ {e} : Same(x)' = Same(x) /\ removedNow(x)' = removedNow(x)
           /\ \A f : \A x \in Ids \ {e} : marked(f, x)' = marked(f, x)
                                          /\ Traced(f, x)' = Traced(f, x)
           /\ \A x \in Ids \ {e} : \A y : By(x, y)' = By(x, y)
           /\ \A f : j.context \in ctx(f) => marked(f, e)' = marked(f, e) \cup {p}
           /\ \A f : j.context \notin ctx(f) => marked(f, e)' = marked(f, e)
           /\ \A i \in Items : Kept(i)' = Kept(i)
           /\ \A i \in Items : \A f, to : KeptOrMoved(i, f, to)' = KeptOrMoved(i, f, to)
<1> DEFINE k == [j EXCEPT !.step = "patch"]
<1>1. /\ RequestOK(requests[s]) /\ JobOK(requests[s], j) /\ j \in Jobs
      /\ j.step = "put" /\ UNCHANGED <<patches, items, beforeMerge>>
      /\ follows(s, j, {k}) /\ docs' = [docs EXCEPT ![e] = j.new]
  BY DEF EntitiesInv, RequestOK, Requests, PutDoc
<1>2. e \in Ids /\ j.doc = docs[e]
  BY <1>1 DEF JobOK, Writes, Read
<1>3. docs'[e] = j.new /\ \A x \in Ids : x # e => docs'[x] = docs[x]
  BY <1>1, <1>2 DEF EntitiesInv
<1> HIDE DEF k
<1>4. \A x \in Ids : written(x)' = IF x = e THEN written(x) \cup {p} ELSE written(x)
  BY <1>1, PutWritten DEF k
<1>5. /\ content(p.before) = content(docs[e]) /\ content(p.after) = content(j.new)
      /\ p.context = j.context /\ p.version = j.new.version
  BY <1>2 DEF diffOf, getDiff, versionned, content
<1>6. \A x \in Ids : Pure(x)' => Pure(x)
  BY <1>4 DEF Pure
<1>7. /\ \A x : was(x)' = was(x) /\ wasRemoved(x)' = wasRemoved(x)
      /\ \A i : wasAt(i)' = wasAt(i)
  BY <1>1 DEF was, wasRemoved, wasAt
<1>8. \A x \in Ids \ {e} : Same(x)' = Same(x) /\ removedNow(x)' = removedNow(x)
  BY <1>3, <1>7 DEF Same, removedNow
<1>9. \A f : ctx(f)' = ctx(f)
  BY DEF ctx
<1>10. \A f : \A x \in Ids \ {e} : marked(f, x)' = marked(f, x)
  BY <1>4, <1>9 DEF marked
<1>11. \A x \in Ids \ {e} : \A y : By(x, y)' = By(x, y)
  BY <1>3, <1>7 DEF By
<1>12. \A f : \A x \in Ids \ {e} : Traced(f, x)' = Traced(f, x)
  BY <1>4, <1>8, <1>10, <1>11 DEF Traced
<1>13. /\ \A f : j.context \in ctx(f) => marked(f, e)' = marked(f, e) \cup {p}
       /\ \A f : j.context \notin ctx(f) => marked(f, e)' = marked(f, e)
  BY <1>2, <1>4, <1>5, <1>9 DEF marked
<1>14. \A i \in Items : Kept(i)' = Kept(i)
  BY <1>1, <1>7 DEF Kept
<1>15. \A i \in Items : \A f, to : KeptOrMoved(i, f, to)' = KeptOrMoved(i, f, to)
  BY <1>1, <1>7, <1>14 DEF KeptOrMoved
<1> QED
  BY <1>1, <1>2, <1>3, <1>4, <1>5, <1>6, <1>7, <1>8, <1>10, <1>11, <1>12, <1>13, <1>14, <1>15

LEMMA UndoOfMergePut ==
    ASSUME EntitiesInv, NEW s \in Slots, NEW j \in requests[s].jobs, PutDoc(s, j),
           docs[j.id].version = j.doc.version, NEW r \in Requests, r = requests[s],
           RequestOK(r), r.kind = "merge", Progress(r), Merging(r), NEW q, q.kind = "merge",
           q.stage = r.stage, q.from = r.from, q.to = r.to, q.removed = r.removed,
           NEW k, k.step = "patch", k.id = j.id, k.doc = j.doc, k.new = j.new,
           q.jobs = (r.jobs \ {j}) \cup {k}
    PROVE  Merging(q)'
<1>1. PICK e, p, f, to : e = j.id /\ p = diffOf(j) /\ f = r.from /\ to = r.to
  OBVIOUS
<1>2. /\ e \in Ids /\ j.step = "put" /\ j.doc = docs[e] /\ docs'[e] = j.new
      /\ \A x \in Ids : x # e => docs'[x] = docs[x]
      /\ \A x \in Ids : written(x)' = IF x = e THEN written(x) \cup {p} ELSE written(x)
      /\ content(p.before) = content(docs[e]) /\ content(p.after) = content(j.new)
      /\ p.context = j.context /\ p.version = j.new.version
  BY <1>1, DocWritten
<1>3. /\ \A x : was(x)' = was(x) /\ wasRemoved(x)' = wasRemoved(x)
      /\ \A x \in Ids \ {e} : Same(x)' = Same(x) /\ removedNow(x)' = removedNow(x)
      /\ \A x \in Ids \ {e} : marked(f, x)' = marked(f, x) /\ Traced(f, x)' = Traced(f, x)
      /\ marked(f, e)' = IF j.context \in ctx(f) THEN marked(f, e) \cup {p} ELSE marked(f, e)
      /\ \A i \in Items : KeptOrMoved(i, f, to)' = KeptOrMoved(i, f, to)
  <2>1. /\ \A x : was(x)' = was(x) /\ wasRemoved(x)' = wasRemoved(x)
        /\ \A x \in Ids \ {e} : Same(x)' = Same(x) /\ removedNow(x)' = removedNow(x)
    BY <1>1, DocWritten
  <2>2. \A g : \A x \in Ids \ {e} : marked(g, x)' = marked(g, x) /\ Traced(g, x)' = Traced(g, x)
    BY <1>1, DocWritten
  <2>4. /\ \A g : j.context \in ctx(g) => marked(g, e)' = marked(g, e) \cup {p}
        /\ \A g : j.context \notin ctx(g) => marked(g, e)' = marked(g, e)
    BY <1>1, DocWritten
  <2>3. \A i \in Items : \A g, t : KeptOrMoved(i, g, t)' = KeptOrMoved(i, g, t)
    BY <1>1, DocWritten
  <2> QED
    BY <2>1, <2>2, <2>3, <2>4
<1>4. f \in Ids /\ to # f
  BY <1>1 DEF RequestOK
<1>5. MergedSoFar(r) /\ RemovedSoFar(r) /\ MergeJobs(r) /\ MergeClaims(r) /\ j \in puts(r)
  BY <1>2 DEF Merging, Progress, puts
<1>6. MergePut(r, j) /\ r.stage \in {"isolate", "turn", "propagate", "end"}
  BY <1>2, <1>5 DEF MergedSoFar, MergeJobs, MergeSteps
<1>7. puts(q) = puts(r) \ {j} /\ pend(q) = pend(r) \cup {k}
  BY <1>2 DEF puts, pend
<1>8. removedNow(e)' <=> j.new.type = "removed:placeholder"
  BY <1>2 DEF removedNow
<1>9. \A R : (r.stage # "turn" /\ RemovedBy(R)) => RemovedBy(R)'
  <2>1. r.stage # "turn" => (removedNow(e)' <=> removedNow(e))
    BY <1>2, <1>6, <1>8 DEF MergePut, removedNow
  <2> QED
    BY <1>3, <2>1 DEF RemovedBy
<1>10. \A i \in Items : KeptOrMoved(i, q.from, q.to)'
  BY <1>1, <1>3 DEF Merging
<1>11. \A x : Untouched(q) => Untouched(r)
  BY <1>7 DEF Untouched
<1>12. content(docs'[e]) = content(j.new)
  BY <1>2
\* A write marked with the merge, the first one of the entity
<1>13. ASSUME marked(f, e) = {}, j.context \in ctx(f), e # f, Undoes(p)
       PROVE  /\ \A x \in Ids \ {f} : Traced(f, x)'
              /\ marked(f, e)' = {p}
  <2>1. Traced(f, e) /\ \A x \in Ids \ {f} : Traced(f, x)
    BY <1>1, <1>2, <1>5, <1>13 DEF MergedSoFar
  <2>2. content(docs[e]) = was(e)
    BY <1>13, <2>1 DEF Traced, Same
  <2>3. marked(f, e)' = {p} /\ p \in written(e)'
    BY <1>2, <1>3, <1>13
  <2>4. By(e, p)'
    BY <1>2, <1>3, <1>12, <1>13, <2>2 DEF By, Undoes
  <2>5. Traced(f, e)'
    BY <2>3, <2>4 DEF Traced
  <2> QED
    BY <1>3, <2>1, <2>3, <2>5
\* A write that is not marked
<1>14. ASSUME j.context = None
       PROVE  \A x \in Ids : marked(f, x)' = marked(f, x)
  BY <1>3, <1>4, <1>14, NoContext
<1>15. CASE r.stage = "isolate"
  <2>1. e = to /\ e # f /\ j.context = <<"mergeFrom", f>> /\ Undoes(p) /\ j.context \in ctx(f)
    BY <1>1, <1>4, <1>5, <1>6, <1>15 DEF MergeJobs, MergePut, ctx
  <2>2. Untouched(r) /\ OneJob(r) /\ ~Turned(r)
    BY <1>5, <1>15 DEF Untouched, MergedSoFar, Turned
  <2>3. \A x \in Ids : marked(f, x) = {}
    BY <1>1, <1>5, <2>2 DEF MergedSoFar
  <2>4. (\A x \in Ids \ {f} : Traced(f, x)') /\ marked(f, e)' = {p}
    BY <1>2, <1>13, <2>1, <2>3
  <2>5. OneJob(q) /\ puts(q) = {}
    BY <1>5, <1>7, <2>2 DEF OneJob, puts
  <2>6. ~Turned(q) /\ ~Untouched(q) /\ Claiming(r)
    BY <1>15, <2>5 DEF Turned, Untouched, Claiming
  <2>7. OnOthers(f, to)'
    BY <1>2, <1>3, <2>1, <2>3, <2>4 DEF OnOthers
  <2>8. \A x \in Ids : \A y \in written(x)' : y.context # <<"redirectClaims", f>>
    BY <1>1, <1>2, <1>5, <2>1, <2>6 DEF MergedSoFar
  <2>9. Same(f)'
    BY <1>1, <1>3, <1>4, <1>5, <2>1, <2>2 DEF MergedSoFar
  <2>10. MergedSoFar(q)'
    BY <1>1, <1>15, <2>4, <2>5, <2>6, <2>7, <2>8, <2>9
       DEF MergedSoFar, Turned, Untouched, Claiming, OneJob, puts
  <2>11. RemovedSoFar(q)'
    BY <1>5, <1>9, <1>15, <2>5 DEF RemovedSoFar, Turned, puts
  <2> QED
    BY <1>10, <2>10, <2>11 DEF Merging
<1>16. CASE r.stage = "turn"
  <2>1. /\ j.context = None /\ content(j.new) = content(j.doc)
        /\ j.new.type = "removed:placeholder"
    BY <1>6, <1>16 DEF MergePut
  <2>2. Removing(r)
    BY <1>5, <1>16 DEF RemovedSoFar
  <2>3. e # f /\ e \notin r.removed
    BY <1>1, <2>2 DEF Removing
  <2>4. \A x \in Ids : marked(f, x)' = marked(f, x)
    BY <1>14, <2>1
  <2>5. ASSUME NEW x \in Ids \ {f} PROVE Traced(f, x)'
    <3>1. Traced(f, x)
      BY <1>1, <1>5 DEF MergedSoFar
    <3>2. CASE x = e
      <4>1. Same(e) => Same(e)'
        BY <1>2, <1>3, <2>1 DEF Same
      <4>2. \A y : By(e, y) => By(e, y)'
        BY <1>2, <1>3, <2>1 DEF By, Undoes
      <4>3. written(e) \subseteq written(e)'
        BY <1>2
      <4> QED
        BY <1>2, <2>4, <3>1, <3>2, <4>1, <4>2, <4>3 DEF Traced
    <3> QED
      BY <1>3, <3>1, <3>2
  <2>6. OnOthers(f, to)'
    BY <1>1, <1>5, <2>4 DEF MergedSoFar, OnOthers
  <2>7. Claiming(r) /\ ~Turned(q) /\ ~Turned(r) /\ ~Untouched(q)
    BY <1>16 DEF Claiming, Turned, Untouched
  <2>8. \A x \in Ids : \A y \in written(x)' : y.context # <<"redirectClaims", f>>
    BY <1>1, <1>2, <1>5, <2>1, <2>7 DEF MergedSoFar, None
  <2>9. Same(f)'
    BY <1>1, <1>3, <1>4, <1>5, <2>3, <2>7 DEF MergedSoFar
  <2>10. \A y \in puts(q) : MergePut(q, y)'
    BY <1>5, <1>7, <1>16 DEF MergedSoFar, MergePut
  <2>11. MergedSoFar(q)'
    BY <1>1, <1>16, <2>5, <2>6, <2>7, <2>8, <2>9, <2>10
       DEF MergedSoFar, Turned, Untouched, Claiming, puts
  <2>12. OneJobEach(q) /\ \A y \in q.jobs : y.id # q.from /\ y.id \notin q.removed
    BY <2>2 DEF Removing, OneJobEach
  <2>13. \A x \in q.removed : removedNow(x)' /\ ~wasRemoved(x)
    <3>1. r.removed \subseteq Ids
      BY DEF Requests, Ids
    <3> QED
      BY <1>3, <2>2, <2>3, <3>1 DEF Removing
  <2>14. \A y \in pend(r) : y.id # e
    BY <1>1, <1>2, <2>2 DEF Removing, OneJobEach, pend
  <2>15. \A x \in Ids \ q.removed :
           (\A y \in pend(q) : y.id # x) => (removedNow(x)' <=> wasRemoved(x))
    BY <1>1, <1>3, <1>7, <2>2 DEF Removing
  <2>16. ASSUME NEW y \in pend(q)
         PROVE  /\ removedNow(y.id)' /\ content(y.doc) = content(y.new)
                /\ y.new.type = "removed:placeholder"
                /\ (wasRemoved(y.id) <=> y.doc.type = "removed:placeholder")
    <3>1. CASE y \in pend(r)
      <4>1. y.id \in Ids
        BY <3>1 DEF pend, RequestOK, JobOK, Writes
      <4>2. removedNow(y.id)' <=> removedNow(y.id)
        BY <1>3, <2>14, <3>1, <4>1
      <4> QED
        BY <2>2, <3>1, <4>2 DEF Removing
    <3>2. CASE y = k
      <4>1. removedNow(e) <=> wasRemoved(e)
        BY <1>2, <2>2, <2>3, <2>14 DEF Removing
      <4>2. removedNow(e) <=> j.doc.type = "removed:placeholder"
        BY <1>2 DEF removedNow
      <4> QED
        BY <1>1, <1>8, <2>1, <3>2, <4>1, <4>2
    <3> QED
      BY <1>7, <3>1, <3>2
  <2>17. pend(q)' = pend(q) /\ OneJobEach(q)' = OneJobEach(q)
         /\ \A x : wasRemoved(x)' = wasRemoved(x)
    BY <1>3 DEF pend, OneJobEach
  <2>18. Removing(q)'
    BY <2>12, <2>13, <2>15, <2>16, <2>17 DEF Removing
  <2>19. RemovedSoFar(q)'
    BY <1>16, <2>18 DEF RemovedSoFar, Turned
  <2> QED
    BY <1>10, <2>11, <2>19 DEF Merging
<1>17. CASE r.stage = "propagate"
  <2>1. e = f /\ j.context = None /\ RemovedBy(j.new.removedPlaceholdersIds)
        /\ j.new.redirect = to
    BY <1>1, <1>5, <1>6, <1>17 DEF MergeJobs, MergePut
  <2>2. ~Turned(r) /\ OneJob(r) /\ Claiming(r) /\ ~Untouched(q)
    BY <1>5, <1>17 DEF Turned, MergedSoFar, Claiming, Untouched
  <2>3. content(docs[f]) = was(f)
    BY <1>1, <1>5, <2>2 DEF MergedSoFar, Same
  <2>4. OneJob(q) /\ puts(q) = {} /\ Turned(q)
    BY <1>5, <1>7, <1>17, <2>2 DEF OneJob, puts, Turned
  <2>5. \A x \in Ids : marked(f, x)' = marked(f, x)
    BY <1>14, <2>1
  <2>6. \A x \in Ids \ {f} : Traced(f, x)'
    BY <1>1, <1>3, <1>5, <2>1 DEF MergedSoFar
  <2>7. OnOthers(f, to)'
    BY <1>1, <1>5, <2>5 DEF MergedSoFar, OnOthers
  <2>8. \A x \in Ids : \A y \in written(x)' : y.context # <<"redirectClaims", f>>
    BY <1>1, <1>2, <1>5, <2>1, <2>2 DEF MergedSoFar, None
  <2>9. Gone(f, to)'
    BY <1>2, <1>3, <2>1, <2>3 DEF Gone
  <2>10. MergedSoFar(q)'
    BY <1>1, <1>17, <2>2, <2>4, <2>6, <2>7, <2>8, <2>9
       DEF MergedSoFar, Turned, Untouched, Claiming, OneJob, puts
  <2>11. RemovedBy(docs[q.from].removedPlaceholdersIds)'
    BY <1>1, <1>2, <1>9, <1>17, <2>1
  <2>12. RemovedSoFar(q)'
    BY <1>17, <2>11 DEF RemovedSoFar
  <2> QED
    BY <1>10, <2>10, <2>12 DEF Merging
<1>18. CASE r.stage = "end"
  <2>1. /\ j.context = <<"redirectClaims", f>> /\ Undoes(p) /\ marked(f, e) = {} /\ e # f
        /\ \A y \in puts(r) : y.id = e => y = j
    BY <1>1, <1>6, <1>18 DEF MergePut
  <2>2. j.context \in ctx(f)
    BY <2>1 DEF ctx
  <2>3. (\A x \in Ids \ {f} : Traced(f, x)') /\ marked(f, e)' = {p}
    BY <1>13, <2>1, <2>2
  <2>4. Turned(r) /\ Turned(q) /\ ~Untouched(q)
    BY <1>18 DEF Turned, Untouched
  <2>5. ~Claiming(q)
    <3>1. ~has(r, "claims") /\ ~has(r, "redirectClaims")
      BY <1>5, <1>18 DEF MergeClaims
    <3>2. Job("claims", NoUri).step = "claims"
          /\ Job("redirectClaims", NoUri).step = "redirectClaims"
      BY JobType DEF Steps
    <3> QED
      BY <1>18, <3>1, <3>2 DEF Claiming, has
  <2>6. OnOthers(f, to)'
    BY <1>1, <1>2, <1>3, <1>5, <2>1, <2>3 DEF MergedSoFar, OnOthers
  <2>7. Gone(f, to)'
    BY <1>1, <1>2, <1>3, <1>4, <1>5, <2>1, <2>4 DEF MergedSoFar, Gone
  <2>8. ASSUME NEW y \in puts(q) PROVE MergePut(q, y)'
    <3>1. y \in puts(r) /\ y # j /\ MergePut(r, y)
      BY <1>5, <1>7 DEF MergedSoFar
    <3>2. y.id # e /\ y.id \in Ids
      BY <2>1, <3>1 DEF puts, RequestOK, JobOK, Writes
    <3>3. marked(f, y.id)' = {}
      BY <1>1, <1>3, <1>18, <3>1, <3>2 DEF MergePut
    <3>4. puts(q)' = puts(q) /\ puts(q) \subseteq puts(r)
      BY <1>7 DEF puts
    <3> QED
      BY <1>1, <1>18, <3>1, <3>3, <3>4 DEF MergePut
  <2>9. MergedSoFar(q)'
    BY <1>1, <1>18, <2>3, <2>4, <2>5, <2>6, <2>7, <2>8
       DEF MergedSoFar, Turned, Untouched, Claiming, puts, has
  <2>10. RemovedBy(docs[q.from].removedPlaceholdersIds)'
    BY <1>1, <1>2, <1>4, <1>5, <1>9, <1>18, <2>1, <2>4 DEF RemovedSoFar
  <2>11. RemovedSoFar(q)'
    BY <1>18, <2>10 DEF RemovedSoFar
  <2> QED
    BY <1>10, <2>9, <2>11 DEF Merging
<1> QED
  BY <1>6, <1>15, <1>16, <1>17, <1>18

LEMMA UndoOfRevertPut ==
    ASSUME EntitiesInv, NEW s \in Slots, NEW j \in requests[s].jobs, PutDoc(s, j),
           docs[j.id].version = j.doc.version, NEW r \in Requests, r = requests[s],
           RequestOK(r), r.kind = "revert", Progress(r), Ledger(r), Reverting(r),
           NEW q, q.kind = "revert",
           q.stage = r.stage, q.from = r.from, q.to = r.to, q.removed = r.removed,
           NEW k, k.step = "patch", k.id = j.id,
           q.jobs = (r.jobs \ {j}) \cup {k}
    PROVE  Reverting(q)'
<1>1. PICK e, p, f, to : e = j.id /\ p = diffOf(j) /\ f = r.from /\ to = r.to
  OBVIOUS
<1>2. /\ e \in Ids /\ j.step = "put" /\ j.doc = docs[e] /\ docs'[e] = j.new
      /\ \A x \in Ids : x # e => docs'[x] = docs[x]
      /\ \A x \in Ids : written(x)' = IF x = e THEN written(x) \cup {p} ELSE written(x)
      /\ content(p.before) = content(docs[e]) /\ content(p.after) = content(j.new)
      /\ p.context = j.context /\ p.version = j.new.version
  BY <1>1, DocWritten
<1>3. /\ \A x : was(x)' = was(x) /\ wasRemoved(x)' = wasRemoved(x)
      /\ \A x \in Ids \ {e} : Same(x)' = Same(x) /\ removedNow(x)' = removedNow(x)
  BY <1>1, DocWritten
<1>4. /\ \A x \in Ids \ {e} : marked(f, x)' = marked(f, x) /\ Traced(f, x)' = Traced(f, x)
      /\ \A x \in Ids \ {e} : \A y : By(x, y)' = By(x, y)
  <2>1. \A g : \A x \in Ids \ {e} : marked(g, x)' = marked(g, x) /\ Traced(g, x)' = Traced(g, x)
    BY <1>1, DocWritten
  <2>2. \A x \in Ids \ {e} : \A y : By(x, y)' = By(x, y)
    BY <1>1, DocWritten
  <2> QED
    BY <2>1, <2>2
<1>5. /\ \A i \in Items : Kept(i)' = Kept(i)
      /\ \A i \in Items : KeptOrMoved(i, f, to)' = KeptOrMoved(i, f, to)
  <2>1. \A i \in Items : \A g, t : KeptOrMoved(i, g, t)' = KeptOrMoved(i, g, t)
    BY <1>1, DocWritten
  <2>2. \A i \in Items : Kept(i)' = Kept(i)
    BY <1>1, DocWritten
  <2> QED
    BY <2>1, <2>2
<1>6. f \in Ids /\ j \in puts(r) /\ RevertJobs(r) /\ Restores(r) /\ Noted(r, j)
  BY <1>1, <1>2 DEF RequestOK, puts, Progress, Ledger
<1>7. \A x \in Ids : marked(f, x)' = marked(f, x)
  <2>1. \A g : j.context \notin ctx(g) => marked(g, e)' = marked(g, e)
    BY <1>1, DocWritten
  <2>2. j.context \notin ctx(f)
    BY <1>6 DEF Noted
  <2> QED
    BY <1>4, <2>1, <2>2
<1>8. r.stage \in {"items", "mergePatch", "redirections", "end"} /\ q.stage = r.stage
  BY <1>2, <1>6 DEF RevertJobs, RevertSteps
<1>9. RevertedSoFar(r) /\ RecoveredSoFar(r) /\ RevertPut(r, j) /\ ~wasRemoved(f)
  BY <1>1, <1>6, <1>8 DEF Reverting, RevertedSoFar
<1>10. puts(q) = puts(r) \ {j}
  BY <1>2 DEF puts
<1>11. OnOthers(f, to)'
  BY <1>1, <1>7, <1>9 DEF RevertedSoFar, OnOthers
<1>12. \A y \in puts(q) : RevertPut(q, y)'
  <2> SUFFICES ASSUME NEW y \in puts(q) PROVE RevertPut(q, y)'
    OBVIOUS
  <2>1. RevertPut(r, y)
    BY <1>9, <1>10 DEF RevertedSoFar
  <2> QED
    BY <1>3, <2>1 DEF RevertPut
<1>13. puts(q)' = puts(q) /\ has(q, "bulk")' = has(q, "bulk")
  BY DEF puts, has
<1>14. (removedNow(e)' <=> j.new.type = "removed:placeholder")
       /\ (Same(e)' <=> content(j.new) = was(e))
       /\ (removedNow(e) <=> j.doc.type = "removed:placeholder")
       /\ (Same(e) <=> content(j.doc) = was(e))
  BY <1>2, <1>3 DEF removedNow, Same
<1>15. CASE r.stage = "items"
  <2>1. e = f /\ content(j.new) = was(f) /\ j.new.type = "none"
    BY <1>1, <1>6, <1>9, <1>15 DEF RevertJobs, RevertPut, Restores
  <2>2. Same(f)' /\ ~removedNow(f)'
    BY <1>14, <2>1
  <2>3. \A x \in Ids \ {f} : Traced(f, x)'
    BY <1>1, <1>4, <1>9, <1>15, <2>1 DEF RevertedSoFar
  <2>4. RevertedSoFar(q)'
    BY <1>1, <1>11, <1>12, <1>13, <1>15, <2>2, <2>3 DEF RevertedSoFar
  <2>5. RecoveredSoFar(q)'
    BY <1>1, <1>3, <1>9, <1>15, <2>1, <2>2 DEF RecoveredSoFar, Recovering
  <2> QED
    BY <1>1, <1>3, <1>5, <1>9, <1>15, <2>4, <2>5 DEF Reverting
<1>16. CASE r.stage = "mergePatch"
  <2>1. content(j.new) = content(j.doc) /\ j.new.type = "entity"
    BY <1>9, <1>16 DEF RevertPut
  <2>2. \A x \in Ids : Same(x) => Same(x)'
    BY <1>3, <1>14, <2>1
  <2>3. ASSUME NEW x \in Ids \ {f} PROVE Traced(f, x)'
    <3>1. Traced(f, x)
      BY <1>1, <1>9, <1>16 DEF RevertedSoFar
    <3>2. \A y : By(x, y) => By(x, y)'
      <4>1. x = e => content(docs'[x]) = content(docs[x])
        BY <1>2, <2>1
      <4> QED
        BY <1>2, <1>3, <4>1 DEF By, Undoes
    <3>3. written(x) \subseteq written(x)'
      BY <1>2
    <3> QED
      BY <1>7, <2>2, <3>1, <3>2, <3>3 DEF Traced
  <2>4. Same(f)'
    BY <1>1, <1>6, <1>9, <1>16, <2>2 DEF RevertedSoFar
  <2>5. RevertedSoFar(q)'
    BY <1>1, <1>11, <1>12, <1>13, <1>16, <2>3, <2>4 DEF RevertedSoFar
  <2>6. RecoveredSoFar(q)'
    <3> DEFINE R == {y.id : y \in {x \in r.jobs : x.step \in {"recover", "put"}}}
               Q == {y.id : y \in {x \in q.jobs : x.step \in {"recover", "put"}}}
    <3>1. e \in R /\ Q \subseteq R /\ R \subseteq Q \cup {e}
      BY <1>1, <1>2
    <3>2. Recovering(r) = R /\ Recovering(q) = Q /\ Recovering(q)' = Recovering(q)
      BY <1>16 DEF Recovering
    <3> HIDE DEF R, Q
    <3>3. ~removedNow(e)' /\ ~wasRemoved(e)
      BY <1>2, <1>9, <1>14, <2>1, <3>1, <3>2 DEF RecoveredSoFar
    <3> SUFFICES ASSUME NEW x \in Ids
                 PROVE  /\ removedNow(x)' => wasRemoved(x)' \/ x \in Recovering(q)'
                        /\ wasRemoved(x)' => removedNow(x)' /\ x \notin Recovering(q)'
      BY DEF RecoveredSoFar
    <3>4. CASE x = e
      BY <1>3, <3>3, <3>4
    <3>5. CASE x # e
      BY <1>3, <1>9, <3>1, <3>2, <3>5 DEF RecoveredSoFar
    <3> QED
      BY <3>4, <3>5
  <2> QED
    BY <1>1, <1>3, <1>5, <1>9, <1>16, <2>5, <2>6 DEF Reverting
<1>17. CASE r.stage \in {"redirections", "end"}
  <2>1. content(j.new) = was(e) /\ j.new.type = j.doc.type
    BY <1>1, <1>9, <1>17 DEF RevertPut
  <2>2. Same(e)' /\ (removedNow(e)' <=> removedNow(e))
    BY <1>14, <2>1
  <2>3. OneJobEach(r) /\ \A y \in r.jobs : y.id = e => y = j
    BY <1>1, <1>9, <1>17 DEF RevertedSoFar, OneJobEach
  <2>4. OneJobEach(q)
    BY <1>1, <2>3 DEF OneJobEach
  <2>5. Same(f)'
    <3>1. Same(f)
      BY <1>1, <1>9, <1>17 DEF RevertedSoFar
    <3> QED
      BY <1>3, <1>6, <2>2, <3>1
  <2>6. \A x \in Ids : x # e => (Undoing(q, x) <=> Undoing(r, x))
    BY <1>1 DEF Undoing
  <2>7. Undoing(r, e)
    BY <1>1, <1>2 DEF Undoing
  <2>8. \A x : Undoing(q, x)' <=> Undoing(q, x)
    BY DEF Undoing
  <2>9. ASSUME NEW y \in q.jobs, y.step = "revert" PROVE Undoable(q, y)'
    <3>1. y \in r.jobs /\ y # j
      BY <1>2, <2>9
    <3>2. y.id # e /\ y.id \in Ids /\ Undoable(r, y)
      BY <1>9, <1>17, <2>3, <2>9, <3>1 DEF RevertedSoFar, RequestOK, JobOK
    <3>3. patches' = patches
      BY DEF PutDoc
    <3> QED
      BY <1>1, <1>4, <3>2, <3>3 DEF Undoable
  <2>10. ASSUME r.stage = "redirections", NEW x \in Ids \ {f} PROVE Halfway(q, x)'
    <3>1. Halfway(r, x)
      BY <1>1, <1>9, <2>10 DEF RevertedSoFar
    <3>2. CASE x = e
      <4>1. \A y \in marked(f, x) : y.context = <<"mergeFrom", f>>
        BY <1>1, <2>7, <3>1, <3>2 DEF Halfway
      <4> QED
        BY <1>1, <1>7, <2>2, <3>2, <4>1 DEF Halfway
    <3>3. CASE x # e
      BY <1>1, <1>3, <1>4, <2>6, <2>8, <3>1, <3>3 DEF Halfway
    <3> QED
      BY <3>2, <3>3
  <2>11. ASSUME r.stage = "end", NEW x \in Ids \ {f} PROVE Same(x)' \/ Undoing(q, x)'
    <3>1. Same(x) \/ Undoing(r, x)
      BY <1>1, <1>9, <2>11 DEF RevertedSoFar
    <3> QED
      BY <1>3, <2>2, <2>6, <2>8, <3>1
  <2>12. OneJobEach(q)' <=> OneJobEach(q)
    BY DEF OneJobEach
  <2>13. RevertedSoFar(q)'
    BY <1>1, <1>11, <1>12, <1>13, <1>17, <2>4, <2>5, <2>9, <2>10, <2>11, <2>12
       DEF RevertedSoFar
  <2>14. RecoveredSoFar(q)'
    <3>1. Recovering(r) = {} /\ Recovering(q) = {} /\ Recovering(q)' = {}
      BY <1>17 DEF Recovering
    <3> SUFFICES ASSUME NEW x \in Ids PROVE removedNow(x)' <=> wasRemoved(x)
      BY <1>3, <3>1 DEF RecoveredSoFar
    <3> QED
      BY <1>3, <1>9, <2>2, <3>1 DEF RecoveredSoFar
  <2> QED
    BY <1>1, <1>3, <1>5, <1>9, <1>17, <2>13, <2>14 DEF Reverting
<1> QED
  BY <1>8, <1>15, <1>16, <1>17

LEMMA HistoryPutDoc ==
    ASSUME EntitiesInv, Separate, TidyInv, LedgerInv, UndoInv, NEW s \in Slots,
           NEW j \in requests[s].jobs, PutDoc(s, j), EntitiesInv'
    PROVE  LedgerInv' /\ UndoInv'
<1>1. PICK r \in Requests : r = requests[s]
  BY DEF EntitiesInv
<1>2. RequestOK(r) /\ ~idle(s) /\ r.kind # "none" /\ j \in Jobs
  BY <1>1 DEF EntitiesInv, RequestOK, Requests, idle
<1>3. LedgerInv'
  BY LedgerPutDoc
<1>4. CASE throws(s, j)
  BY <1>2, <1>4, HistoryFailure
<1>5. CASE docs[j.id].version = j.doc.version
  <2> DEFINE k == [j EXCEPT !.step = "patch"]
  <2>1. k.step = "patch" /\ k.id = j.id /\ k.new = j.new /\ k.doc = j.doc
    BY <1>2 DEF Jobs
  <2>2. PICK q : q = [r EXCEPT !.jobs = (r.jobs \ {j}) \cup {k}]
    OBVIOUS
  <2>3. /\ q.kind = r.kind /\ q.stage = r.stage /\ q.from = r.from /\ q.to = r.to
        /\ q.jobs = (r.jobs \ {j}) \cup {k} /\ q.failed = r.failed /\ q.removed = r.removed
    BY <2>2 DEF Requests
  <2>4. goes(s, q) /\ UNCHANGED <<past, beforeMerge>>
    BY <1>1, <1>5, <2>2 DEF PutDoc, follows
  <2> HIDE DEF k
  <2>5. ASSUME Clean, Undo(r) PROVE Undo(q)'
    <3>1. Progress(r) /\ Ledger(r)
      BY <1>1, <1>2, <2>5 DEF TidyInv, quiet, LedgerInv
    <3>2. ASSUME r.kind = "merge", Pure(q.from)' PROVE Merging(q)'
      <4>1. Pure(r.from)
        <5>1. PICK e, p : e = j.id /\ p = diffOf(j)
          OBVIOUS
        <5>2. \A x \in Ids : Pure(x)' => Pure(x)
          BY <1>5, <5>1, DocWritten
        <5> QED
          BY <1>2, <2>3, <3>2, <5>2 DEF RequestOK
      <4>2. Merging(r)
        BY <2>5, <3>2, <4>1 DEF Undo
      <4> QED
        BY <1>1, <1>2, <1>5, <2>1, <2>3, <3>1, <3>2, <4>2, UndoOfMergePut
    <3>3. ASSUME r.kind = "revert" PROVE Reverting(q)'
      <4>1. Reverting(r)
        BY <2>5, <3>3 DEF Undo
      <4> QED
        BY <1>1, <1>2, <1>5, <2>1, <2>3, <3>1, <3>3, <4>1, UndoOfRevertPut
    <3> QED
      BY <2>3, <2>4, <2>5, <3>2, <3>3 DEF Undo
  <2>6. UndoInv'
    BY <1>1, <1>2, <2>3, <2>4, <2>5, UndoStep
  <2> QED
    BY <1>3, <2>6
<1>6. CASE docs[j.id].version # j.doc.version /\ r.kind = "edit"
  <2>1. PICK q : q = [r EXCEPT !.jobs = {}, !.stage = "read"]
    OBVIOUS
  <2>2. q.kind = r.kind /\ q.failed = r.failed
    BY <2>1 DEF Requests
  <2>3. goes(s, q) /\ UNCHANGED <<past, beforeMerge>>
    BY <1>1, <1>6, <2>1 DEF PutDoc
  <2>4. ~Undo(r)
    BY <1>6 DEF Undo
  <2>5. UndoInv'
    BY <1>1, <1>2, <2>2, <2>3, <2>4, UndoStep
  <2> QED
    BY <1>3, <2>5
<1> QED
  BY <1>1, <1>4, <1>5, <1>6 DEF PutDoc

-----------------------------------------------------------------------------
(* Requests start and end *)

LEMMA LedgerStart ==
    ASSUME EntitiesInv, Separate, LedgerInv, NEW s \in Slots, idle(s), NEW r, NEW undo,
           Start(s, r, undo), r.kind # "none", EntitiesInv', \A j \in r.jobs : j.step # "patch",
           past' = "orderly" /\ Clean /\ quiet /\ ~r.failed => Ledger(r)
    PROVE  /\ LedgerInv'
           /\ \A e \in Ids : written(e)' = written(e)
           /\ Clean' => past' = "orderly" /\ Clean /\ quiet /\ ~r.failed
<1>1. /\ goes(s, r) /\ UNCHANGED <<docs, patches, items>>
      /\ past' = (IF \E t \in Slots : ~idle(t) THEN "overlaps" ELSE past)
  BY DEF Start
<1>2. requests' = [t \in Slots |-> IF t = s THEN r ELSE requests[t]]
  BY <1>1 DEF EntitiesInv, goes
<1>3. requests[s].jobs = {}
  BY DEF EntitiesInv, RequestOK, idle
<1>4. \A e \in Ids : written(e)' = written(e)
  BY <1>1, <1>3, SameWritten
<1>5. ASSUME Clean' PROVE past' = "orderly" /\ Clean /\ quiet /\ ~r.failed
  <2>1. past' = "orderly" /\ ~r.failed
    BY <1>2, <1>5 DEF Clean, idle
  <2>2. quiet /\ past = "orderly"
    BY <1>1, <2>1 DEF quiet
  <2> QED
    BY <2>1, <2>2 DEF Clean, quiet
<1>6. ASSUME Clean'
      PROVE  /\ \A e \in Ids : Told(e)'
             /\ \A e \in Ids : Pure(e)' /\ ~isRedirection(docs'[e]) =>
                                   Unmerged(e)' \/ MergingOf(e)'
             /\ \A t \in Slots : ~idle(t)' => Ledger(requests[t])'
  <2>1. Clean /\ quiet /\ Ledger(r)
    BY <1>5, <1>6
  <2>2. \A e \in Ids : Told(e)' /\ (Pure(e)' = Pure(e)) /\ (Unmerged(e)' = Unmerged(e))
    BY <1>1, <1>4, <2>1, LedgerUnchanged DEF LedgerInv
  <2>3. \A e \in Ids : ~MergingOf(e)
    BY <2>1 DEF MergingOf, quiet, idle
  <2>4. RequestOK(r)'
    <3>1. RequestOK(requests[s])' /\ requests'[s] = r
      BY <1>2 DEF EntitiesInv
    <3> QED
      BY <3>1
  <2>5. Ledger(r)'
    BY <1>1, <1>4, <2>1, <2>4, LedgerStays
  <2>6. ASSUME NEW t \in Slots, ~idle(t)' PROVE Ledger(requests[t])'
    <3>1. t = s
      BY <1>2, <2>1, <2>6 DEF quiet, idle
    <3>2. requests'[t] = r
      BY <1>2, <3>1
    <3> QED
      BY <2>5, <3>2
  <2> QED
    BY <1>1, <2>1, <2>2, <2>3, <2>6 DEF LedgerInv
<1> QED
  BY <1>4, <1>5, <1>6 DEF LedgerInv

LEMMA UndoStart ==
    ASSUME EntitiesInv, NEW s \in Slots, NEW r, NEW undo, Start(s, r, undo),
           r.kind # "none", Clean' => past' = "orderly" /\ Clean /\ quiet /\ ~r.failed,
           Clean' /\ beforeMerge' = undo /\ undo.from # NoUri => Recorded' /\ Undo(r)'
    PROVE  UndoInv'
<1>1. /\ requests' = [t \in Slots |-> IF t = s THEN r ELSE requests[t]]
      /\ beforeMerge' = IF past' = "orderly" THEN undo ELSE NoWorld
  BY DEF EntitiesInv, Start, goes
<1> SUFFICES ASSUME Clean', beforeMerge'.from # NoUri
             PROVE  /\ Recorded' /\ ~quiet'
                    /\ \A t \in Slots : ~idle(t)' => Undo(requests[t])'
  BY DEF UndoInv
<1>2. beforeMerge' = undo /\ undo.from # NoUri /\ quiet
  BY <1>1
<1>3. Recorded' /\ Undo(r)'
  BY <1>2
<1>4. ~quiet'
  BY <1>1 DEF quiet, idle
<1>5. ASSUME NEW t \in Slots, ~idle(t)' PROVE Undo(requests[t])'
  <2>1. t = s
    BY <1>1, <1>2, <1>5 DEF quiet, idle
  <2>2. requests'[t] = r
    BY <1>1, <2>1
  <2> QED
    BY <1>3, <2>2
<1> QED
  BY <1>3, <1>4, <1>5

LEMMA ConcatenatedOnce ==
    ASSUME NEW S, NEW s \in Seq(S), NEW t \in Seq(S), ToSet(s) \cap ToSet(t) = {}, NEW v,
           Once(v, s), Once(v, t)
    PROVE  Once(v, s \o t)
<1>1. /\ s \o t \in Seq(S) /\ Len(s \o t) = Len(s) + Len(t)
      /\ \A n \in 1..Len(s) : (s \o t)[n] = s[n]
      /\ \A n \in 1..Len(t) : (s \o t)[Len(s) + n] = t[n]
  BY Concatenation
<1>2. PICK u : u = s \o t
  OBVIOUS
<1> SUFFICES ASSUME NEW k \in 1..Len(u), NEW n \in 1..Len(u), u[k] = v, u[n] = v PROVE k = n
  BY <1>1, <1>2 DEF Once
<1>3. \A m \in 1..Len(u) : m <= Len(s) => m \in DOMAIN s /\ u[m] = s[m]
  BY <1>1, <1>2
<1>4. ASSUME NEW m \in 1..Len(u), ~(m <= Len(s))
      PROVE  m - Len(s) \in DOMAIN t /\ u[m] = t[m - Len(s)]
  <2>1. m - Len(s) \in 1..Len(t) /\ Len(s) + (m - Len(s)) = m
    BY <1>1, <1>2, <1>4
  <2>2. u[Len(s) + (m - Len(s))] = t[m - Len(s)]
    BY <1>1, <1>2, <2>1
  <2> QED
    BY <2>1, <2>2
<1>5. \A g \in DOMAIN s : s[g] \in ToSet(s)
  BY DEF ToSet
<1>6. \A g \in DOMAIN t : t[g] \in ToSet(t)
  BY DEF ToSet
<1>7. CASE k <= Len(s) /\ n <= Len(s)
  BY <1>3, <1>7 DEF Once
<1>8. CASE ~(k <= Len(s)) /\ ~(n <= Len(s))
  <2>1. k - Len(s) = n - Len(s)
    BY <1>4, <1>8 DEF Once
  <2> QED
    BY <2>1
<1>9. CASE k <= Len(s) /\ ~(n <= Len(s))
  BY <1>3, <1>4, <1>5, <1>6, <1>9
<1>10. CASE ~(k <= Len(s)) /\ n <= Len(s)
  BY <1>3, <1>4, <1>5, <1>6, <1>10
<1> QED
  BY <1>7, <1>8, <1>9, <1>10

LEMMA editOfKind ==
    ASSUME EntitiesInv, NEW r \in Requests, RequestOK(r), r.kind = "edit", r.jobs = {},
           NEW q, q = editOf(r)
    PROVE  /\ q.kind = "edit" /\ q.from = r.from
           /\ \A j \in q.jobs : j.step # "patch"
<1> DEFINE n == putUpdate(r.from, docs[r.from], [docs[r.from] EXCEPT
                   !.labels = @ \cup r.change.labels, !.authors = @ \o r.change.authors], None)
<1>1. n.step = "put"
  BY DEF putUpdate, NoJob
<1>2. q = [r EXCEPT !.failed = TRUE] \/ q = [r EXCEPT !.stage = "end", !.jobs = {n}]
  BY DEF editOf
<1> HIDE DEF n
<1>3. ASSUME q = [r EXCEPT !.failed = TRUE]
      PROVE  q.kind = "edit" /\ q.from = r.from /\ q.jobs = {}
  BY <1>3 DEF Requests
<1>4. ASSUME q = [r EXCEPT !.stage = "end", !.jobs = {n}]
      PROVE  q.kind = "edit" /\ q.from = r.from /\ q.jobs = {n}
  BY <1>4 DEF Requests
<1>5. \A j \in q.jobs : j.step # "patch"
  BY <1>1, <1>2, <1>3, <1>4
<1> QED
  BY <1>2, <1>3, <1>4, <1>5

LEMMA EditLedger ==
    ASSUME EntitiesInv, NEW r \in Requests, RequestOK(r), r.kind = "edit", NEW q,
           q = editOf(r), Unrepeated(r.change.authors), Told(r.from), ~r.failed
    PROVE  ~q.failed => Ledger(q)
<1> DEFINE d == docs[r.from]
           new == [d EXCEPT !.labels = @ \cup r.change.labels, !.authors = @ \o r.change.authors]
           n == putUpdate(r.from, d, new, None)
<1>1. r.from \in Ids /\ r.change \in Contents /\ d \in Docs /\ None \in Contexts
  BY CurrentDoc DEF RequestOK, Requests, Contexts
<1>2. q = [r EXCEPT !.failed = TRUE] \/ q = [r EXCEPT !.stage = "end", !.jobs = {n}]
  BY DEF editOf
<1>3. q = [r EXCEPT !.failed = TRUE] => q.failed /\ q.kind = "edit" /\ q.from = r.from
                                        /\ q.jobs = r.jobs
  BY DEF Requests
<1>4. new \in Docs /\ new.authors = d.authors \o r.change.authors
  <2>1. d.authors \o r.change.authors \in Seq(Authors)
    BY <1>1, Concatenation DEF Docs, Contents
  <2> QED
    BY <1>1, <2>1 DEF Docs, Contents
<1>5. /\ n.step = "put" /\ n.context = None
      /\ Unrepeated(new.authors) => \A x : Noted(x, n)
  <2> HIDE DEF n, new, d
  <2>1. PICK id : id = r.from
    OBVIOUS
  <2>2. id \in Ids /\ n = putUpdate(id, d, new, None)
    BY <1>1, <2>1 DEF n
  <2>3. PICK old, k, to : old = d /\ k = n /\ to = new
    OBVIOUS
  <2>4. k = putUpdate(id, old, to, None) /\ old \in Docs /\ to \in Docs
    BY <1>1, <1>4, <2>2, <2>3
  <2>5. k.step = "put"
    BY <1>1, <2>2, <2>4, putUpdateType
  <2>6. k.context = None /\ (Unrepeated(to.authors) => \A x : Noted(x, k))
    BY <1>1, <2>2, <2>4, putUpdateNoted
  <2> QED
    BY <2>3, <2>5, <2>6
<1>6. ASSUME q # [r EXCEPT !.failed = TRUE] PROVE Unrepeated(new.authors)
  <2>1. ToSet(r.change.authors) \cap ToSet(d.authors) = {}
    BY <1>6 DEF editOf
  <2>2. Unrepeated(d.authors)
    BY <1>1, DocUnrepeated
  <2>3. d.authors \in Seq(Authors) /\ r.change.authors \in Seq(Authors)
    BY <1>1 DEF Docs, Contents
  <2>4. PICK a, b : a = d.authors /\ b = r.change.authors
    OBVIOUS
  <2>5. ASSUME NEW e \in Ids, Pure(e) PROVE Once(e, a \o b)
    <3>1. Once(e, a) /\ Once(e, b) /\ a \in Seq(Authors) /\ b \in Seq(Authors)
          /\ ToSet(a) \cap ToSet(b) = {}
      BY <2>1, <2>2, <2>3, <2>4, <2>5 DEF Unrepeated
    <3> QED
      BY <3>1, ConcatenatedOnce
  <2> QED
    BY <1>4, <2>4, <2>5 DEF Unrepeated
<1> HIDE DEF n, new
<1>7. ASSUME q = [r EXCEPT !.stage = "end", !.jobs = {n}], q # [r EXCEPT !.failed = TRUE]
      PROVE  q.kind = "edit" /\ q.from = r.from /\ q.jobs = {n} /\ Ledger(q)
  <2>1. /\ q.kind = "edit" /\ q.from = r.from /\ q.jobs = {n} /\ q.change = r.change
    BY <1>7 DEF Requests
  <2>2. puts(q) \subseteq {n}
    BY <2>1 DEF puts
  <2> QED
    BY <1>5, <1>6, <1>7, <2>1, <2>2 DEF Ledger
<1> QED
  BY <1>2, <1>3, <1>5, <1>7

LEMMA HistoryStartEdit ==
    ASSUME EntitiesInv, Separate, TidyInv, LedgerInv, UndoInv, NEW s \in Slots, StartEdit(s),
           EntitiesInv'
    PROVE  LedgerInv' /\ UndoInv'
<1> DEFINE R(e, c) == [NoRequest EXCEPT !.kind = "edit", !.from = e, !.change = c]
<1>1. PICK e \in Ids, c \in Changes :
          /\ Start(s, editOf(R(e, c)), NoWorld) /\ idle(s)
          /\ c.authors # <<>> => e \in Works
  BY DEF StartEdit, mayStart
<1>2. c \in Contents /\ (c.authors = <<>> \/ \E a \in Authors : c.authors = <<a>>)
  <2>1. \A l \in Labels : /\ [create EXCEPT !.labels = {l}] \in Contents
                          /\ [create EXCEPT !.labels = {l}].authors = <<>>
    <3>1. \A l \in Labels : {l} \in SUBSET Labels
      OBVIOUS
    <3>2. <<>> \in Seq(Authors)
      OBVIOUS
    <3> QED
      BY <3>1, <3>2 DEF create, Contents
  <2>2. \A a \in Authors : /\ [create EXCEPT !.authors = <<a>>] \in Contents
                           /\ [create EXCEPT !.authors = <<a>>].authors = <<a>>
    <3>1. \A a \in Authors : <<a>> \in Seq(Authors)
      OBVIOUS
    <3> QED
      BY <3>1 DEF create, Contents
  <2> QED
    BY <2>1, <2>2 DEF Changes
<1>3. PICK q : q = R(e, c)
  OBVIOUS
<1>4. /\ q \in Requests /\ q.kind = "edit" /\ q.from = e /\ q.change = c /\ q.jobs = {}
      /\ q.stage = "none" /\ q.failed = FALSE /\ q.copies = <<>>
  BY <1>2, <1>3, NoDocType DEF NoRequest, Requests
<1>5. RequestOK(q)
  <2>1. e \in Ids /\ (e \in Works \/ c.authors = <<>>)
    BY <1>1
  <2> QED
    BY <1>4, <2>1 DEF RequestOK
<1>6. Unrepeated(c.authors)
  BY <1>2 DEF Unrepeated, Once
<1> HIDE DEF R
<1>7. PICK r : r = editOf(q)
  OBVIOUS
<1>8. Start(s, r, NoWorld)
  BY <1>1, <1>3, <1>7
<1>9. ASSUME Clean PROVE ~r.failed => Ledger(r)
  <2>1. Told(q.from)
    BY <1>4, <1>9 DEF LedgerInv
  <2> QED
    BY <1>4, <1>5, <1>6, <1>7, <2>1, EditLedger
<1>10. r.kind = "edit" /\ \A j \in r.jobs : j.step # "patch"
  BY <1>4, <1>5, <1>7, editOfKind
<1>11. LedgerInv' /\ (Clean' => past' = "orderly" /\ Clean /\ quiet /\ ~r.failed)
  <2>1. /\ r.kind # "none" /\ idle(s)
        /\ past' = "orderly" /\ Clean /\ quiet /\ ~r.failed => Ledger(r)
    BY <1>1, <1>9, <1>10
  <2>2. LedgerInv'
    BY <1>8, <1>10, <2>1, LedgerStart
  <2>3. Clean' => past' = "orderly" /\ Clean /\ quiet /\ ~r.failed
    BY <1>8, <1>10, <2>1, LedgerStart
  <2> QED
    BY <2>2, <2>3
<1>12. NoWorld.from = NoUri
  BY DEF NoWorld
<1>13. UndoInv'
  BY <1>8, <1>10, <1>11, <1>12, UndoStart
<1> QED
  BY <1>11, <1>13

LEMMA HistoryRetry ==
    ASSUME EntitiesInv, Separate, TidyInv, LedgerInv, UndoInv, NEW s \in Slots,
           RetryOnConflict(s), EntitiesInv'
    PROVE  LedgerInv' /\ UndoInv'
<1>1. PICK q : q = requests[s]
  OBVIOUS
<1>2. PICK r : r = editOf(q)
  OBVIOUS
<1>3. /\ q \in Requests /\ RequestOK(q) /\ q.kind = "edit" /\ q.jobs = {} /\ ~q.failed
      /\ reads /\ goes(s, r) /\ ~idle(s)
  BY <1>1, <1>2 DEF EntitiesInv, RetryOnConflict, at, idle
<1>4. r.kind = "edit" /\ r.from = q.from /\ \A j \in r.jobs : j.step # "patch"
  BY <1>2, <1>3, editOfKind
<1>5. ASSUME Clean, Ledger(q), ~r.failed PROVE Ledger(r)
  <2>1. q.from \in Ids
    BY <1>3 DEF RequestOK
  <2>2. Told(q.from) /\ Unrepeated(q.change.authors)
    BY <1>5, <2>1 DEF LedgerInv, Ledger
  <2> QED
    BY <1>2, <1>3, <1>5, <2>2, EditLedger
<1>6. ~Undo(q)
  BY <1>3 DEF Undo
<1> QED
  BY <1>1, <1>3, <1>4, <1>5, <1>6, HistoryRead

LEMMA HistoryStartMerge ==
    ASSUME EntitiesInv, Separate, TidyInv, LedgerInv, UndoInv, NEW s \in Slots, StartMerge(s),
           EntitiesInv'
    PROVE  LedgerInv' /\ UndoInv'
<1> DEFINE R(f, t) == [NoRequest EXCEPT !.kind = "merge", !.from = f, !.to = t,
                         !.stage = IF t \in Wikidata THEN "isolate" ELSE "mergeDocs"]
<1>1. PICK from \in Ids, to \in Uris :
          /\ Start(s, R(from, to), [from |-> from, world |-> world])
          /\ validateEntities(from, to) /\ mayStart(s)
  BY DEF StartMerge
<1>2. PICK r : r = R(from, to)
  OBVIOUS
<1>3. /\ r.kind = "merge" /\ r.jobs = {} /\ r.from = from /\ r.to = to
      /\ r.stage \in {"isolate", "mergeDocs"} /\ r.removed = {} /\ r.change = create
  BY <1>2 DEF NoRequest
<1> HIDE DEF R
<1>4. PICK undo : undo = [from |-> from, world |-> world]
  OBVIOUS
<1>5. /\ Start(s, r, undo) /\ UNCHANGED <<docs, items, patches>> /\ idle(s)
      /\ ~isRedirection(docs[from])
  BY <1>1, <1>2, <1>4 DEF Start, mayStart, validateEntities
<1>6. puts(r) = {}
  BY <1>3 DEF puts
<1>7. Ledger(r)
  <2>1. create.authors = <<>>
    BY DEF create
  <2>2. Unrepeated(r.change.authors)
    BY <1>3, <2>1 DEF Unrepeated, Once
  <2> QED
    BY <1>3, <1>6, <2>2 DEF Ledger
<1>8. LedgerInv'
  BY <1>3, <1>5, <1>7, LedgerStart
<1>9. \A e \in Ids : written(e)' = written(e)
  BY <1>3, <1>5, <1>7, LedgerStart
<1>10. Clean' => past' = "orderly" /\ Clean /\ quiet /\ ~r.failed
  BY <1>3, <1>5, <1>7, LedgerStart
<1>11. ASSUME Clean', beforeMerge' = undo PROVE Recorded' /\ Undo(r)'
  <2>1. Clean /\ quiet
    BY <1>10, <1>11
  <2> DEFINE D == [e \in Ids |-> <<content(docs[e]), docs[e].type = "removed:placeholder">>]
             I == [i \in Items |-> <<items[i].entity, items[i].previousEntity>>]
  <2>2. beforeMerge'.from = from /\ beforeMerge'.world.docs = D /\ beforeMerge'.world.items = I
        /\ beforeMerge'.world = [docs |-> D, items |-> I]
    BY <1>4, <1>11 DEF world
  <2>3. \A e \in Ids : was(e)' = content(docs[e])
                       /\ (wasRemoved(e)' <=> docs[e].type = "removed:placeholder")
    <3>1. \A e \in Ids : /\ D[e][1] = content(docs[e])
                         /\ D[e][2] <=> docs[e].type = "removed:placeholder"
      OBVIOUS
    <3>2. \A e \in Ids : was(e)' = D[e][1] /\ wasRemoved(e)' = D[e][2]
      BY <2>2 DEF was, wasRemoved
    <3> HIDE DEF D
    <3> QED
      BY <3>1, <3>2
  <2>4. \A i \in Items : wasAt(i)' = <<items[i].entity, items[i].previousEntity>>
    BY <2>2 DEF wasAt
  <2>5. \A e \in Ids : Same(e)' /\ (removedNow(e)' <=> wasRemoved(e)')
    BY <1>5, <2>3 DEF Same, removedNow, content
  <2>6. Recorded'
    <3>1. was(from)'[3] = NoUri
      BY <1>5, <2>3 DEF content, isRedirection
    <3>2. \A i \in Items : wasAt(i)'[2] \in Seq(Works)
      BY <2>4 DEF EntitiesInv, ItemDocs
    <3>3. D = [e \in Ids |-> <<was(e)', wasRemoved(e)'>>]
      BY <2>2 DEF was, wasRemoved
    <3>4. I = [i \in Items |-> <<wasAt(i)'[1], wasAt(i)'[2]>>]
      BY <2>4
    <3>5. \A e \in Ids : wasRemoved(e)' \in BOOLEAN
      BY <2>2 DEF wasRemoved
    <3> HIDE DEF D, I
    <3> QED
      BY <2>2, <3>1, <3>2, <3>3, <3>4, <3>5 DEF Recorded
  <2> SUFFICES ASSUME Pure(from)' PROVE Merging(r)'
    BY <1>3, <2>2, <2>6 DEF Undo
  <2>7. Unmerged(from)
    <3>1. Pure(from)
      BY <1>9 DEF Pure
    <3>2. ~MergingOf(from)
      BY <2>1 DEF MergingOf, quiet, idle
    <3> QED
      BY <1>5, <2>1, <3>1, <3>2 DEF LedgerInv
  <2>8. \A e \in Ids : \A p \in written(e)' : p.context \notin ctx(from)
    BY <1>9, <2>7 DEF Unmerged
  <2>9. \A e \in Ids : marked(from, e)' = {}
    BY <2>8 DEF marked
  <2>10. MergedSoFar(r)'
    <3>1. \A e \in Ids : Traced(from, e)'
      BY <2>5, <2>9 DEF Traced
    <3>2. OnOthers(from, to)'
      BY <2>9 DEF OnOthers
    <3>3. \A e \in Ids : \A p \in written(e)' : p.context # <<"redirectClaims", from>>
      BY <2>8 DEF ctx
    <3>4. ~Turned(r)' /\ OneJob(r)'
      BY <1>3 DEF Turned, OneJob
    <3>5. puts(r)' = {}
      BY <1>6 DEF puts
    <3> QED
      BY <1>3, <2>5, <2>9, <3>1, <3>2, <3>3, <3>4, <3>5 DEF MergedSoFar
  <2>11. RemovedSoFar(r)'
    <3>1. RemovedBy({})'
      BY <2>5 DEF RemovedBy
    <3> QED
      BY <1>3, <3>1 DEF RemovedSoFar, Turned
  <2>12. ASSUME NEW i \in Items PROVE KeptOrMoved(i, from, to)'
    <3> DEFINE x == items[i]
    <3>1. x \in ItemDocs /\ Linked(x)
      BY <2>1 DEF EntitiesInv, TidyInv, Settled
    <3>2. from \notin ToSet(x.previousEntity)
      <4> SUFFICES ASSUME from \in ToSet(x.previousEntity) PROVE FALSE
        OBVIOUS
      <4>1. PICK n \in 1..Len(x.previousEntity) : x.previousEntity[n] = from
        BY <3>1 DEF ToSet, ItemDocs
      <4>2. nextOf(x, n) \in Works \cup WdWorks
        BY <3>1, <4>1 DEF nextOf, ItemDocs
      <4>3. docs[from].redirect = nextOf(x, n)
        BY <3>1, <4>1 DEF Linked
      <4> QED
        BY <1>5, <4>2, <4>3, EntitiesAssumption DEF isRedirection
    <3>3. Kept(i)'
      BY <1>5, <2>4 DEF Kept
    <3> QED
      BY <1>5, <3>2, <3>3 DEF KeptOrMoved
  <2> QED
    BY <1>3, <2>10, <2>11, <2>12 DEF Merging
<1>12. UndoInv'
  BY <1>3, <1>5, <1>10, <1>11, UndoStart
<1> QED
  BY <1>8, <1>12

LEMMA HistoryStartRevert ==
    ASSUME EntitiesInv, Separate, TidyInv, LedgerInv, UndoInv, NEW s \in Slots, StartRevert(s),
           EntitiesInv'
    PROVE  LedgerInv' /\ UndoInv'
<1> DEFINE R(e) == [NoRequest EXCEPT !.kind = "revert", !.stage = "restore", !.from = e]
<1>1. PICK from \in Ids, undo \in {beforeMerge, NoWorld} :
          /\ undo = (IF beforeMerge.from = from THEN beforeMerge ELSE NoWorld) /\ mayStart(s)
          /\ \/ Start(s, [R(from) EXCEPT !.failed = TRUE], undo)
             \/ \E c \in findVersionBeforeRedirect(from) :
                  Start(s, [R(from) EXCEPT !.change = c], undo)
  BY DEF StartRevert
<1>2. idle(s)
  BY <1>1 DEF mayStart
<1>3. ASSUME NEW r, Start(s, r, undo), r.kind # "none", r.failed, r.jobs = {}
      PROVE  LedgerInv' /\ UndoInv'
  <2>1. LedgerInv' /\ (Clean' => past' = "orderly" /\ Clean /\ quiet /\ ~r.failed)
    BY <1>2, <1>3, LedgerStart
  <2>2. UndoInv'
    BY <1>3, <2>1, UndoStart
  <2> QED
    BY <2>1, <2>2
<1>4. ASSUME NEW c \in findVersionBeforeRedirect(from), NEW r, Start(s, r, undo),
             r.kind = "revert", r.stage = "restore", r.from = from, r.jobs = {}, r.change = c
      PROVE  LedgerInv' /\ UndoInv'
  <2>1. puts(r) = {}
    BY <1>4 DEF puts
  <2>2. ASSUME Clean, quiet
        PROVE  /\ EntityOK(from) /\ Whole(from) /\ written(from) = patches[from] /\ Told(from)
               /\ c.type = "none" /\ Pure(from) /\ isRedirection(docs[from])
               /\ \E p \in patches[from] : content(c) = content(p.after)
               /\ \A p \in patches[from] :
                    p.version = docs[from].version /\ p.before.redirect = NoUri
                      => content(c) = content(p.before)
    <3>1. written(from) = patches[from]
      BY <2>2, NothingWritten DEF Clean, quiet
    <3>2. EntityOK(from) /\ Told(from) /\ Whole(from)
      BY <2>2 DEF EntitiesInv, LedgerInv, Told
    <3> QED
      BY <3>1, <3>2, VersionBeforeMerge
  <2>3. ASSUME Clean, quiet PROVE Ledger(r)
    <3>1. PICK p \in patches[from] : content(c) = content(p.after)
      BY <2>2, <2>3
    <3>2. c.authors = p.after.authors
      BY <3>1 DEF content
    <3>3. p \in written(from) /\ Told(from)
      BY <2>2, <2>3
    <3>4. Unrepeated(r.change.authors)
      BY <1>4, <3>2, <3>3 DEF Told
    <3>5. Restores(r)
      BY <1>4, <2>2, <2>3 DEF Restores
    <3> QED
      BY <1>4, <2>1, <3>4, <3>5 DEF Ledger
  <2>4. r.kind # "none" /\ \A j \in r.jobs : j.step # "patch"
    BY <1>4
  <2>5. LedgerInv'
    BY <1>2, <1>4, <2>3, <2>4, LedgerStart
  <2>6. \A e \in Ids : written(e)' = written(e)
    BY <1>2, <1>4, <2>3, <2>4, LedgerStart
  <2>7. Clean' => past' = "orderly" /\ Clean /\ quiet /\ ~r.failed
    BY <1>2, <1>4, <2>3, <2>4, LedgerStart
  <2>8. ASSUME Clean', beforeMerge' = undo, undo.from # NoUri PROVE Recorded' /\ Undo(r)'
    <3>1. beforeMerge' = beforeMerge /\ beforeMerge.from = from /\ beforeMerge.from # NoUri
      BY <1>1, <2>8 DEF NoWorld
    <3>2. Recorded /\ Undone(from) /\ Clean /\ quiet
      BY <2>7, <2>8, <3>1 DEF UndoInv
    <3>3. MergedInto(from, docs[from].redirect)
      BY <2>2, <3>2 DEF Undone
    <3>4. PICK p \in patches[from] :
             p.version = docs[from].version /\ content(p.before) = was(from)
      BY <2>2, <3>2, <3>3 DEF MergedInto, Gone
    <3>5. content(c) = was(from)
      <4>1. p.before.redirect = NoUri
        BY <3>1, <3>2, <3>4 DEF Recorded, content
      <4> QED
        BY <2>2, <3>2, <3>4, <4>1
    <3>6. ~wasRemoved(from)
      <4>1. p.after = versionned(docs[from]) /\ p.after.type = "entity"
        BY <2>2, <3>2, <3>4 DEF EntityOK, Follow, Pure
      <4>2. ~removedNow(from)
        BY <4>1 DEF versionned, removedNow
      <4> QED
        BY <3>3, <4>2 DEF MergedInto, RemovedBy
    <3>7. UNCHANGED <<docs, items, beforeMerge>>
      BY <1>4, <3>1 DEF Start
    <3>8. MergedInto(from, docs[from].redirect)'
      <4>1. \A f \in Ids : \A to : MergedInto(f, to)' = MergedInto(f, to)
        BY <2>6, <3>7, UndoUnchanged
      <4>2. PICK to : to = docs[from].redirect
        OBVIOUS
      <4>3. MergedInto(from, to)' /\ docs'[from].redirect = to
        BY <3>3, <3>7, <4>1, <4>2
      <4> QED
        BY <4>3
    <3>9. was(from)' = was(from) /\ wasRemoved(from)' = wasRemoved(from) /\ Recorded'
      BY <2>6, <3>2, <3>7, DocsUnchanged
    <3>10. Reverting(r)'
      BY <1>4, <3>5, <3>6, <3>8, <3>9 DEF Reverting
    <3> QED
      BY <1>4, <3>1, <3>9, <3>10 DEF Undo
  <2>9. UndoInv'
    BY <1>4, <2>4, <2>7, <2>8, UndoStart
  <2> QED
    BY <2>5, <2>9
<1>5. PICK q : q = R(from)
  OBVIOUS
<1>6. /\ q.kind = "revert" /\ q.stage = "restore" /\ q.from = from /\ q.jobs = {}
      /\ q \in Requests
  BY <1>5, NoDocType DEF NoRequest, Requests, Stages
<1> HIDE DEF R
<1>7. ASSUME NEW r, r = [q EXCEPT !.failed = TRUE]
      PROVE  r.kind = "revert" /\ r.failed /\ r.jobs = {}
  BY <1>6, <1>7 DEF Requests
<1>8. ASSUME NEW c, NEW r, r = [q EXCEPT !.change = c]
      PROVE  /\ r.kind = "revert" /\ r.stage = "restore" /\ r.from = from /\ r.jobs = {}
             /\ r.change = c
  BY <1>6, <1>8 DEF Requests
<1>9. CASE Start(s, [R(from) EXCEPT !.failed = TRUE], undo)
  <2>1. PICK r : r = [q EXCEPT !.failed = TRUE]
    OBVIOUS
  <2>2. Start(s, r, undo)
    BY <1>5, <1>9, <2>1
  <2> QED
    BY <1>3, <1>7, <2>1, <2>2
<1>10. ASSUME NEW c \in findVersionBeforeRedirect(from),
              Start(s, [R(from) EXCEPT !.change = c], undo)
       PROVE  LedgerInv' /\ UndoInv'
  <2>1. PICK r : r = [q EXCEPT !.change = c]
    OBVIOUS
  <2>2. Start(s, r, undo)
    BY <1>5, <1>10, <2>1
  <2> QED
    BY <1>4, <1>8, <2>1, <2>2
<1> QED
  BY <1>1, <1>9, <1>10

LEMMA HistoryFinish ==
    ASSUME EntitiesInv, Separate, TidyInv, LedgerInv, UndoInv, NEW s \in Slots, Finish(s),
           EntitiesInv'
    PROVE  LedgerInv' /\ UndoInv'
<1> DEFINE r == requests[s]
<1>1. /\ r \in Requests /\ RequestOK(r) /\ ~idle(s) /\ r.jobs = {} /\ (r.failed \/ r.stage = "end")
      /\ past' = (IF r.failed /\ past = "orderly" THEN "failures" ELSE past)
      /\ UNCHANGED <<docs, items, patches, beforeMerge>> /\ goes(s, NoRequest)
      /\ requests' = [t \in Slots |-> IF t = s THEN NoRequest ELSE requests[t]]
  BY DEF EntitiesInv, Finish, goes
<1> SUFFICES ASSUME Clean' PROVE LedgerInv' /\ UndoInv'
  BY DEF LedgerInv, UndoInv
<1>2. past = "orderly" /\ ~r.failed /\ r.stage = "end"
  BY <1>1 DEF Clean
<1>3. \A t \in Slots : t # s => idle(t)
  BY <1>1, <1>2 DEF Separate, Alone
<1>4. NoRequest.kind = "none" /\ NoRequest.jobs = {}
  BY DEF NoRequest
<1>5. quiet'
  BY <1>1, <1>3, <1>4 DEF quiet, idle
<1>6. Clean /\ ~quiet
  BY <1>1, <1>2, <1>3 DEF Clean, quiet
<1>7. Progress(r)
  BY <1>1, <1>6 DEF TidyInv
<1>8. \A e \in Ids : written(e)' = written(e)
  BY <1>1, <1>4, SameWritten
<1>9. /\ \A e \in Ids : Told(e)' /\ (Pure(e)' = Pure(e)) /\ (Unmerged(e)' = Unmerged(e))
      /\ \A t \in Slots : idle(t)'
  BY <1>1, <1>5, <1>6, <1>8, LedgerUnchanged DEF LedgerInv, quiet
<1>10. r.kind = "merge" => isRedirection(docs[r.from]) /\ r.from \in Ids
  <2> SUFFICES ASSUME r.kind = "merge" PROVE isRedirection(docs[r.from]) /\ r.from \in Ids
    OBVIOUS
  <2>1. docs[r.from].redirect = r.to
    BY <1>2, <1>7 DEF Progress, MergeItems, Redirected
  <2>2. r.to \in Uris /\ r.from \in Ids
    BY <1>1 DEF RequestOK
  <2> QED
    BY <2>1, <2>2, EntitiesAssumption DEF isRedirection, Uris, Ids, Wikidata
<1>11. LedgerInv'
  <2>1. ASSUME NEW e \in Ids, Pure(e)', ~isRedirection(docs'[e]) PROVE Unmerged(e)'
    <3>1. Unmerged(e) \/ MergingOf(e)
      BY <1>1, <1>6, <1>9, <2>1 DEF LedgerInv
    <3>2. ~MergingOf(e)
      <4> SUFFICES ASSUME MergingOf(e) PROVE FALSE
        OBVIOUS
      <4>1. r.kind = "merge" /\ r.from = e
        BY <1>3 DEF MergingOf, idle
      <4> QED
        BY <1>1, <1>10, <2>1, <4>1
    <3> QED
      BY <1>9, <3>1, <3>2
  <2> QED
    BY <1>9, <2>1 DEF LedgerInv
<1>12. ASSUME beforeMerge.from # NoUri PROVE Undone(beforeMerge.from) /\ Recorded
  <2>1. Undo(r) /\ Recorded
    BY <1>1, <1>6, <1>12 DEF UndoInv
  <2>2. r.from = beforeMerge.from /\ r.from \in Ids
    BY <1>1, <2>1 DEF Undo, RequestOK, idle
  <2>3. CASE r.kind = "merge"
    <3> SUFFICES ASSUME Pure(r.from) PROVE MergedInto(r.from, docs[r.from].redirect)
      BY <2>1, <2>2 DEF Undone
    <3>1. Merging(r) /\ Turned(r)
      BY <1>2, <2>1, <2>3 DEF Undo, Turned
    <3>2. docs[r.from].redirect = r.to
      BY <1>2, <1>7, <2>3 DEF Progress, MergeItems, Redirected
    <3>3. MergedInto(r.from, r.to)
      BY <3>1, <3>2 DEF Merging, MergedSoFar, RemovedSoFar, MergedInto
    <3> QED
      BY <3>2, <3>3
  <2>4. CASE r.kind = "revert"
    <3>1. docs[r.from].redirect = NoUri
      BY <1>2, <1>7, <2>4 DEF Progress, RevertItems
    <3> QED
      BY <2>1, <2>2, <3>1 DEF Undone, isRedirection
  <2> QED
    BY <2>1, <2>3, <2>4 DEF Undo
<1>13. UndoInv'
  <2> SUFFICES ASSUME beforeMerge.from # NoUri PROVE Recorded' /\ Undone(beforeMerge.from)'
    BY <1>1, <1>9 DEF UndoInv
  <2>1. Recorded' /\ beforeMerge.from \in Ids
    BY <1>1, <1>8, <1>12, DocsUnchanged DEF Recorded
  <2>2. PICK f : f = beforeMerge.from
    OBVIOUS
  <2>3. Undone(f)'
    BY <1>1, <1>8, <1>12, <2>1, <2>2, UndoUnchanged
  <2>4. Undone(beforeMerge.from)'
    BY <1>1, <2>2, <2>3
  <2> QED
    BY <2>1, <2>4
<1> QED
  BY <1>11, <1>13

LEMMA InitialHistory == Init => LedgerInv /\ UndoInv
<1> SUFFICES ASSUME Init PROVE LedgerInv /\ UndoInv
  OBVIOUS
<1>1. UndoInv
  BY DEF Init, UndoInv, NoWorld
<1>2. \A t \in Slots : requests[t] = NoRequest
  BY DEF Init
<1>3. NoRequest.kind = "none" /\ NoRequest.jobs = {}
  BY DEF NoRequest
<1>4. \A t \in Slots : idle(t)
  BY <1>2, <1>3 DEF idle
<1>5. ASSUME NEW e \in Ids
      PROVE  /\ written(e) = {getDiff(NoDoc, docs[e], None)} /\ docs[e].version = 2
             /\ docs[e].authors = <<>> \/ \E h : docs[e].authors = <<h>>
  <2>1. written(e) = patches[e]
    BY <1>2, <1>3 DEF written, writing
  <2>2. patches[e] = {getDiff(NoDoc, docs[e], None)}
    BY DEF Init
  <2>3. PICK labels \in [Ids -> SUBSET Labels],
             authors \in [Works -> {<<>>} \cup {<<h>> : h \in Humans}] :
          docs = [x \in Ids |-> documentOf(
                    [create EXCEPT !.labels = IF x \in Labelled THEN labels[x] ELSE {},
                                   !.authors = IF x \in Works THEN authors[x] ELSE <<>>], 2)]
    BY DEF Init
  <2>4. /\ docs[e].version = 2
        /\ docs[e].authors = (IF e \in Works THEN authors[e] ELSE <<>>)
    BY <2>3 DEF documentOf, create
  <2>5. e \in Works => authors[e] = <<>> \/ \E h : authors[e] = <<h>>
    BY <2>3
  <2> QED
    BY <2>1, <2>2, <2>4, <2>5
<1>6. ASSUME NEW e \in Ids PROVE Told(e) /\ Unmerged(e)
  <2>1. \A x \in Ids : \A p \in written(x) : p.context = None
    BY <1>5 DEF getDiff
  <2>2. Unmerged(e)
    BY <2>1, NoContext DEF Unmerged
  <2>3. \A p \in written(e) : ForMerge(p)
    BY <2>1 DEF ForMerge, None
  <2>4. \A p \in written(e) : Unrepeated(p.after.authors)
    <3>1. \A p \in written(e) : p.after.authors = docs[e].authors
      BY <1>5 DEF getDiff, versionned
    <3>2. Unrepeated(docs[e].authors)
      BY <1>5 DEF Unrepeated, Once
    <3> QED
      BY <3>1, <3>2
  <2>5. Whole(e)
    <3>1. getDiff(NoDoc, docs[e], None).version = 2 /\ getDiff(NoDoc, docs[e], None) \in written(e)
      BY <1>5 DEF getDiff
    <3>2. \A v \in 2..2 : v = 2
      OBVIOUS
    <3> QED
      BY <1>5, <3>1, <3>2 DEF Whole
  <2> QED
    BY <2>2, <2>3, <2>4, <2>5 DEF Told
<1> QED
  BY <1>1, <1>4, <1>6 DEF LedgerInv

LEMMA HistoryJobs ==
    ASSUME EntitiesInv, Separate, TidyInv, LedgerInv, UndoInv, NEW s \in Slots, JobStep(s),
           EntitiesInv'
    PROVE  LedgerInv' /\ UndoInv'
<1>1. PICK j \in requests[s].jobs :
          \/ PutDoc(s, j) \/ CreatePatch(s, j)
          \/ DeleteIfIsolated(s, j) \/ RemovePlaceholder(s, j) \/ RecoverPlaceholder(s, j)
          \/ RevertFromPatchDoc(s, j)
          \/ RedirectClaims(s, j) \/ AfterMerge(s, j) \/ Bulk(s, j)
  BY DEF JobStep
<1> QED
  BY <1>1, HistoryPutDoc, HistoryCreatePatch, HistoryPlaceholderJobs,
     HistoryRevertFromPatchDoc, HistoryRedirectClaims, HistoryAfterMerge, HistoryBulk

LEMMA NextKeepsHistory ==
    ASSUME EntitiesInv, Separate, TidyInv, LedgerInv, UndoInv, [Next]_vars, EntitiesInv'
    PROVE  LedgerInv' /\ UndoInv'
<1>1. CASE UNCHANGED vars
  <2>1. /\ UNCHANGED <<docs, patches, items, requests, past, beforeMerge>>
        /\ \A e \in Ids : written(e)' = written(e) /\ patches[e] \subseteq patches'[e]
        /\ quiet' = quiet /\ Clean' = Clean
        /\ \A t \in Slots : idle(t)' = idle(t) /\ requests'[t] = requests[t]
    BY <1>1 DEF vars, written, writing, quiet, Clean, idle
  <2>2. \A e \in Ids : /\ Told(e)' = Told(e) /\ Pure(e)' = Pure(e)
                       /\ Unmerged(e)' = Unmerged(e) /\ MergingOf(e)' = MergingOf(e)
    BY <2>1, LedgerUnchanged DEF MergingOf
  <2>3. ASSUME NEW t \in Slots, ~idle(t)
        PROVE  /\ Ledger(requests[t]) => Ledger(requests[t])'
               /\ Undo(requests[t]) => Undo(requests[t])'
    <3>1. PICK r : r = requests[t]
      OBVIOUS
    <3>2. r.kind # "none" /\ requests'[t] = r /\ RequestOK(r)
      BY <2>1, <2>3, <3>1 DEF idle, EntitiesInv
    <3>3. RequestOK(r)'
      <4>1. RequestOK(requests[t])'
        BY DEF EntitiesInv
      <4> QED
        BY <3>2, <4>1
    <3>4. r.from \in Ids /\ \A j \in r.jobs : j.step \in {"put", "revert"} => j.id \in Ids
      BY <3>2 DEF RequestOK, JobOK, Writes
    <3>5. Ledger(r) => Ledger(r)'
      BY <2>1, <3>2, <3>3, LedgerStays
    <3>6. Undo(r) => Undo(r)'
      BY <2>1, <3>4, UndoStays
    <3> QED
      BY <3>1, <3>2, <3>5, <3>6
  <2>4. LedgerInv'
    BY <2>1, <2>2, <2>3 DEF LedgerInv
  <2>5. Recorded' = Recorded
    BY <2>1, DocsUnchanged
  <2>6. Recorded => Undone(beforeMerge.from)' = Undone(beforeMerge.from)
    <3> SUFFICES ASSUME Recorded PROVE Undone(beforeMerge.from)' = Undone(beforeMerge.from)
      OBVIOUS
    <3>1. PICK f \in Ids : f = beforeMerge.from
      BY DEF Recorded
    <3>2. Undone(f)' = Undone(f)
      BY <2>1, UndoUnchanged
    <3> QED
      BY <2>1, <3>1, <3>2
  <2>7. UndoInv'
    BY <2>1, <2>3, <2>5, <2>6 DEF UndoInv
  <2> QED
    BY <2>4, <2>7
<1>2. CASE Crash
  <2>1. past' # "orderly"
    BY <1>2 DEF Crash
  <2> QED
    BY <2>1 DEF LedgerInv, UndoInv, Clean
<1>3. ASSUME NEW s \in Slots,
             \/ StartEdit(s) \/ StartMerge(s) \/ StartRevert(s)
             \/ RetryOnConflict(s)
             \/ MergeInvEntities(s) \/ RemoveObsoletePlaceholderEntities(s)
             \/ TurnIntoRedirection(s) \/ PropagateRedirection(s)
             \/ RestoreVersion(s) \/ AfterRevert(s)
             \/ RecoverPlaceholders(s) \/ RevertMergePatch(s) \/ RevertClaimsRedirections(s)
             \/ JobStep(s)
             \/ Finish(s)
      PROVE  LedgerInv' /\ UndoInv'
  BY <1>3, HistoryStartEdit, HistoryStartMerge, HistoryStartRevert, HistoryRetry,
     HistoryMergeInvEntities, HistoryRemoveObsoletePlaceholders, HistoryTurnIntoRedirection,
     HistoryPropagateRedirection, HistoryRestoreVersion, HistoryAfterRevert,
     HistoryRecoverPlaceholders, HistoryRevertMergePatch, HistoryRevertClaimsRedirections,
     HistoryJobs, HistoryFinish
<1> QED
  BY <1>1, <1>2, <1>3 DEF Next

LEMMA MergesCanBeUndone == Spec => [](LedgerInv /\ UndoInv)
<1>1. Init => LedgerInv /\ UndoInv
  BY InitialHistory
<1>2. EntitiesInv /\ EntitiesInv' /\ Separate /\ TidyInv /\ LedgerInv /\ UndoInv /\ [Next]_vars
        => LedgerInv' /\ UndoInv'
  BY NextKeepsHistory
<1> QED
  BY <1>1, <1>2, Invariance, RequestsSeparate, RequestsAreTidy, PTL DEF Spec

\* A revert of the last merge, that no other request overlapped or came between and none of whose
\* steps failed (revert_merge.js: restoreVersionBeforeRedirect, then the items, the removed
\* authors, the patches of the merge and of the redirected claims), leaves every entity and every
\* item as the merge had found them.
THEOREM RevertsUndoMerges == Spec => []RevertUndoesMerge
<1>1. Separate /\ EntitiesInv /\ LedgerInv /\ UndoInv => RevertUndoesMerge
  <2> SUFFICES ASSUME Separate, EntitiesInv, LedgerInv, UndoInv, NEW s \in Slots,
                      at(s, "revert", "end"), orderly, beforeMerge.from = requests[s].from
               PROVE  world = beforeMerge.world
    BY DEF RevertUndoesMerge
  <2> DEFINE r == requests[s]
  <2>1. /\ r.kind = "revert" /\ r.stage = "end" /\ r.jobs = {} /\ ~r.failed /\ ~idle(s)
        /\ RequestOK(r)
    BY DEF at, idle, EntitiesInv
  <2>2. Clean
    BY <2>1 DEF Separate, Alone, orderly, Clean
  <2>3. r.from \in Ids /\ beforeMerge.from # NoUri
    BY <2>1, EntitiesAssumption DEF RequestOK, Ids
  <2>4. Recorded /\ Reverting(r)
    BY <2>1, <2>2, <2>3 DEF UndoInv, Undo
  <2>5. RevertedSoFar(r) /\ RecoveredSoFar(r) /\ \A i \in Items : Kept(i)
    BY <2>1, <2>4 DEF Reverting
  <2>6. puts(r) = {} /\ Recovering(r) = {} /\ \A e : ~Undoing(r, e)
    BY <2>1 DEF puts, Recovering, Undoing
  <2>7. \A e \in Ids : content(docs[e]) = was(e)
    BY <2>1, <2>5, <2>6 DEF RevertedSoFar, Same
  <2>8. \A e \in Ids : (docs[e].type = "removed:placeholder") = wasRemoved(e)
    <3>1. \A e \in Ids : docs[e].type = "removed:placeholder" <=> wasRemoved(e)
      BY <2>5, <2>6 DEF RecoveredSoFar, removedNow
    <3>2. \A e \in Ids : wasRemoved(e) \in BOOLEAN
      BY <2>4 DEF Recorded
    <3> QED
      BY <3>1, <3>2
  <2>9. world.docs = [e \in Ids |-> <<was(e), wasRemoved(e)>>]
    BY <2>7, <2>8 DEF world
  <2>10. world.items = [i \in Items |-> <<wasAt(i)[1], wasAt(i)[2]>>]
    BY <2>5 DEF world, Kept
  <2>11. world = [docs |-> world.docs, items |-> world.items]
    BY DEF world
  <2> QED
    BY <2>4, <2>9, <2>10, <2>11 DEF Recorded
<1> QED
  BY <1>1, MergesCanBeUndone, RequestsSeparate, Invariance, PTL
=============================================================================
