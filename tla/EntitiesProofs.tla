---------------------------- MODULE EntitiesProofs ----------------------------
(***************************************************************************)
(* What holds of entities for any number of entities, items, requests in   *)
(* flight, failures and restarts.                                          *)
(***************************************************************************)
EXTENDS Entities, FiniteSetTheorems, WellFoundedInduction, TLAPS

(* Induction and recursion on natural numbers, as facts about sets and functions *)

LEMMA LeastOf ==
    ASSUME NEW T, T \subseteq Nat, T # {}
    PROVE  \E x \in T : \A y \in T : x <= y
<1> DEFINE R == OpToRel(<, Nat)
<1>1. IsWellFoundedOn(R, Nat)
  BY NatLessThanWellFounded
<1>2. \A y, x \in Nat : <<y, x>> \in R <=> y < x
  BY DEF OpToRel
<1> HIDE DEF R
<1>3. PICK x \in T : \A y \in T : <<y, x>> \notin R
  BY <1>1, WFMin
<1>4. \A y \in T : ~(y < x)
  BY <1>2, <1>3
<1> QED
  BY <1>4

LEMMA ByInduction ==
    ASSUME NEW T, 0 \in T, \A n \in Nat : n \in T => n + 1 \in T
    PROVE  Nat \subseteq T
<1> DEFINE bad == Nat \ T
<1> SUFFICES ASSUME bad # {} PROVE FALSE
  OBVIOUS
<1>1. PICK n \in bad : \A m \in bad : n <= m
  BY LeastOf
<1>2. n - 1 \in Nat /\ n - 1 \notin bad
  BY <1>1
<1> QED
  BY <1>2

Iterates(f, S, base, step) ==
    /\ f \in [Nat -> S] /\ f[0] = base
    /\ \A n \in Nat : f[n + 1] = step[n][f[n]]

LEMMA ByRecursion ==
    ASSUME NEW S, NEW base \in S, NEW step \in [Nat -> [S -> S]]
    PROVE  \E f : Iterates(f, S, base, step)
<1> DEFINE upTo(n) == {g \in [0..n -> S] :
               g[0] = base /\ \A m \in 0..n : m < n => g[m + 1] = step[m][g[m]]}
<1>1. \A n \in Nat : upTo(n) # {}
  <2> DEFINE T == {n \in Nat : upTo(n) # {}}
  <2>1. 0 \in T
    <3>1. [m \in 0..0 |-> base] \in upTo(0)
      OBVIOUS
    <3> QED
      BY <3>1
  <2>2. ASSUME NEW n \in Nat, n \in T PROVE n + 1 \in T
    <3>1. PICK g \in upTo(n) : TRUE
      BY <2>2
    <3> DEFINE h == [m \in 0..(n + 1) |-> IF m = n + 1 THEN step[n][g[n]] ELSE g[m]]
    <3>2. g \in [0..n -> S] /\ g[n] \in S
      BY <3>1
    <3>3. h \in [0..(n + 1) -> S] /\ h[0] = base
      BY <3>2
    <3>4. ASSUME NEW m \in 0..(n + 1), m < n + 1 PROVE h[m + 1] = step[m][h[m]]
      <4>1. CASE m = n
        BY <3>2, <4>1
      <4>2. CASE m # n
        <5>1. m \in 0..n /\ m < n /\ m + 1 \in 0..n
          BY <3>4, <4>2
        <5>2. g[m + 1] = step[m][g[m]]
          BY <5>1
        <5> QED
          BY <5>1, <5>2
      <4> QED
        BY <4>1, <4>2
    <3>5. h \in upTo(n + 1)
      BY <3>3, <3>4
    <3>6. n + 1 \in Nat
      OBVIOUS
    <3> HIDE DEF upTo, h
    <3> QED
      BY <3>5, <3>6
  <2> HIDE DEF T
  <2>3. Nat \subseteq T
    BY <2>1, <2>2, ByInduction
  <2> QED
    BY <2>3 DEF T
<1>2. \A n \in Nat : \A g \in upTo(n), h \in upTo(n + 1) : g[n] = h[n]
  <2> SUFFICES ASSUME NEW n \in Nat, NEW g \in upTo(n), NEW h \in upTo(n + 1)
               PROVE  g[n] = h[n]
    OBVIOUS
  <2> DEFINE T == {m \in Nat : m <= n => g[m] = h[m]}
  <2>1. 0 \in T
    OBVIOUS
  <2>2. ASSUME NEW m \in Nat, m \in T PROVE m + 1 \in T
    <3> SUFFICES ASSUME m + 1 <= n PROVE g[m + 1] = h[m + 1]
      OBVIOUS
    <3>1. m \in 0..n /\ m < n /\ m \in 0..(n + 1) /\ m < n + 1 /\ g[m] = h[m]
      BY <2>2
    <3> QED
      BY <3>1
  <2> HIDE DEF T
  <2>3. n \in T
    BY <2>1, <2>2, ByInduction
  <2> QED
    BY <2>3 DEF T
<1> DEFINE pick(n) == CHOOSE g \in upTo(n) : TRUE
           f == [n \in Nat |-> pick(n)[n]]
<1>3. \A n \in Nat : pick(n) \in upTo(n)
  BY <1>1
<1>4. f \in [Nat -> S]
  <2> SUFFICES ASSUME NEW n \in Nat PROVE pick(n)[n] \in S
    OBVIOUS
  <2>1. pick(n) \in [0..n -> S]
    BY <1>3
  <2> HIDE DEF pick
  <2> QED
    BY <2>1
<1>5. f[0] = base
  <2>1. pick(0) \in upTo(0)
    BY <1>3
  <2> QED
    BY <2>1
<1>6. ASSUME NEW n \in Nat PROVE f[n + 1] = step[n][f[n]]
  <2>1. pick(n) \in upTo(n) /\ pick(n + 1) \in upTo(n + 1)
    <3>1. n + 1 \in Nat
      OBVIOUS
    <3> HIDE DEF pick, upTo
    <3> QED
      BY <1>3, <3>1
  <2> HIDE DEF pick
  <2>2. pick(n + 1)[n + 1] = step[n][pick(n + 1)[n]]
    BY <2>1
  <2>3. pick(n + 1)[n] = pick(n)[n]
    <3> HIDE DEF upTo
    <3> QED
      BY <1>2, <2>1
  <2> QED
    BY <2>2, <2>3
<1> HIDE DEF f
<1> QED
  BY <1>4, <1>5, <1>6 DEF Iterates

LEMMA Least ==
    ASSUME NEW T, T \subseteq Nat, T # {}
    PROVE  Min(T) \in T /\ \A y \in T : Min(T) <= y
<1>1. \E x \in T : \A y \in T : x <= y
  BY LeastOf
<1> QED
  BY <1>1 DEF Min

LEMMA Greatest ==
    ASSUME NEW n \in Nat, NEW T, T \subseteq 0..n, T # {}
    PROVE  Max(T) \in T /\ \A y \in T : Max(T) >= y
<1> DEFINE U == {k \in Nat : \A y \in T : k >= y}
<1>1. PICK x \in U : \A y \in U : x <= y
  <2>1. n \in U
    OBVIOUS
  <2> QED
    BY <2>1, LeastOf
<1>2. x \in T
  <2> SUFFICES ASSUME x \notin T PROVE FALSE
    OBVIOUS
  <2>1. \A y \in T : y \in Nat /\ x > y
    OBVIOUS
  <2>2. PICK y \in T : TRUE
    OBVIOUS
  <2>3. x - 1 \in Nat
    BY <2>1, <2>2
  <2>4. \A z \in T : x - 1 >= z
    BY <2>1
  <2>5. x - 1 \in U
    BY <2>3, <2>4
  <2>6. ~(x <= x - 1)
    OBVIOUS
  <2> HIDE DEF U
  <2> QED
    BY <1>1, <2>5, <2>6
<1>3. \E z \in T : \A y \in T : z >= y
  BY <1>2
<1> QED
  BY <1>3 DEF Max

-----------------------------------------------------------------------------
(* Sequences of authors *)

LEMMA indexOfType ==
    ASSUME NEW S, NEW s \in Seq(S), NEW v, v \in ToSet(s)
    PROVE  indexOf(s, v) \in 1..Len(s) /\ s[indexOf(s, v)] = v
<1> DEFINE I == {i \in 1..Len(s) : s[i] = v}
<1>1. I # {} /\ I \subseteq Nat
  BY DEF ToSet
<1>2. Min(I) \in I
  BY <1>1, Least
<1>3. indexOf(s, v) = Min(I)
  BY <1>1 DEF indexOf, SelectInSeq
<1> QED
  BY <1>2, <1>3

\* What it leaves was there, and is not the value
LEMMA AppendType ==
    ASSUME NEW S, NEW k \in Seq(S), NEW w \in S
    PROVE  Append(k, w) \in Seq(S) /\ ToSet(Append(k, w)) = ToSet(k) \cup {w}
<1>1. Append(k, w) \in Seq(S)
  OBVIOUS
<1>2. \A x : x \in ToSet(Append(k, w)) => x \in ToSet(k) \cup {w}
  BY DEF ToSet
<1>3. \A x \in ToSet(k) : x \in ToSet(Append(k, w))
  <2> SUFFICES ASSUME NEW n \in DOMAIN k PROVE k[n] \in ToSet(Append(k, w))
    BY DEF ToSet
  <2>1. n \in DOMAIN Append(k, w) /\ Append(k, w)[n] = k[n]
    OBVIOUS
  <2> QED
    BY <2>1 DEF ToSet
<1>4. w \in ToSet(Append(k, w))
  <2>1. Len(k) + 1 \in DOMAIN Append(k, w) /\ Append(k, w)[Len(k) + 1] = w
    OBVIOUS
  <2> QED
    BY <2>1 DEF ToSet
<1> QED
  BY <1>1, <1>2, <1>3, <1>4

\* What is kept of the first values of a sequence, without some value
Keeps(kept, s, v) ==
    /\ kept[0] = <<>>
    /\ \A n \in Nat : n < Len(s) =>
          kept[n + 1] = IF s[n + 1] = v THEN kept[n] ELSE Append(kept[n], s[n + 1])

LEMMA withoutKeeps ==
    ASSUME NEW S, NEW s \in Seq(S), NEW v
    PROVE  \E kept : Keeps(kept, s, v) /\ without(s, v) = kept[Len(s)]
<1> DEFINE next(n, k) == IF s[n + 1] = v THEN k ELSE Append(k, s[n + 1])
           step == [n \in Nat |-> [k \in Seq(S) |-> IF n < Len(s) THEN next(n, k) ELSE k]]
           body(f) == [n \in 0..Len(s) |->
                          IF n = 0 THEN <<>>
                          ELSE IF s[n] = v THEN f[n - 1] ELSE Append(f[n - 1], s[n])]
<1>1. PICK f : Iterates(f, Seq(S), <<>>, step)
  <2>1. step \in [Nat -> [Seq(S) -> Seq(S)]]
    OBVIOUS
  <2>2. <<>> \in Seq(S)
    OBVIOUS
  <2> HIDE DEF step
  <2> QED
    BY <2>1, <2>2, ByRecursion
<1>2. ASSUME NEW n \in 1..Len(s) PROVE f[n] = next(n - 1, f[n - 1])
  <2>1. n - 1 \in Nat /\ n - 1 + 1 = n /\ n - 1 < Len(s)
    OBVIOUS
  <2>2. f[n] = step[n - 1][f[n - 1]] /\ f[n - 1] \in Seq(S)
    BY <1>1, <2>1 DEF Iterates
  <2> QED
    BY <2>1, <2>2
<1> DEFINE g == [n \in 0..Len(s) |-> f[n]]
<1>3. g = body(g)
  <2>1. ASSUME NEW n \in 0..Len(s)
        PROVE  g[n] = IF n = 0 THEN <<>>
                      ELSE IF s[n] = v THEN g[n - 1] ELSE Append(g[n - 1], s[n])
    <3>1. CASE n = 0
      BY <1>1, <3>1 DEF Iterates
    <3>2. CASE n # 0
      <4>1. n \in 1..Len(s) /\ n - 1 \in 0..Len(s) /\ n - 1 + 1 = n
        BY <3>2
      <4> QED
        BY <1>2, <3>2, <4>1
    <3> QED
      BY <3>1, <3>2
  <2> QED
    BY <2>1
<1> HIDE DEF g
<1> DEFINE kept == CHOOSE k : k = body(k)
<1>4. kept = body(kept)
  BY <1>3
<1>5. without(s, v) = kept[Len(s)]
  BY DEF without
<1> HIDE DEF kept
<1>6. kept[0] = <<>>
  BY <1>4
<1>7. ASSUME NEW n \in Nat, n < Len(s) PROVE kept[n + 1] = next(n, kept[n])
  <2>1. n + 1 \in 0..Len(s) /\ n + 1 # 0 /\ n + 1 - 1 = n
    BY <1>7
  <2>2. body(kept)[n + 1] = next(n, kept[n])
    BY <2>1
  <2> HIDE DEF body, next
  <2> QED
    BY <1>4, <2>2
<1> QED
  BY <1>5, <1>6, <1>7 DEF Keeps

LEMMA withoutType ==
    ASSUME NEW S, NEW s \in Seq(S), NEW v
    PROVE  /\ without(s, v) \in Seq(S)
           /\ ToSet(without(s, v)) = ToSet(s) \ {v}
<1> DEFINE next(n, k) == IF s[n + 1] = v THEN k ELSE Append(k, s[n + 1])
<1>5. PICK kept : Keeps(kept, s, v) /\ without(s, v) = kept[Len(s)]
  BY withoutKeeps
<1>6. kept[0] = <<>>
  BY <1>5 DEF Keeps
<1>7. ASSUME NEW n \in Nat, n < Len(s) PROVE kept[n + 1] = next(n, kept[n])
  BY <1>5, <1>7 DEF Keeps
<1> DEFINE seen(n) == {s[m] : m \in 1..n}
           T == {n \in Nat : n <= Len(s) =>
                    kept[n] \in Seq(S) /\ ToSet(kept[n]) = seen(n) \ {v}}
<1>8. 0 \in T
  <2>1. ToSet(kept[0]) = {} /\ kept[0] \in Seq(S) /\ seen(0) = {}
    BY <1>6 DEF ToSet
  <2> QED
    BY <2>1
<1> HIDE DEF seen
<1>9. ASSUME NEW n \in Nat, n \in T PROVE n + 1 \in T
  <2> SUFFICES ASSUME n + 1 <= Len(s)
               PROVE  kept[n + 1] \in Seq(S) /\ ToSet(kept[n + 1]) = seen(n + 1) \ {v}
    OBVIOUS
  <2>1. kept[n] \in Seq(S) /\ ToSet(kept[n]) = seen(n) \ {v}
    <3>1. n <= Len(s)
      OBVIOUS
    <3>2. n <= Len(s) => kept[n] \in Seq(S) /\ ToSet(kept[n]) = seen(n) \ {v}
      BY <1>9
    <3> QED
      BY <3>1, <3>2
  <2>2. kept[n + 1] = next(n, kept[n])
    BY <1>7
  <2>3. seen(n + 1) = seen(n) \cup {s[n + 1]}
    <3>1. \A m \in 1..(n + 1) : m \in 1..n \/ m = n + 1
      OBVIOUS
    <3> QED
      BY <3>1 DEF seen
  <2>4. s[n + 1] \in S
    OBVIOUS
  <2>5. /\ Append(kept[n], s[n + 1]) \in Seq(S)
        /\ ToSet(Append(kept[n], s[n + 1])) = ToSet(kept[n]) \cup {s[n + 1]}
    <3> DEFINE k == kept[n]
               w == s[n + 1]
    <3>1. k \in Seq(S) /\ w \in S
      BY <2>1, <2>4
    <3> HIDE DEF k, w
    <3>2. Append(k, w) \in Seq(S) /\ ToSet(Append(k, w)) = ToSet(k) \cup {w}
      BY <3>1, AppendType
    <3> QED
      BY <3>2 DEF k, w
  <2>6. CASE s[n + 1] = v
    BY <2>1, <2>2, <2>3, <2>6
  <2>7. CASE s[n + 1] # v
    BY <2>1, <2>2, <2>3, <2>5, <2>7
  <2> QED
    BY <2>6, <2>7
<1>10. Len(s) \in T
  <2> HIDE DEF T
  <2>1. Len(s) \in Nat
    OBVIOUS
  <2> QED
    BY <1>8, <1>9, <2>1, ByInduction
<1>11. ToSet(s) = seen(Len(s))
  BY DEF ToSet, seen
<1> QED
  BY <1>5, <1>10, <1>11

-----------------------------------------------------------------------------
(* Patches of authors *)

\* At most one result
Single(T) == \A x, y \in T : x = y

LEMMA addType ==
    ASSUME NEW S, NEW s \in Seq(S), NEW i, NEW v \in S
    PROVE  add(s, i, v) \subseteq Seq(S) /\ Single(add(s, i, v))
<1>1. CASE i \in 1..(Len(s) + 1)
  <2>1. InsertAt(s, i, v) \in Seq(S)
    BY <1>1 DEF InsertAt
  <2> QED
    BY <1>1, <2>1 DEF add, Single
<1>2. CASE i \notin 1..(Len(s) + 1)
  BY <1>2 DEF add, Single
<1> QED
  BY <1>1, <1>2

LEMMA testRemoveType ==
    ASSUME NEW S, NEW s \in Seq(S), NEW i, NEW v
    PROVE  testRemove(s, i, v) \subseteq Seq(S) /\ Single(testRemove(s, i, v))
<1>1. CASE i \in 1..Len(s) /\ s[i] = v
  <2>1. RemoveAt(s, i) \in Seq(S)
    BY <1>1 DEF RemoveAt
  <2> QED
    BY <1>1, <2>1 DEF testRemove, Single
<1>2. CASE ~(i \in 1..Len(s) /\ s[i] = v)
  BY <1>2 DEF testRemove, Single
<1> QED
  BY <1>1, <1>2

LEMMA diffAtType ==
    ASSUME NEW S, NEW a \in Seq(S), NEW b \in Seq(S), a # b
    PROVE  /\ diffAt(b, a) \in 1..(Len(b) + 1)
           /\ Len(a) >= Len(b) => diffAt(b, a) <= Len(a)
           /\ Len(a) <= Len(b) => diffAt(b, a) <= Len(b)
<1> DEFINE I == {i \in 1..(Len(b) + 1) : i > Len(b) \/ i > Len(a) \/ b[i] # a[i]}
           i == diffAt(b, a)
<1>1. I \subseteq Nat /\ Len(b) + 1 \in I
  OBVIOUS
<1>2. i \in I /\ \A k \in I : i <= k
  BY <1>1, Least DEF diffAt
<1>3. i \in 1..(Len(b) + 1) /\ (i > Len(b) \/ i > Len(a) \/ b[i] # a[i])
  BY <1>2
<1>4. \A k \in 1..(Len(b) + 1) : k < i => k <= Len(b) /\ k <= Len(a) /\ b[k] = a[k]
  BY <1>2
<1> HIDE DEF i, I
<1>5. ASSUME i = Len(b) + 1, Len(a) = Len(b) PROVE FALSE
  <2>1. \A k \in 1..Len(b) : b[k] = a[k]
    BY <1>4, <1>5
  <2> QED
    BY <1>5, <2>1
<1>6. ASSUME Len(a) >= Len(b), i > Len(a) PROVE FALSE
  BY <1>3, <1>5, <1>6
<1>7. ASSUME Len(a) <= Len(b), i > Len(b) PROVE FALSE
  <2>1. i = Len(b) + 1
    BY <1>3, <1>7
  <2>2. CASE Len(b) > Len(a)
    BY <1>4, <2>1, <2>2
  <2>3. CASE Len(b) = Len(a)
    BY <1>5, <2>1, <2>3
  <2> QED
    BY <1>7, <2>2, <2>3
<1> QED
  BY <1>3, <1>6, <1>7 DEF i

LEMMA patchAuthorsType ==
    ASSUME NEW S, NEW b \in Seq(S), NEW a \in Seq(S), NEW s \in Seq(S)
    PROVE  patchAuthors(b, a, s) \subseteq Seq(S) /\ Single(patchAuthors(b, a, s))
<1> DEFINE i == diffAt(b, a)
           added == IF Len(a) >= Len(b) THEN add(s, i, a[i]) ELSE {s}
           removed == UNION {testRemove(l, i + 1 + Len(a) - Len(b), b[i]) : l \in added}
<1>1. CASE a = b \/ b \in {s, <<>>} \/ <<>> \in {a, s}
  BY <1>1 DEF patchAuthors, Single
<1>2. CASE ~(a = b \/ b \in {s, <<>>} \/ <<>> \in {a, s})
  <2>1. patchAuthors(b, a, s) = IF Len(a) > Len(b) THEN added ELSE removed
    BY <1>2 DEF patchAuthors
  <2>2. i \in 1..(Len(b) + 1) /\ (Len(a) >= Len(b) => a[i] \in S)
    BY <1>2, diffAtType
  <2>3. added \subseteq Seq(S) /\ Single(added)
    <3> HIDE DEF i
    <3>1. CASE Len(a) >= Len(b)
      BY <2>2, <3>1, addType
    <3>2. CASE ~(Len(a) >= Len(b))
      BY <3>2 DEF Single
    <3> QED
      BY <3>1, <3>2
  <2>4. removed \subseteq Seq(S) /\ Single(removed)
    <3> HIDE DEF i, added
    <3> QED
      BY <2>3, testRemoveType DEF Single
  <2> HIDE DEF added, removed
  <2> QED
    BY <2>1, <2>3, <2>4
<1> QED
  BY <1>1, <1>2

LEMMA revertAuthorsType ==
    ASSUME NEW S, NEW b \in Seq(S), NEW a \in Seq(S), NEW s \in Seq(S)
    PROVE  revertAuthors(b, a, s) \subseteq Seq(S)
<1> DEFINE i == diffAt(b, a)
           at1 == indexOf(s, a[i])
           added == IF Len(a) > Len(b) THEN {s} ELSE add(s, i + 1 + Len(a) - Len(b), b[i])
           removed == UNION {testRemove(l, at1, a[i]) : l \in added}
<1>1. CASE a = b \/ a = <<>> \/ s = <<>>
  <2>1. s \o b \in Seq(S)
    OBVIOUS
  <2> QED
    BY <1>1, <2>1 DEF revertAuthors
<1>2. CASE ~(a = b \/ a = <<>> \/ s = <<>>)
  <2>1. revertAuthors(b, a, s) = IF Len(a) < Len(b) THEN added ELSE removed
    BY <1>2 DEF revertAuthors
  <2>2. i \in 1..(Len(b) + 1) /\ (Len(a) <= Len(b) => b[i] \in S)
    BY <1>2, diffAtType
  <2>3. added \subseteq Seq(S)
    <3> HIDE DEF i
    <3>1. CASE Len(a) > Len(b)
      BY <3>1
    <3>2. CASE ~(Len(a) > Len(b))
      BY <2>2, <3>2, addType
    <3> QED
      BY <3>1, <3>2
  <2>4. removed \subseteq Seq(S)
    <3> HIDE DEF i, at1, added
    <3> QED
      BY <2>3, testRemoveType
  <2> HIDE DEF added, removed
  <2> QED
    BY <2>1, <2>3, <2>4
<1> QED
  BY <1>1, <1>2

-----------------------------------------------------------------------------
(* The invariant: a write in flight holds a document it has read, which is the *)
(* current one unless another write came first, and one it has written whose   *)
(* patch is not posted yet                                                     *)

Docs == [type : {"entity", "removed:placeholder", "none"}, labels : SUBSET Labels,
         authors : Seq(Authors), redirect : Uris \cup {NoUri},
         version : Nat, removedPlaceholdersIds : SUBSET Humans]
Patches == [version : Nat, before : Contents, after : Contents, context : Contexts]
ItemDocs == [entity : Works \cup WdWorks, previousEntity : Seq(Works), version : Nat]
Steps == {"put", "patch", "check", "remove", "recover", "revert", "claims", "redirectClaims",
          "items", "bulk"}
Jobs == [step : Steps, id : Ids \cup {NoUri}, doc : Docs, new : Docs, context : Contexts,
         patch : Nat]
Stages == {"none", "read", "mergeDocs", "isolate", "turn", "propagate", "restore", "items",
           "placeholders", "mergePatch", "redirections", "end"}
Requests == [kind : {"none", "edit", "merge", "revert"}, stage : Stages,
             from : Ids \cup {NoUri}, to : Uris \cup {NoUri},
             change : Contents, doc : Docs, found : UNION {[W -> Nat] : W \in SUBSET Works},
             copies : UNION {[I -> ItemDocs] : I \in SUBSET Items},
             removed : SUBSET Humans, jobs : SUBSET Jobs, failed : BOOLEAN]

\* A document, or the content of one, that the entity may have
Fits(e, d) ==
    /\ isRedirection(d) => d.labels = {} /\ d.authors = <<>> /\ sameType(e, d.redirect)
    /\ e \in Humans => d.authors = <<>>

\* The document was read: it is the current one, or an older one
Read(e, d) ==
    /\ d.version \in 2..docs[e].version
    /\ d.version = docs[e].version => d = docs[e]

\* A redirection is written over by nothing but the revert of its merge
KeepsRedirection(r, j) ==
    \/ ~isRedirection(j.doc) \/ content(j.new) = content(j.doc)
    \/ r.kind = "revert" /\ r.from = j.id

\* What makes a redirection is the merge of the entity
Redirects(r, j) ==
    \/ j.new.redirect = j.doc.redirect \/ ~isRedirection(j.new)
    \/ r.kind = "merge" /\ r.from = j.id /\ j.new.redirect = r.to

Writes(r, j) ==
    /\ j.id \in Ids /\ Fits(j.id, j.doc) /\ Fits(j.id, j.new)
    /\ j.doc.version \in 2..docs[j.id].version /\ j.new.version = j.doc.version + 1

JobOK(r, j) ==
    /\ j.step \in {"put", "patch"} => Writes(r, j)
    /\ j.step = "put" => Read(j.id, j.doc) /\ KeepsRedirection(r, j) /\ Redirects(r, j)
    /\ j.step = "patch" => j.new.version \in 2..docs[j.id].version
    /\ j.step \in {"check", "remove", "recover"} => j.id \in Humans
    /\ j.step = "revert" => j.id \in Ids
    /\ j.step \in {"claims", "redirectClaims", "items"} => r.kind = "merge" /\ r.stage = "end"
    /\ j.step = "bulk" => r.kind \in {"merge", "revert"}

RequestOK(r) ==
    /\ r.kind # "none" => r.from \in Ids
    /\ r.kind = "none" => r.jobs = {}
    /\ r.kind = "merge" => r.to \in Uris \ {r.from} /\ sameType(r.from, r.to)
    /\ r.kind = "edit" => r.from \in Works \/ r.change.authors = <<>>
    /\ r.stage = "mergeDocs" => r.to \in Ids
    /\ r.stage = "restore" =>
         r.kind = "revert" /\ Fits(r.from, r.change) /\ ~isRedirection(r.change)
    /\ r.stage = "turn" => /\ r.kind = "merge" /\ Fits(r.from, r.doc) /\ Read(r.from, r.doc)
                           /\ ~isRedirection(r.doc)
                           /\ \A j \in r.jobs : j.id \in Humans
    /\ r.kind = "merge" => \A i \in DOMAIN r.copies : r.copies[i].entity = r.from
    /\ r.kind = "revert" => \A i \in DOMAIN r.copies : r.copies[i].previousEntity # <<>>
    /\ \A j \in r.jobs : JobOK(r, j)

\* Patches of what is written, posted or about to be
writing(e) == {j \in UNION {requests[s].jobs : s \in Slots} : j.step = "patch" /\ j.id = e}
written(e) == patches[e] \cup {getDiff(j.doc, j.new, j.context) : j \in writing(e)}

\* The first patch is that of the creation
Creation(p) ==
    /\ p.version = 2 /\ p.before = versionned(NoDoc)
    /\ ~isRedirection(p.after) /\ p.after.type = "entity"

\* The patches of what was written follow one another, up to the document
Follow(e) ==
    /\ \E p \in patches[e] : Creation(p)
    /\ \A p \in written(e) : /\ p.version \in 2..docs[e].version
                             /\ p.version = docs[e].version => p.after = versionned(docs[e])
    /\ \A p, q \in written(e) : /\ q.version = p.version + 1 => q.before = p.after
                                /\ q.version = p.version => q = p

EntityOK(e) ==
    /\ docs[e] \in Docs /\ docs[e].version >= 2 /\ Fits(e, docs[e])
    /\ patches[e] \subseteq Patches
    /\ \A p \in patches[e] : Fits(e, p.before) /\ Fits(e, p.after)
    /\ Follow(e)

EntitiesInv ==
    /\ docs = [e \in Ids |-> docs[e]] /\ patches = [e \in Ids |-> patches[e]]
    /\ items \in [Items -> ItemDocs]
    /\ requests \in [Slots -> Requests]
    /\ \A e \in Ids : EntityOK(e)
    /\ \A s \in Slots : RequestOK(requests[s])

-----------------------------------------------------------------------------
(* What patches make of a document *)

ContentsOf(e) == {c \in Contents : Fits(e, c)}

\* The content of entities is the one of records of these fields
LEMMA ContentsAre ==
    ASSUME NEW t \in {"entity", "removed:placeholder", "none"}, NEW l \in SUBSET Labels,
           NEW a \in Seq(Authors), NEW r \in Uris \cup {NoUri}
    PROVE  [type |-> t, labels |-> l, authors |-> a, redirect |-> r] \in Contents
  BY DEF Contents

LEMMA patchDocType ==
    ASSUME NEW e \in Ids, NEW p, p.before \in ContentsOf(e), p.after \in ContentsOf(e),
           NEW s \in ContentsOf(e)
    PROVE  patchDoc(p, s) \subseteq ContentsOf(e) /\ Single(patchDoc(p, s))
<1> DEFINE b == p.before
           a == p.after
           types == patchValue(b.type, a.type, s.type, "none")
           labels == patchLabels(b.labels, a.labels, s.labels)
           authors == patchAuthors(b.authors, a.authors, s.authors)
<1>1. /\ types \subseteq {"entity", "removed:placeholder", "none"} /\ Single(types)
      /\ labels \subseteq SUBSET Labels /\ Single(labels)
  BY DEF patchValue, patchLabels, Single, ContentsOf, Contents
<1>2. authors \subseteq Seq(Authors) /\ Single(authors)
  BY patchAuthorsType DEF ContentsOf, Contents
<1>3. e \in Humans => authors = {<<>>}
  BY DEF ContentsOf, Fits, patchAuthors
<1>4. CASE isRedirection(a) # isRedirection(b)
  <2> DEFINE tagged == {[a EXCEPT !.type = t] : t \in {x \in types : content(s) = content(b)}}
  <2>1. patchDoc(p, s) = tagged
    BY <1>4 DEF patchDoc
  <2>2. ASSUME NEW t \in types PROVE [a EXCEPT !.type = t] \in ContentsOf(e)
    BY <1>1 DEF ContentsOf, Contents, Fits, isRedirection
  <2>3. tagged \subseteq ContentsOf(e)
    BY <2>2
  <2>4. Single(tagged)
    BY <1>1 DEF Single
  <2> QED
    BY <2>1, <2>3, <2>4
<1>5. CASE isRedirection(a) = isRedirection(b) /\ isRedirection(s) /\ content(a) # content(b)
  BY <1>5 DEF patchDoc, Single
<1>6. CASE isRedirection(a) = isRedirection(b) /\ ~(isRedirection(s) /\ content(a) # content(b))
  <2> DEFINE patched == [type : types, labels : labels, authors : authors,
                         redirect : {s.redirect}]
  <2>1. patchDoc(p, s) = patched
    BY <1>6 DEF patchDoc
  <2>2. ASSUME isRedirection(s)
        PROVE  labels = {s.labels} /\ authors = {s.authors}
    BY <1>6, <2>2 DEF content, patchLabels, patchAuthors
  <2>3. patched \subseteq ContentsOf(e)
    <3> SUFFICES ASSUME NEW c \in patched PROVE c \in Contents /\ Fits(e, c)
      BY DEF ContentsOf
    <3>1. c.type \in types /\ c.labels \in labels /\ c.authors \in authors
          /\ c.redirect = s.redirect
      OBVIOUS
    <3>2. c \in Contents
      <4>1. c = [type |-> c.type, labels |-> c.labels, authors |-> c.authors,
                 redirect |-> c.redirect]
        OBVIOUS
      <4>2. s.redirect \in Uris \cup {NoUri}
        BY DEF ContentsOf, Contents
      <4> HIDE DEF types, labels, authors, patched
      <4> QED
        BY <1>1, <1>2, <3>1, <4>1, <4>2 DEF Contents
    <3>3. Fits(e, c)
      <4> HIDE DEF types, labels, authors, patched
      <4> QED
        BY <1>3, <2>2, <3>1 DEF ContentsOf, Fits, isRedirection
    <3> QED
      BY <3>2, <3>3
  <2>4. Single(patched)
    <3> HIDE DEF types, labels, authors
    <3> SUFFICES ASSUME NEW c \in patched, NEW d \in patched PROVE c = d
      BY DEF Single
    <3>1. /\ c = [type |-> c.type, labels |-> c.labels, authors |-> c.authors,
                  redirect |-> c.redirect]
          /\ d = [type |-> d.type, labels |-> d.labels, authors |-> d.authors,
                  redirect |-> d.redirect]
      OBVIOUS
    <3>2. /\ c.type \in types /\ d.type \in types
          /\ c.labels \in labels /\ d.labels \in labels
          /\ c.authors \in authors /\ d.authors \in authors
          /\ c.redirect = d.redirect
      OBVIOUS
    <3>3. c.type = d.type /\ c.labels = d.labels /\ c.authors = d.authors
      BY <1>1, <1>2, <3>2 DEF Single
    <3> HIDE DEF patched
    <3> QED
      BY <3>1, <3>2, <3>3
  <2> QED
    BY <2>1, <2>3, <2>4
<1> QED
  BY <1>4, <1>5, <1>6

\* What the patches of a version make of what there was before
posted(e, v) == {p \in patches[e] : p.version = v}
replay(e, v, D) == IF posted(e, v) = {} THEN D
                   ELSE UNION {patchDoc(p, s) : p \in posted(e, v), s \in D}

\* What the history tells of an entity at each version is one content it may have had, or
\* nothing where a patch could not be applied; the version of its creation is no redirection
LEMMA SnapshotsType ==
    ASSUME NEW e \in Ids, EntityOK(e)
    PROVE  /\ \A v \in 1..docs[e].version :
                addSnapshots(e)[v] \subseteq ContentsOf(e) /\ Single(addSnapshots(e)[v])
           /\ \E d \in addSnapshots(e)[2] : ~isRedirection(d)
           /\ addSnapshots(e)[1] = {blank}
           /\ \A v \in 2..docs[e].version :
                addSnapshots(e)[v] = replay(e, v, addSnapshots(e)[v - 1])
<1> DEFINE last == docs[e].version
           next(v, D) == replay(e, v, D)
           body(f) == [v \in 1..last |-> IF v = 1 THEN {blank} ELSE next(v, f[v - 1])]
           Snapshots == {D \in SUBSET ContentsOf(e) : Single(D)}
           step == [n \in Nat |-> [D \in Snapshots |-> next(n + 2, D)]]
<1>1. last \in Nat /\ last >= 2
  BY DEF EntityOK, Docs
<1>2. {blank} \in Snapshots
  <2>1. blank = [type |-> "none", labels |-> {}, authors |-> <<>>, redirect |-> NoUri]
    BY DEF blank, create
  <2>2. blank \in Contents
    <3>1. <<>> \in Seq(Authors)
      OBVIOUS
    <3> QED
      BY <2>1, <3>1, ContentsAre
  <2>3. blank \in ContentsOf(e)
    BY <2>1, <2>2 DEF ContentsOf, Fits, isRedirection
  <2> QED
    BY <2>3 DEF Single
<1>3. ASSUME NEW v \in Nat, NEW D \in Snapshots PROVE next(v, D) \in Snapshots
  <2>1. \A p \in posted(e, v) : p.before \in ContentsOf(e) /\ p.after \in ContentsOf(e)
    BY DEF posted, EntityOK, Patches, ContentsOf
  <2>2. \A p, q \in posted(e, v) : p = q
    BY DEF posted, EntityOK, Follow, written
  <2>3. \A p \in posted(e, v), s \in D :
            patchDoc(p, s) \subseteq ContentsOf(e) /\ Single(patchDoc(p, s))
    BY <2>1, patchDocType
  <2>4. D \subseteq ContentsOf(e) /\ \A x, y \in D : x = y
    BY DEF Single
    <2>5. UNION {patchDoc(p, s) : p \in posted(e, v), s \in D} \subseteq ContentsOf(e)
    BY <2>3
  <2>6. Single(UNION {patchDoc(p, s) : p \in posted(e, v), s \in D})
    BY <2>2, <2>3, <2>4 DEF Single
  <2> QED
    BY <2>5, <2>6 DEF replay
<1>4. PICK f : Iterates(f, Snapshots, {blank}, step)
  <2>1. step \in [Nat -> [Snapshots -> Snapshots]]
    <3>1. \A n \in Nat : n + 2 \in Nat
      OBVIOUS
    <3> HIDE DEF next, Snapshots
    <3> QED
      BY <1>3, <3>1
  <2> HIDE DEF step, Snapshots
  <2> QED
    BY <1>2, <2>1, ByRecursion
<1> DEFINE g == [v \in 1..last |-> f[v - 1]]
<1>5. \A n \in Nat : f[n] \in Snapshots /\ f[n + 1] = next(n + 2, f[n])
  <2> HIDE DEF Snapshots, next
  <2> QED
    BY <1>4 DEF Iterates
<1>6. f[0] = {blank}
  BY <1>4 DEF Iterates
<1> HIDE DEF next, Snapshots, step
<1>7. g = body(g)
  <2>1. ASSUME NEW v \in 1..last PROVE g[v] = IF v = 1 THEN {blank} ELSE next(v, g[v - 1])
    <3>1. CASE v = 1
      BY <1>1, <1>6, <3>1
    <3>2. CASE v # 1
      <4>1. v - 2 \in Nat /\ v - 2 + 1 = v - 1 /\ v - 2 + 2 = v /\ v - 1 \in 1..last
            /\ v - 1 - 1 = v - 2
        BY <1>1, <3>2
      <4>2. f[v - 1] = next(v, f[v - 2])
        BY <1>5, <4>1
      <4> QED
        BY <3>2, <4>1, <4>2
    <3> QED
      BY <3>1, <3>2
  <2> HIDE DEF g
  <2>2. g = [v \in 1..last |-> g[v]]
    BY DEF g
  <2> QED
    BY <2>1, <2>2
<1> HIDE DEF g
<1> DEFINE snapshot == CHOOSE h : h = body(h)
<1>8. snapshot = body(snapshot)
  BY <1>7
<1>9. addSnapshots(e) = snapshot
  BY DEF addSnapshots, next, replay, posted
<1> HIDE DEF snapshot
<1>10. snapshot[1] = {blank}
  BY <1>1, <1>8
<1>11. ASSUME NEW v \in 2..last PROVE snapshot[v] = next(v, snapshot[v - 1])
  <2>1. v \in 1..last /\ v # 1
    BY <1>1
  <2>2. body(snapshot)[v] = next(v, snapshot[v - 1])
    BY <2>1
  <2> HIDE DEF body
  <2> QED
    BY <1>8, <2>2
<1> DEFINE T == {n \in Nat : n + 1 <= last => snapshot[n + 1] \in Snapshots}
<1>12. 0 \in T
  BY <1>2, <1>10
<1>13. ASSUME NEW n \in Nat, n \in T PROVE n + 1 \in T
  <2> SUFFICES ASSUME n + 2 <= last PROVE snapshot[n + 2] \in Snapshots
    OBVIOUS
  <2>1. n + 2 \in 2..last /\ n + 2 - 1 = n + 1 /\ n + 1 <= last /\ n + 2 \in Nat
    BY <1>1
  <2>2. snapshot[n + 1] \in Snapshots
    BY <1>13, <2>1
  <2>3. snapshot[n + 2] = next(n + 2, snapshot[n + 1])
    BY <1>11, <2>1
  <2> QED
    BY <1>3, <2>1, <2>2, <2>3
<1>14. \A v \in 1..last : snapshot[v] \in Snapshots
  <2> HIDE DEF T
  <2>1. Nat \subseteq T
    BY <1>12, <1>13, ByInduction
  <2> SUFFICES ASSUME NEW v \in 1..last PROVE snapshot[v] \in Snapshots
    OBVIOUS
  <2>2. v - 1 \in T /\ v - 1 + 1 = v /\ v <= last
    BY <1>1, <2>1
  <2> QED
    BY <2>2 DEF T
<1>15. \E d \in snapshot[2] : ~isRedirection(d)
  <2>1. PICK p \in patches[e] : Creation(p)
    BY DEF EntityOK, Follow
  <2>2. p \in posted(e, 2)
    BY <2>1 DEF Creation, posted
  <2>3. snapshot[2] = UNION {patchDoc(q, s) : q \in posted(e, 2), s \in {blank}}
    <3>1. 2 \in 2..last /\ 2 - 1 = 1
      BY <1>1
    <3>2. snapshot[2] = next(2, {blank})
      BY <1>10, <1>11, <3>1
    <3> QED
      BY <2>2, <3>2 DEF next, replay
  <2>4. \E d \in patchDoc(p, blank) : ~isRedirection(d)
    <3> DEFINE d == [type |-> "none", labels |-> p.after.labels, authors |-> p.after.authors,
                     redirect |-> NoUri]
    <3>1. ~isRedirection(p.before) /\ ~isRedirection(p.after) /\ ~isRedirection(blank)
      BY <2>1 DEF Creation, isRedirection, versionned, NoDoc, documentOf, create, blank
    <3>2. p.before.labels = {} /\ p.before.authors = <<>> /\ p.before.type = "entity"
          /\ p.after.type = "entity"
      BY <2>1 DEF Creation, versionned, NoDoc, documentOf, create
    <3>3. blank.labels = {} /\ blank.authors = <<>> /\ blank.type = "none"
          /\ blank.redirect = NoUri
      BY DEF blank, create
    <3>4. patchValue("entity", "entity", "none", "none") = {"none"}
      BY DEF patchValue
    <3>5. p.after.labels \in patchLabels({}, p.after.labels, {})
      BY DEF patchLabels
    <3>6. p.after.authors \in patchAuthors(<<>>, p.after.authors, <<>>)
      BY DEF patchAuthors
    <3>7. patchDoc(p, blank) =
             [type : patchValue(p.before.type, p.after.type, blank.type, "none"),
              labels : patchLabels(p.before.labels, p.after.labels, blank.labels),
              authors : patchAuthors(p.before.authors, p.after.authors, blank.authors),
              redirect : {blank.redirect}]
      <4>1. ~(isRedirection(p.after) # isRedirection(p.before))
        <5>1. p.after.redirect = NoUri /\ p.before.redirect = NoUri
          BY <3>1 DEF isRedirection
        <5> QED
          BY <5>1 DEF isRedirection
      <4>2. ~(isRedirection(blank) /\ content(p.after) # content(p.before))
        BY <3>1
      <4> QED
        BY <4>1, <4>2, Zenon DEF patchDoc
    <3>8. d \in patchDoc(p, blank)
      BY <3>2, <3>3, <3>4, <3>5, <3>6, <3>7
    <3> QED
      BY <3>8 DEF isRedirection
  <2> QED
    BY <2>2, <2>3, <2>4
<1> HIDE DEF body, T
<1> QED
  BY <1>9, <1>10, <1>11, <1>14, <1>15 DEF Snapshots, next

-----------------------------------------------------------------------------
(* Steps that change what one request is doing, and no document or patch *)

LEMMA RequestAndItemsStep ==
    ASSUME EntitiesInv, NEW s \in Slots, NEW r \in Requests, RequestOK(r), goes(s, r),
           UNCHANGED <<docs, patches>>, items' \in [Items -> ItemDocs],
           \A j \in r.jobs : j.step = "patch" => j \in requests[s].jobs
    PROVE  EntitiesInv'
<1>1. /\ requests' \in [Slots -> Requests]
      /\ \A t \in Slots : requests'[t] = IF t = s THEN r ELSE requests[t]
  BY DEF EntitiesInv, goes
<1>2. ASSUME NEW e \in Ids PROVE written(e)' \subseteq written(e)
  <2>1. writing(e)' \subseteq writing(e)
    BY <1>1 DEF writing
  <2> QED
    BY <2>1 DEF written
<1>3. ASSUME NEW e \in Ids PROVE EntityOK(e)'
  <2>1. EntityOK(e)
    BY DEF EntitiesInv
  <2>2. Follow(e)'
    BY <1>2, <2>1 DEF EntityOK, Follow
  <2> QED
    BY <2>1, <2>2 DEF EntityOK
<1>4. ASSUME NEW t \in Slots PROVE RequestOK(requests[t])'
  <2>1. RequestOK(requests'[t])
    BY <1>1 DEF EntitiesInv
  <2> QED
    BY <2>1 DEF RequestOK, JobOK, Writes, Read, KeepsRedirection, Redirects
<1> QED
  BY <1>1, <1>3, <1>4 DEF EntitiesInv

LEMMA RequestStep ==
    ASSUME EntitiesInv, NEW s \in Slots, NEW r \in Requests, RequestOK(r), goes(s, r),
           UNCHANGED <<docs, patches, items>>,
           \A j \in r.jobs : j.step = "patch" => j \in requests[s].jobs
    PROVE  EntitiesInv'
<1>1. items' \in [Items -> ItemDocs]
  BY DEF EntitiesInv
<1> QED
  BY <1>1, RequestAndItemsStep

\* What a request holds of documents stays true when another one is written
LEMMA OlderStillRead ==
    ASSUME NEW e \in Ids, NEW d, Read(e, d), docs[e].version \in Nat, d.version \in Nat,
           \A x \in Ids : docs'[x] # docs[x] => docs'[x].version = docs[x].version + 1
    PROVE  Read(e, d)'
  BY DEF Read

LEMMA OlderRequestOK ==
    ASSUME EntitiesInv,
           \A x \in Ids : docs'[x] # docs[x] => docs'[x].version = docs[x].version + 1
    PROVE  \A r \in Requests : RequestOK(r) => RequestOK(r)'
<1> SUFFICES ASSUME NEW r \in Requests, RequestOK(r) PROVE RequestOK(r)'
  OBVIOUS
<1>1. \A e \in Ids : docs[e].version \in Nat /\ docs'[e].version \in Nat
                     /\ docs[e].version <= docs'[e].version
  <2> SUFFICES ASSUME NEW e \in Ids
               PROVE  /\ docs[e].version \in Nat /\ docs'[e].version \in Nat
                      /\ docs[e].version <= docs'[e].version
    OBVIOUS
  <2>1. docs[e].version \in Nat
    BY DEF EntitiesInv, EntityOK, Docs
  <2>2. docs'[e] = docs[e] \/ docs'[e].version = docs[e].version + 1
    OBVIOUS
  <2> QED
    BY <2>1, <2>2
<1>2. ASSUME r.stage = "turn" PROVE Read(r.from, r.doc)'
  BY <1>1, <1>2, OlderStillRead DEF RequestOK, Requests, Docs
<1>3. ASSUME NEW j \in r.jobs PROVE JobOK(r, j)'
  <2>1. JobOK(r, j) /\ j \in Jobs
    BY DEF RequestOK, Requests
  <2>2. ASSUME j.step \in {"put", "patch"} PROVE Writes(r, j)'
    BY <1>1, <2>1, <2>2 DEF JobOK, Writes
  <2>3. ASSUME j.step = "put" PROVE Read(j.id, j.doc)'
    BY <1>1, <2>1, <2>3, OlderStillRead DEF JobOK, Writes, Jobs, Docs
  <2>4. /\ KeepsRedirection(r, j) => KeepsRedirection(r, j)'
        /\ Redirects(r, j) => Redirects(r, j)'
    BY DEF KeepsRedirection, Redirects
  <2>5. ASSUME j.step = "patch" PROVE j.new.version \in 2..docs'[j.id].version
    BY <1>1, <2>1, <2>5 DEF JobOK, Writes, Jobs, Docs
  <2> QED
    BY <2>1, <2>2, <2>3, <2>4, <2>5 DEF JobOK
<1> QED
  BY <1>2, <1>3 DEF RequestOK

-----------------------------------------------------------------------------
(* What requests and jobs are made of *)

LEMMA NoDocType == NoDoc \in Docs /\ create \in Contents /\ NoRequest \in Requests
<1>1. /\ create.type = "entity" /\ create.labels = {} /\ create.authors = <<>>
      /\ create.redirect = NoUri /\ <<>> \in Seq(Authors)
  BY DEF create
<1>2. create \in Contents
  BY <1>1 DEF create, Contents
<1>3. NoDoc \in Docs
  BY <1>1 DEF NoDoc, documentOf, Docs
<1>4. <<>> \in [{} -> Nat] /\ <<>> \in [{} -> ItemDocs]
  OBVIOUS
<1>5. /\ <<>> \in UNION {[W -> Nat] : W \in SUBSET Works}
      /\ <<>> \in UNION {[I -> ItemDocs] : I \in SUBSET Items}
  BY <1>4
<1>6. /\ NoRequest.found \in UNION {[W -> Nat] : W \in SUBSET Works}
      /\ NoRequest.copies \in UNION {[I -> ItemDocs] : I \in SUBSET Items}
  BY <1>5 DEF NoRequest
<1>7. /\ NoRequest.kind = "none" /\ NoRequest.stage \in Stages /\ NoRequest.from = NoUri
      /\ NoRequest.to = NoUri /\ NoRequest.change \in Contents /\ NoRequest.doc \in Docs
      /\ NoRequest.removed = {} /\ NoRequest.jobs = {} /\ NoRequest.failed \in BOOLEAN
  <2>1. NoRequest.kind = "none" /\ NoRequest.stage = "none" /\ NoRequest.from = NoUri
        /\ NoRequest.to = NoUri /\ NoRequest.removed = {} /\ NoRequest.jobs = {}
    BY DEF NoRequest
  <2>2. NoRequest.change = create /\ NoRequest.doc = NoDoc
    BY DEF NoRequest
  <2>3. NoRequest.failed \in BOOLEAN
    BY DEF NoRequest
  <2>4. NoRequest.stage \in Stages
    BY <2>1 DEF Stages
  <2>5. NoRequest.change \in Contents /\ NoRequest.doc \in Docs
    BY <1>2, <1>3, <2>2
  <2> QED
    BY <2>1, <2>3, <2>4, <2>5
<1>8. NoRequest = [kind |-> NoRequest.kind, stage |-> NoRequest.stage, from |-> NoRequest.from,
                   to |-> NoRequest.to, change |-> NoRequest.change, doc |-> NoRequest.doc,
                   found |-> NoRequest.found, copies |-> NoRequest.copies,
                   removed |-> NoRequest.removed, jobs |-> NoRequest.jobs,
                   failed |-> NoRequest.failed]
  BY DEF NoRequest
<1>9. NoRequest \in Requests
  BY <1>6, <1>7, <1>8 DEF Requests
<1> QED
  BY <1>2, <1>3, <1>9

LEMMA JobType ==
    ASSUME NEW step \in Steps, NEW id \in Ids \cup {NoUri}
    PROVE  Job(step, id) \in Jobs /\ Job(step, id).step = step /\ Job(step, id).id = id
  BY NoDocType DEF Job, NoJob, Jobs, Contexts, None

LEMMA putUpdateType ==
    ASSUME NEW id \in Ids, NEW d \in Docs, NEW new \in Docs, NEW context \in Contexts,
           NEW j, j = putUpdate(id, d, new, context)
    PROVE  /\ j \in Jobs /\ j.step = "put" /\ j.id = id /\ j.doc = d /\ j.new \in Docs
           /\ j.new.version = d.version + 1 /\ content(j.new) = content(new)
           /\ j.new.type = new.type /\ j.new.redirect = new.redirect
           /\ isRedirection(j.new) = isRedirection(new)
           /\ Fits(id, new) => Fits(id, j.new)
<1> DEFINE v == d.version + 1
           n == [new EXCEPT !.version = v]
<1>1. v \in Nat
  BY DEF Docs
<1>2. n \in Docs /\ n.version = v /\ n.labels = new.labels /\ n.authors = new.authors
      /\ n.redirect = new.redirect /\ n.type = new.type
  BY <1>1 DEF Docs
<1> HIDE DEF n
<1>3. putUpdate(id, d, new, context) =
        [NoJob EXCEPT !.step = "put", !.id = id, !.doc = d, !.new = n, !.context = context]
  BY DEF putUpdate, n
<1>4. j = [step |-> "put", id |-> id, doc |-> d, new |-> n, context |-> context, patch |-> 0]
  BY <1>3 DEF NoJob
<1>5. j \in Jobs /\ j.step = "put" /\ j.id = id /\ j.doc = d /\ j.new = n
  BY <1>2, <1>4 DEF Jobs, Steps
<1> QED
  BY <1>2, <1>5 DEF content, isRedirection, Fits

\* A write of a document that was read
LEMMA WriteOK ==
    ASSUME EntitiesInv, NEW id \in Ids, NEW d \in Docs, NEW new \in Docs,
           NEW context \in Contexts, NEW j, j = putUpdate(id, d, new, context),
           Fits(id, d), Read(id, d), Fits(id, new), NEW r,
           \/ ~isRedirection(d) \/ content(new) = content(d)
           \/ r.kind = "revert" /\ r.from = id,
           \/ new.redirect = d.redirect \/ ~isRedirection(new)
           \/ r.kind = "merge" /\ r.from = id /\ new.redirect = r.to
    PROVE  JobOK(r, j) /\ j \in Jobs /\ j.step = "put" /\ j.id = id
<1>1. /\ j \in Jobs /\ j.step = "put" /\ j.id = id /\ j.doc = d /\ j.new \in Docs
      /\ j.new.version = d.version + 1 /\ content(j.new) = content(new)
      /\ Fits(id, j.new) /\ j.new.redirect = new.redirect
  BY putUpdateType
<1>2. Writes(r, j)
  BY <1>1 DEF Writes, Read
<1>3. KeepsRedirection(r, j)
  BY <1>1 DEF KeepsRedirection
<1>4. Redirects(r, j)
  BY <1>1 DEF Redirects, isRedirection
<1> QED
  BY <1>1, <1>2, <1>3, <1>4 DEF JobOK

\* Any document of the database is one to write after
LEMMA CurrentDoc ==
    ASSUME EntitiesInv, NEW e \in Ids
    PROVE  docs[e] \in Docs /\ Fits(e, docs[e]) /\ Read(e, docs[e])
<1>1. EntityOK(e)
  BY DEF EntitiesInv
<1> QED
  BY <1>1 DEF EntityOK, Read, Docs

LEMMA FailureKeepsInv ==
    ASSUME EntitiesInv, NEW s \in Slots, fails(s), UNCHANGED <<docs, patches, items>>
    PROVE  EntitiesInv'
<1> DEFINE r == requests[s]
           q == [r EXCEPT !.failed = TRUE, !.jobs = {}]
<1>1. r \in Requests /\ RequestOK(r)
  BY DEF EntitiesInv
<1>2. q \in Requests
  BY <1>1 DEF Requests
<1>3. RequestOK(q) /\ q.jobs = {}
  BY <1>1 DEF RequestOK, Requests
<1>4. goes(s, q)
  BY DEF fails
<1> HIDE DEF q
<1> QED
  BY <1>2, <1>3, <1>4, RequestStep

LEMMA ThrowKeepsInv ==
    ASSUME EntitiesInv, NEW s \in Slots, NEW j \in requests[s].jobs, throws(s, j),
           UNCHANGED <<docs, patches, items>>
    PROVE  EntitiesInv'
<1> DEFINE r == requests[s]
           q == [r EXCEPT !.jobs = r.jobs \ {j}, !.failed = TRUE]
<1>1. r \in Requests /\ RequestOK(r)
  BY DEF EntitiesInv
<1>2. q \in Requests
  BY <1>1 DEF Requests
<1>3. /\ q.kind = r.kind /\ q.stage = r.stage /\ q.from = r.from /\ q.to = r.to
      /\ q.copies = r.copies /\ q.doc = r.doc /\ q.change = r.change /\ q.jobs = r.jobs \ {j}
  BY <1>1 DEF Requests
<1>4. goes(s, q)
  BY DEF throws
<1> HIDE DEF q
<1>5. RequestOK(q)
  BY <1>1, <1>3 DEF RequestOK, JobOK, Writes, KeepsRedirection, Redirects
<1> QED
  BY <1>2, <1>3, <1>4, <1>5, RequestStep

LEMMA FollowKeepsInv ==
    ASSUME EntitiesInv, NEW s \in Slots, NEW j \in requests[s].jobs,
           NEW next \in SUBSET Jobs, follows(s, j, next), UNCHANGED <<docs, patches, items>>,
           \A n \in next : JobOK(requests[s], n) /\ n.step # "patch",
           requests[s].stage = "turn" => \A n \in next : n.id \in Humans
    PROVE  EntitiesInv'
<1> DEFINE r == requests[s]
           q == [r EXCEPT !.jobs = (r.jobs \ {j}) \cup next]
<1>1. r \in Requests /\ RequestOK(r) /\ r.kind # "none"
  BY DEF EntitiesInv, RequestOK
<1>2. q \in Requests
  <2>1. (r.jobs \ {j}) \cup next \in SUBSET Jobs
    BY <1>1 DEF Requests
  <2> QED
    BY <1>1, <2>1 DEF Requests
<1>3. /\ q.kind = r.kind /\ q.stage = r.stage /\ q.from = r.from /\ q.to = r.to
      /\ q.copies = r.copies /\ q.doc = r.doc /\ q.change = r.change
      /\ q.jobs = (r.jobs \ {j}) \cup next
  BY <1>1 DEF Requests
<1>4. goes(s, q)
  BY DEF follows
<1> HIDE DEF q
<1>5. ASSUME NEW n \in q.jobs PROVE JobOK(q, n)
  <2>1. JobOK(r, n)
    BY <1>1, <1>3 DEF RequestOK
  <2> QED
    BY <1>3, <2>1 DEF JobOK, Writes, KeepsRedirection, Redirects
<1>6. q.stage = "turn" => \A n \in q.jobs : n.id \in Humans
  BY <1>1, <1>3 DEF RequestOK
<1>7. RequestOK(q)
  BY <1>1, <1>3, <1>5, <1>6 DEF RequestOK
<1>8. \A n \in q.jobs : n.step = "patch" => n \in r.jobs
  BY <1>3
<1> HIDE DEF r
<1> QED
  BY <1>2, <1>4, <1>7, <1>8, RequestStep DEF r

-----------------------------------------------------------------------------
(* Edits *)

LEMMA editOfOK ==
    ASSUME EntitiesInv, NEW r \in Requests, RequestOK(r), r.kind = "edit", r.jobs = {},
           r.stage \in {"none", "read"}
    PROVE  editOf(r) \in Requests /\ RequestOK(editOf(r))
           /\ \A j \in editOf(r).jobs : j.step = "put"
<1> DEFINE d == docs[r.from]
           new == [d EXCEPT !.labels = @ \cup r.change.labels, !.authors = @ \o r.change.authors]
<1>1. r.from \in Ids /\ r.change \in Contents
  BY DEF RequestOK, Requests
<1>2. d \in Docs /\ Fits(r.from, d) /\ Read(r.from, d)
  BY <1>1, CurrentDoc
<1>3. CASE editOf(r) = [r EXCEPT !.failed = TRUE]
  <2>1. editOf(r) \in Requests
    BY <1>3 DEF Requests
  <2>2. RequestOK(editOf(r)) /\ editOf(r).jobs = {}
    BY <1>3 DEF RequestOK, Requests
  <2> QED
    BY <2>1, <2>2
<1>4. CASE editOf(r) # [r EXCEPT !.failed = TRUE]
  <2> DEFINE j == putUpdate(r.from, d, new, None)
  <2>1. ~isRedirection(d) /\ editOf(r) = [r EXCEPT !.stage = "end", !.jobs = {j}]
    BY <1>4 DEF editOf
  <2>2. r.from \in Humans => r.change.authors = <<>>
    BY EntitiesAssumption DEF RequestOK
  <2>3. new \in Docs
    <3>1. d.authors \o r.change.authors \in Seq(Authors)
      BY <1>1, <1>2 DEF Docs, Contents
    <3>2. d.labels \cup r.change.labels \in SUBSET Labels
      BY <1>1, <1>2 DEF Docs, Contents
    <3> HIDE DEF d
    <3> QED
      BY <1>2, <3>1, <3>2 DEF Docs
  <2>4. new.redirect = d.redirect /\ new.authors = d.authors \o r.change.authors
    BY <1>2 DEF Docs
  <2>5. Fits(r.from, new)
    <3>1. r.from \in Humans => d.authors \o r.change.authors = <<>>
      BY <1>2, <2>2 DEF Fits
    <3> HIDE DEF new, d
    <3> QED
      BY <2>1, <2>4, <3>1 DEF Fits, isRedirection
  <2>6. None \in Contexts
    BY DEF Contexts
  <2>7. JobOK(editOf(r), j) /\ j \in Jobs /\ j.step = "put"
    <3> HIDE DEF j, d, new
    <3> QED
      BY <1>1, <1>2, <2>1, <2>3, <2>4, <2>5, <2>6, WriteOK DEF j
  <2> HIDE DEF j, new, d
  <2>8. editOf(r) \in Requests
    <3>1. {j} \in SUBSET Jobs /\ "end" \in Stages
      BY <2>7 DEF Stages
    <3> HIDE DEF Stages
    <3> QED
      BY <2>1, <3>1 DEF Requests
  <2>9. editOf(r).jobs = {j} /\ editOf(r).stage = "end" /\ editOf(r).kind = "edit"
        /\ editOf(r).from = r.from /\ editOf(r).change = r.change
    BY <2>1 DEF Requests
  <2>10. RequestOK(editOf(r))
    BY <1>1, <2>7, <2>9 DEF RequestOK
  <2> QED
    BY <2>7, <2>8, <2>9, <2>10
<1> QED
  BY <1>3, <1>4

LEMMA EditsKeepInv ==
    ASSUME EntitiesInv, NEW s \in Slots, StartEdit(s) \/ RetryOnConflict(s)
    PROVE  EntitiesInv'
<1>1. ASSUME NEW r \in Requests, RequestOK(r), r.kind = "edit", r.jobs = {},
             r.stage \in {"none", "read"}, goes(s, editOf(r)),
             UNCHANGED <<docs, patches, items>>
      PROVE  EntitiesInv'
  <2>1. editOf(r) \in Requests /\ RequestOK(editOf(r))
        /\ \A j \in editOf(r).jobs : j.step = "put"
    BY <1>1, editOfOK
  <2> QED
    BY <1>1, <2>1, RequestStep
<1>2. CASE StartEdit(s)
  <2> DEFINE R(e, c) == [NoRequest EXCEPT !.kind = "edit", !.from = e, !.change = c]
  <2>1. PICK e \in Ids, c \in Changes : /\ c.authors # <<>> => e \in Works
                                        /\ Start(s, editOf(R(e, c)), NoWorld)
    BY <1>2 DEF StartEdit
  <2> DEFINE r == R(e, c)
  <2>2. c \in Contents
    <3>1. ASSUME NEW l \in Labels PROVE [create EXCEPT !.labels = {l}] \in Contents
      BY NoDocType DEF Contents
    <3>2. ASSUME NEW a \in Authors PROVE [create EXCEPT !.authors = <<a>>] \in Contents
      <4>1. <<a>> \in Seq(Authors)
        OBVIOUS
      <4> QED
        BY <4>1, NoDocType DEF Contents
    <3> QED
      BY <3>1, <3>2 DEF Changes
  <2>3. r \in Requests
    BY <2>2, NoDocType DEF Requests
  <2>4. r.kind = "edit" /\ r.jobs = {} /\ r.stage = "none" /\ r.from = e /\ r.change = c
    BY DEF NoRequest
  <2>5. RequestOK(r)
    <3> HIDE DEF r
    <3> QED
      BY <2>1, <2>4 DEF RequestOK
  <2>6. goes(s, editOf(r)) /\ UNCHANGED <<docs, patches, items>>
    BY <2>1 DEF Start
  <2> HIDE DEF r
  <2> QED
    BY <1>1, <2>3, <2>4, <2>5, <2>6
<1>3. CASE RetryOnConflict(s)
  <2>1. requests[s] \in Requests /\ RequestOK(requests[s])
    BY DEF EntitiesInv
  <2>2. requests[s].kind = "edit" /\ requests[s].jobs = {} /\ requests[s].stage = "read"
        /\ goes(s, editOf(requests[s])) /\ UNCHANGED <<docs, patches, items>>
    BY <1>3 DEF RetryOnConflict, at, reads
  <2> QED
    BY <1>1, <2>1, <2>2
<1> QED
  BY <1>2, <1>3

-----------------------------------------------------------------------------
(* Merges *)

LEMMA mergeDocsOK ==
    ASSUME NEW from \in Ids, NEW to \in Ids, sameType(from, to), NEW d \in Docs, NEW m \in Docs,
           Fits(from, d), Fits(to, m), ~isRedirection(m)
    PROVE  /\ mergeDocs(d, m) \in Docs /\ Fits(to, mergeDocs(d, m))
           /\ ~isRedirection(mergeDocs(d, m))
<1> DEFINE authors == IF m.authors = <<>> /\ d.authors # <<>> THEN <<Head(d.authors)>>
                      ELSE m.authors
           labels == m.labels \cup d.labels
<1>1. mergeDocs(d, m) = [m EXCEPT !.labels = labels, !.authors = authors]
  BY DEF mergeDocs
<1>2. labels \in SUBSET Labels
  BY DEF Docs
<1>3. authors \in Seq(Authors)
  <2>1. CASE m.authors = <<>> /\ d.authors # <<>>
    <3>1. d.authors \in Seq(Authors) /\ d.authors # <<>>
      BY <2>1 DEF Docs
    <3>2. Head(d.authors) \in Authors
      BY <3>1
    <3>3. <<Head(d.authors)>> \in Seq(Authors)
      BY <3>2
    <3> QED
      BY <2>1, <3>3
  <2>2. CASE ~(m.authors = <<>> /\ d.authors # <<>>)
    BY <2>2 DEF Docs
  <2> QED
    BY <2>1, <2>2
<1>4. to \in Humans => authors = <<>>
  <2> SUFFICES ASSUME to \in Humans PROVE authors = <<>>
    OBVIOUS
  <2>1. from \in Humans
    BY EntitiesAssumption DEF sameType, Ids
  <2> QED
    BY <2>1 DEF Fits
<1> HIDE DEF authors, labels
<1>5. mergeDocs(d, m) \in Docs
  BY <1>1, <1>2, <1>3 DEF Docs
<1>6. mergeDocs(d, m).redirect = m.redirect /\ mergeDocs(d, m).authors = authors
  BY <1>1 DEF Docs
<1> QED
  BY <1>4, <1>5, <1>6 DEF Fits, isRedirection

LEMMA StartMergeKeepsInv ==
    ASSUME EntitiesInv, NEW s \in Slots, StartMerge(s)
    PROVE  EntitiesInv'
<1> DEFINE R(from, to) == [NoRequest EXCEPT !.kind = "merge", !.from = from, !.to = to,
                             !.stage = IF to \in Wikidata THEN "isolate" ELSE "mergeDocs"]
<1>1. PICK from \in Ids, to \in Uris : sameType(from, to) /\ from # to
                /\ Start(s, R(from, to), [from |-> from, world |-> world])
  BY DEF StartMerge, validateEntities
<1> DEFINE r == R(from, to)
<1>2. r \in Requests
  BY NoDocType DEF Requests, Stages
<1>3. r.kind = "merge" /\ r.jobs = {} /\ r.stage \in {"isolate", "mergeDocs"} /\ r.from = from
      /\ r.to = to /\ r.copies = <<>> /\ (r.stage = "mergeDocs" => to \notin Wikidata)
  BY DEF NoRequest
<1>4. goes(s, r) /\ UNCHANGED <<docs, patches, items>>
  BY <1>1 DEF Start
<1> HIDE DEF r
<1>5. RequestOK(r)
  BY <1>1, <1>3 DEF RequestOK, Uris
<1> QED
  BY <1>2, <1>3, <1>4, <1>5, RequestStep

LEMMA MergeInvEntitiesKeepsInv ==
    ASSUME EntitiesInv, NEW s \in Slots, MergeInvEntities(s)
    PROVE  EntitiesInv'
<1> DEFINE r == requests[s]
           from == docs[r.from]
           to == docs[r.to]
           merged == mergeDocs(from, to)
           puts == {putUpdate(r.to, to, new, <<"mergeFrom", r.from>>) : new \in {merged} \ {to}}
<1>1. r \in Requests /\ RequestOK(r) /\ r.kind = "merge" /\ r.stage = "mergeDocs"
  BY DEF EntitiesInv, MergeInvEntities, at
<1>2. UNCHANGED <<docs, patches, items>>
  BY DEF MergeInvEntities, reads
<1>3. CASE fails(s)
  BY <1>2, <1>3, FailureKeepsInv
<1>4. CASE ~fails(s)
  <2> DEFINE q == [r EXCEPT !.stage = "isolate", !.jobs = puts]
  <2>1. ~isRedirection(from) /\ ~isRedirection(to) /\ goes(s, q)
    BY <1>4 DEF MergeInvEntities
  <2>2. r.from \in Ids /\ r.to \in Ids /\ sameType(r.from, r.to)
    BY <1>1 DEF RequestOK
  <2>3. /\ from \in Docs /\ Fits(r.from, from)
        /\ to \in Docs /\ Fits(r.to, to) /\ Read(r.to, to)
    BY <2>2, CurrentDoc
  <2>4. merged \in Docs /\ Fits(r.to, merged) /\ ~isRedirection(merged)
    <3> HIDE DEF r, from, to
    <3> QED
      BY <2>1, <2>2, <2>3, mergeDocsOK
  <2>5. <<"mergeFrom", r.from>> \in Contexts
    BY <2>2 DEF Contexts
  <2>6. ASSUME NEW j \in puts PROVE JobOK(q, j) /\ j \in Jobs /\ j.step = "put"
    <3>1. j = putUpdate(r.to, to, merged, <<"mergeFrom", r.from>>)
      OBVIOUS
    <3> HIDE DEF q, r, to, merged, puts
    <3> QED
      BY <2>1, <2>2, <2>3, <2>4, <2>5, <3>1, WriteOK
  <2> HIDE DEF puts
  <2>7. q \in Requests
    <3>1. puts \in SUBSET Jobs /\ "isolate" \in Stages
      BY <2>6 DEF Stages
    <3> HIDE DEF Stages, r
    <3> QED
      BY <1>1, <3>1 DEF Requests
  <2>8. /\ q.jobs = puts /\ q.stage = "isolate" /\ q.kind = "merge" /\ q.from = r.from
        /\ q.to = r.to /\ q.copies = r.copies
    BY <1>1 DEF Requests
  <2> HIDE DEF q
  <2>9. RequestOK(q)
    BY <1>1, <2>2, <2>6, <2>8 DEF RequestOK
  <2>10. \A j \in q.jobs : j.step = "put"
    BY <2>6, <2>8
  <2> QED
    BY <1>2, <2>1, <2>7, <2>9, <2>10, RequestStep
<1> QED
  BY <1>3, <1>4

LEMMA RemoveObsoletePlaceholdersKeepsInv ==
    ASSUME EntitiesInv, NEW s \in Slots, RemoveObsoletePlaceholderEntities(s)
    PROVE  EntitiesInv'
<1> DEFINE r == requests[s]
           d == docs[r.from]
           checks == {Job("check", h) : h \in ToSet(d.authors) \cap Humans}
<1>1. r \in Requests /\ RequestOK(r) /\ r.kind = "merge" /\ r.jobs = {}
  BY DEF EntitiesInv, RemoveObsoletePlaceholderEntities, at
<1>2. UNCHANGED <<docs, patches, items>>
  BY DEF RemoveObsoletePlaceholderEntities, reads
<1>3. CASE fails(s)
  BY <1>2, <1>3, FailureKeepsInv
<1>4. CASE ~fails(s)
  <2> DEFINE q == [r EXCEPT !.stage = "turn", !.doc = d, !.jobs = checks]
  <2>1. ~isRedirection(d) /\ goes(s, q)
    BY <1>4 DEF RemoveObsoletePlaceholderEntities
  <2>2. d \in Docs /\ Fits(r.from, d) /\ Read(r.from, d)
    BY <1>1, CurrentDoc DEF RequestOK
  <2>3. \A j \in checks : j \in Jobs /\ j.step = "check" /\ j.id \in Humans
    BY JobType DEF Ids, Steps
  <2> HIDE DEF checks, d
  <2>4. q \in Requests
    <3>1. checks \in SUBSET Jobs /\ "turn" \in Stages
      BY <2>3 DEF Stages
    <3> HIDE DEF r, Stages
    <3> QED
      BY <1>1, <2>2, <3>1 DEF Requests
  <2>5. /\ q.jobs = checks /\ q.stage = "turn" /\ q.kind = "merge" /\ q.from = r.from
        /\ q.to = r.to /\ q.copies = r.copies /\ q.doc = d
    BY <1>1 DEF Requests
  <2> HIDE DEF q
  <2>6. RequestOK(q)
    <3>1. \A j \in checks : JobOK(q, j)
      BY <2>3 DEF JobOK
    <3> QED
      BY <1>1, <2>1, <2>2, <2>3, <2>5, <3>1 DEF RequestOK
  <2> QED
    BY <1>2, <2>1, <2>3, <2>4, <2>5, <2>6, RequestStep
<1> QED
  BY <1>3, <1>4

LEMMA TurnIntoRedirectionKeepsInv ==
    ASSUME EntitiesInv, NEW s \in Slots, TurnIntoRedirection(s)
    PROVE  EntitiesInv'
<1> DEFINE r == requests[s]
           new == turnIntoRedirection(r.doc, r.to, r.removed)
           put == putUpdate(r.from, r.doc, new, None)
<1>1. r \in Requests /\ RequestOK(r) /\ r.kind = "merge" /\ r.jobs = {} /\ r.stage = "turn"
  BY DEF EntitiesInv, TurnIntoRedirection, at
<1>2. UNCHANGED <<docs, patches, items>>
  BY DEF TurnIntoRedirection, reads
<1>3. CASE fails(s)
  BY <1>2, <1>3, FailureKeepsInv
<1>4. CASE ~fails(s)
  <2> DEFINE q == [r EXCEPT !.stage = "propagate", !.doc = NoDoc, !.removed = {},
                            !.jobs = {put}]
  <2>1. goes(s, q)
    BY <1>4 DEF TurnIntoRedirection
  <2>2. /\ r.from \in Ids /\ r.to \in Uris /\ sameType(r.from, r.to)
        /\ r.doc \in Docs /\ Fits(r.from, r.doc) /\ Read(r.from, r.doc) /\ ~isRedirection(r.doc)
    BY <1>1 DEF RequestOK, Requests
  <2>3. new \in Docs /\ Fits(r.from, new)
    <3>1. new = [r.doc EXCEPT !.redirect = r.to, !.labels = {}, !.authors = <<>>,
                              !.removedPlaceholdersIds = r.removed]
      BY DEF turnIntoRedirection
    <3>2. r.removed \in SUBSET Humans /\ <<>> \in Seq(Authors)
      BY <1>1 DEF Requests
    <3> HIDE DEF new, r
    <3>3. new \in Docs
      BY <2>2, <3>1, <3>2 DEF Docs
    <3>4. new.redirect = r.to /\ new.labels = {} /\ new.authors = <<>>
      BY <2>2, <3>1 DEF Docs
    <3> QED
      BY <2>2, <3>3, <3>4 DEF Fits
  <2>4. put \in Jobs /\ put.step = "put" /\ JobOK(q, put)
    <3>1. None \in Contexts
      BY DEF Contexts
    <3>2. q.kind = "merge" /\ q.from = r.from /\ q.to = r.to
      BY <1>1 DEF Requests
    <3>3. new.redirect = r.to
      BY <2>2 DEF turnIntoRedirection, Docs
    <3> HIDE DEF q, r, new
    <3> QED
      BY <2>2, <2>3, <3>1, <3>2, <3>3, WriteOK
  <2> HIDE DEF put
  <2>5. q \in Requests
    <3>1. {put} \in SUBSET Jobs /\ "propagate" \in Stages
      BY <2>4 DEF Stages
    <3> HIDE DEF r, Stages
    <3> QED
      BY <1>1, <3>1, NoDocType DEF Requests
  <2>6. /\ q.jobs = {put} /\ q.stage = "propagate" /\ q.kind = "merge" /\ q.from = r.from
        /\ q.to = r.to /\ q.copies = r.copies
    BY <1>1 DEF Requests
  <2> HIDE DEF q
  <2>7. RequestOK(q)
    BY <1>1, <2>2, <2>4, <2>6 DEF RequestOK
  <2> QED
    BY <1>2, <2>1, <2>4, <2>5, <2>6, <2>7, RequestStep
<1> QED
  BY <1>3, <1>4

LEMMA PropagateRedirectionKeepsInv ==
    ASSUME EntitiesInv, NEW s \in Slots, PropagateRedirection(s)
    PROVE  EntitiesInv'
<1> DEFINE r == requests[s]
           jobs == {Job("claims", NoUri), Job("items", NoUri)}
           q == [r EXCEPT !.stage = "end", !.jobs = jobs]
<1>1. r \in Requests /\ RequestOK(r) /\ r.kind = "merge" /\ goes(s, q)
  BY DEF EntitiesInv, PropagateRedirection, at
<1>2. UNCHANGED <<docs, patches, items>>
  BY DEF PropagateRedirection, reads
<1>3. \A j \in jobs : j \in Jobs /\ j.step \in {"claims", "items"}
  BY JobType DEF Steps
<1> HIDE DEF jobs
<1>4. q \in Requests
  <2>1. jobs \in SUBSET Jobs /\ "end" \in Stages
    BY <1>3 DEF Stages
  <2> HIDE DEF r, Stages
  <2> QED
    BY <1>1, <2>1 DEF Requests
<1>5. /\ q.jobs = jobs /\ q.stage = "end" /\ q.kind = "merge" /\ q.from = r.from
      /\ q.to = r.to /\ q.copies = r.copies
  BY <1>1 DEF Requests
<1> HIDE DEF q
<1>6. RequestOK(q)
  <2>1. \A j \in jobs : JobOK(q, j)
    BY <1>3, <1>5 DEF JobOK
  <2> QED
    BY <1>1, <1>5, <2>1 DEF RequestOK
<1> QED
  BY <1>1, <1>2, <1>3, <1>4, <1>5, <1>6, RequestStep

-----------------------------------------------------------------------------
(* Reverts of merges *)

LEMMA VersionsToRestore ==
    ASSUME EntitiesInv, NEW e \in Ids
    PROVE  /\ findVersionBeforeRedirect(e) \subseteq ContentsOf(e)
           /\ \A c \in findVersionBeforeRedirect(e) : ~isRedirection(c)
<1> DEFINE snapshots == addSnapshots(e)
           last == docs[e].version
           before == {v \in 2..last : \E d \in snapshots[v] : ~isRedirection(d)}
<1>1. EntityOK(e) /\ last \in Nat /\ last >= 2
  BY DEF EntitiesInv, EntityOK, Docs
<1>2. /\ \A v \in 1..last : snapshots[v] \subseteq ContentsOf(e) /\ Single(snapshots[v])
      /\ \E d \in snapshots[2] : ~isRedirection(d)
  BY <1>1, SnapshotsType
<1>3. 2 \in before
  BY <1>1, <1>2
<1> HIDE DEF snapshots
<1>4. Max(before) \in before
  <2>1. before \subseteq 0..last /\ before # {}
    BY <1>1, <1>3
  <2> HIDE DEF before
  <2> QED
    BY <1>1, <2>1, Greatest
<1>5. Max(before) \in 1..last
  BY <1>1, <1>4
<1>6. findVersionBeforeRedirect(e) \subseteq snapshots[Max(before)]
  BY DEF findVersionBeforeRedirect, snapshots
<1>7. \A c \in snapshots[Max(before)] : ~isRedirection(c)
  BY <1>2, <1>4, <1>5 DEF Single
<1> QED
  BY <1>2, <1>5, <1>6, <1>7

LEMMA StartRevertKeepsInv ==
    ASSUME EntitiesInv, NEW s \in Slots, StartRevert(s)
    PROVE  EntitiesInv'
<1> DEFINE R(e) == [NoRequest EXCEPT !.kind = "revert", !.stage = "restore", !.from = e]
<1>1. PICK e \in Ids : LET versions == findVersionBeforeRedirect(e)
                           undo == IF beforeMerge.from = e THEN beforeMerge ELSE NoWorld
                       IN  IF versions = {} THEN Start(s, [R(e) EXCEPT !.failed = TRUE], undo)
                           ELSE \E d \in versions : Start(s, [R(e) EXCEPT !.change = d], undo)
  BY DEF StartRevert
<1> DEFINE r == R(e)
<1>2. r \in Requests
  <2>1. "restore" \in Stages
    BY DEF Stages
  <2> HIDE DEF Stages
  <2> QED
    BY <2>1, NoDocType DEF Requests
<1>3. /\ r.kind = "revert" /\ r.stage = "restore" /\ r.from = e /\ r.jobs = {}
      /\ r.copies = <<>> /\ r.change = create /\ Fits(e, create)
      /\ ~isRedirection(create)
  BY DEF NoRequest, Fits, create, isRedirection
<1> HIDE DEF R
<1>4. ASSUME NEW q \in Requests, q.kind = r.kind, q.stage = r.stage, q.from = r.from,
             q.jobs = r.jobs, q.copies = r.copies, Fits(e, q.change),
             ~isRedirection(q.change), goes(s, q),
             UNCHANGED <<docs, patches, items>>
      PROVE  EntitiesInv'
  <2>1. RequestOK(q)
    BY <1>3, <1>4 DEF RequestOK
  <2> QED
    BY <1>3, <1>4, <2>1, RequestStep
<1>5. CASE findVersionBeforeRedirect(e) = {}
  <2> DEFINE q == [r EXCEPT !.failed = TRUE]
  <2>1. goes(s, q) /\ UNCHANGED <<docs, patches, items>>
    BY <1>1, <1>5 DEF Start
  <2>2. /\ q \in Requests /\ q.kind = r.kind /\ q.stage = r.stage /\ q.from = r.from
        /\ q.jobs = r.jobs /\ q.copies = r.copies /\ q.change = r.change
    BY <1>2 DEF Requests
  <2> HIDE DEF q, r
  <2> QED
    BY <1>3, <1>4, <2>1, <2>2
<1>6. CASE findVersionBeforeRedirect(e) # {}
  <2>1. PICK c \in findVersionBeforeRedirect(e) :
              goes(s, [r EXCEPT !.change = c]) /\ UNCHANGED <<docs, patches, items>>
    BY <1>1, <1>6 DEF Start
  <2> DEFINE q == [r EXCEPT !.change = c]
  <2>2. c \in Contents /\ Fits(e, c) /\ ~isRedirection(c)
    BY VersionsToRestore DEF ContentsOf
  <2>3. /\ q \in Requests /\ q.kind = r.kind /\ q.stage = r.stage /\ q.from = r.from
        /\ q.jobs = r.jobs /\ q.copies = r.copies /\ q.change = c
    BY <1>2, <2>2 DEF Requests
  <2> HIDE DEF r
  <2>4. goes(s, q)
    BY <2>1
  <2> HIDE DEF q
  <2> QED
    BY <1>4, <2>1, <2>2, <2>3, <2>4
<1> QED
  BY <1>5, <1>6

LEMMA RestoreVersionKeepsInv ==
    ASSUME EntitiesInv, NEW s \in Slots, RestoreVersion(s)
    PROVE  EntitiesInv'
<1> DEFINE r == requests[s]
           d == docs[r.from]
           restored == documentOf(r.change, 0)
           put == putUpdate(r.from, d, restored, None)
           q == [r EXCEPT !.stage = "items", !.change = create, !.to = d.redirect,
                          !.removed = d.removedPlaceholdersIds, !.jobs = {put}]
<1>1. r \in Requests /\ RequestOK(r) /\ r.kind = "revert" /\ r.stage = "restore" /\ goes(s, q)
  BY DEF EntitiesInv, RestoreVersion, at
<1>2. UNCHANGED <<docs, patches, items>>
  BY DEF RestoreVersion, reads
<1>3. r.from \in Ids /\ r.change \in Contents /\ Fits(r.from, r.change)
      /\ ~isRedirection(r.change)
  BY <1>1 DEF RequestOK, Requests
<1>4. d \in Docs /\ Fits(r.from, d) /\ Read(r.from, d)
  BY <1>3, CurrentDoc
<1>5. restored \in Docs /\ Fits(r.from, restored) /\ ~isRedirection(restored)
  <2> HIDE DEF r
  <2>1. /\ restored.labels = r.change.labels /\ restored.authors = r.change.authors
        /\ restored.redirect = r.change.redirect
    BY DEF documentOf
  <2> QED
    BY <1>3, <2>1 DEF documentOf, Docs, Contents, Fits, isRedirection
<1>6. q.kind = "revert" /\ q.from = r.from
  BY <1>1 DEF Requests
<1>7. put \in Jobs /\ put.step = "put" /\ JobOK(q, put)
  <2>1. None \in Contexts
    BY DEF Contexts
  <2> HIDE DEF q, r, d, restored
  <2> QED
    BY <1>3, <1>4, <1>5, <1>6, <2>1, WriteOK
<1> HIDE DEF put
<1>8. q \in Requests
  <2>1. {put} \in SUBSET Jobs /\ "items" \in Stages
    BY <1>7 DEF Stages
  <2>2. d.redirect \in Uris \cup {NoUri} /\ d.removedPlaceholdersIds \in SUBSET Humans
    BY <1>4 DEF Docs
  <2> HIDE DEF r, d, Stages
  <2> QED
    BY <1>1, <2>1, <2>2, NoDocType DEF Requests
<1>9. q.jobs = {put} /\ q.stage = "items" /\ q.copies = r.copies
  BY <1>1 DEF Requests
<1> HIDE DEF q
<1>10. RequestOK(q)
  BY <1>1, <1>3, <1>6, <1>7, <1>9 DEF RequestOK
<1> QED
  BY <1>1, <1>2, <1>7, <1>8, <1>9, <1>10, RequestStep

LEMMA CopiesType ==
    ASSUME EntitiesInv, NEW found \in SUBSET Items
    PROVE  /\ copiesOf(found) \in UNION {[I -> ItemDocs] : I \in SUBSET Items}
           /\ DOMAIN copiesOf(found) = found /\ \A i \in found : copiesOf(found)[i] = items[i]
<1>1. copiesOf(found) \in [found -> ItemDocs]
  BY DEF copiesOf, EntitiesInv
<1> QED
  BY <1>1 DEF copiesOf

LEMMA AfterRevertKeepsInv ==
    ASSUME EntitiesInv, NEW s \in Slots, AfterRevert(s)
    PROVE  EntitiesInv'
<1> DEFINE r == requests[s]
           found == {i \in Items : r.from \in ToSet(items[i].previousEntity)}
           copies == copiesOf(found)
           bulk == Job("bulk", NoUri)
<1>1. r \in Requests /\ RequestOK(r) /\ r.kind = "revert"
  BY DEF EntitiesInv, AfterRevert, at
<1>2. UNCHANGED <<docs, patches, items>>
  BY DEF AfterRevert, reads
<1>3. CASE fails(s)
  BY <1>2, <1>3, FailureKeepsInv
<1>4. CASE ~fails(s)
  <2> DEFINE q == [r EXCEPT !.stage = "placeholders", !.copies = copies, !.jobs = {bulk}]
  <2>1. goes(s, q)
    BY <1>4 DEF AfterRevert
  <2>2. /\ copies \in UNION {[I -> ItemDocs] : I \in SUBSET Items}
        /\ DOMAIN copies = found /\ \A i \in found : copies[i] = items[i]
    BY CopiesType
  <2>3. \A i \in DOMAIN copies : copies[i].previousEntity # <<>>
    <3>1. ToSet(<<>>) = {}
      BY DEF ToSet
    <3> QED
      BY <2>2, <3>1
  <2>4. bulk \in Jobs /\ bulk.step = "bulk"
    BY JobType DEF Steps
  <2> HIDE DEF copies, bulk
  <2>5. q \in Requests
    <3>1. {bulk} \in SUBSET Jobs /\ "placeholders" \in Stages
      BY <2>4 DEF Stages
    <3> HIDE DEF r, Stages
    <3> QED
      BY <1>1, <2>2, <3>1 DEF Requests
  <2>6. /\ q.jobs = {bulk} /\ q.stage = "placeholders" /\ q.kind = "revert" /\ q.from = r.from
        /\ q.copies = copies
    BY <1>1 DEF Requests
  <2> HIDE DEF q
  <2>7. RequestOK(q)
    <3>1. JobOK(q, bulk)
      BY <2>4, <2>6 DEF JobOK
    <3> QED
      BY <1>1, <2>3, <2>6, <3>1 DEF RequestOK
  <2> QED
    BY <1>2, <2>1, <2>4, <2>5, <2>6, <2>7, RequestStep
<1> QED
  BY <1>3, <1>4

\* The last stages of a revert start jobs, each on an entity
LEMMA RevertStageStep ==
    ASSUME EntitiesInv, NEW s \in Slots, requests[s].kind = "revert",
           NEW stage \in {"mergePatch", "redirections", "end"}, NEW removed \in SUBSET Humans,
           NEW jobs \in SUBSET Jobs,
           \A j \in jobs : j.step \in {"recover", "revert"} /\ JobOK(requests[s], j),
           goes(s, [requests[s] EXCEPT !.stage = stage, !.removed = removed, !.jobs = jobs]),
           UNCHANGED <<docs, patches, items>>
    PROVE  EntitiesInv'
<1> DEFINE r == requests[s]
           q == [r EXCEPT !.stage = stage, !.removed = removed, !.jobs = jobs]
<1>1. r \in Requests /\ RequestOK(r)
  BY DEF EntitiesInv
<1>2. q \in Requests
  <2>1. stage \in Stages
    BY DEF Stages
  <2> HIDE DEF r, Stages
  <2> QED
    BY <1>1, <2>1 DEF Requests
<1>3. /\ q.jobs = jobs /\ q.stage = stage /\ q.kind = "revert" /\ q.from = r.from
      /\ q.copies = r.copies
  BY <1>1 DEF Requests
<1> HIDE DEF q
<1>4. RequestOK(q)
  <2>1. \A j \in jobs : JobOK(q, j)
    BY DEF JobOK
  <2> QED
    BY <1>1, <1>3, <2>1 DEF RequestOK
<1> QED
  BY <1>2, <1>3, <1>4, RequestStep DEF q

LEMMA RevertJobType ==
    ASSUME EntitiesInv, NEW e \in Ids, NEW p \in patches[e], NEW r
    PROVE  /\ revertJob(e, p) \in Jobs /\ revertJob(e, p).step = "revert"
           /\ revertJob(e, p).id = e /\ revertJob(e, p).patch = p.version
           /\ JobOK(r, revertJob(e, p))
<1> DEFINE j == Job("revert", e)
<1>1. j \in Jobs /\ j.step = "revert" /\ j.id = e
  BY JobType DEF Steps
<1>2. p.version \in Nat
  BY DEF EntitiesInv, EntityOK, Patches
<1> HIDE DEF j
<1>3. revertJob(e, p) = [j EXCEPT !.patch = p.version]
  BY DEF revertJob, j
<1>4. /\ revertJob(e, p) \in Jobs /\ revertJob(e, p).step = "revert" /\ revertJob(e, p).id = e
      /\ revertJob(e, p).patch = p.version
  BY <1>1, <1>2, <1>3 DEF Jobs
<1> QED
  BY <1>4 DEF JobOK

LEMMA RevertStagesKeepInv ==
    ASSUME EntitiesInv, NEW s \in Slots,
           RecoverPlaceholders(s) \/ RevertMergePatch(s) \/ RevertClaimsRedirections(s)
    PROVE  EntitiesInv'
<1> DEFINE r == requests[s]
           Stage(stage, removed, jobs) ==
               [r EXCEPT !.stage = stage, !.removed = removed, !.jobs = jobs]
<1>1. r \in Requests /\ RequestOK(r) /\ r.removed \in SUBSET Humans
  BY DEF EntitiesInv, Requests
<1>2. \A stage, jobs : [r EXCEPT !.stage = stage, !.jobs = jobs] = Stage(stage, r.removed, jobs)
  BY <1>1 DEF Requests
<1>3. CASE RecoverPlaceholders(s)
  <2> DEFINE jobs == {Job("recover", h) : h \in r.removed}
  <2>1. \A j \in jobs : j \in Jobs /\ j.step = "recover" /\ j.id \in Humans
    BY <1>1, JobType DEF Steps, Ids
  <2>2. goes(s, Stage("mergePatch", {}, jobs)) /\ r.kind = "revert"
        /\ UNCHANGED <<docs, patches, items>>
    BY <1>3 DEF RecoverPlaceholders, at, reads
  <2> HIDE DEF jobs
  <2>3. \A j \in jobs : j.step \in {"recover", "revert"} /\ JobOK(r, j)
    BY <2>1 DEF JobOK
  <2>4. jobs \in SUBSET Jobs
    BY <2>1
  <2> QED
    BY <2>2, <2>3, <2>4, RevertStageStep
<1>4. CASE RevertMergePatch(s)
  <2> DEFINE merges == {p \in patches[r.to] : p.context = <<"mergeFrom", r.from>>}
             first == {p \in merges : \A q \in merges : p.version <= q.version}
             jobs == IF r.to \in Ids THEN {revertJob(r.to, p) : p \in first} ELSE {}
  <2>1. r.kind = "revert" /\ UNCHANGED <<docs, patches, items>>
    BY <1>4 DEF RevertMergePatch, at, reads
  <2>2. CASE fails(s)
    BY <2>1, <2>2, FailureKeepsInv
  <2>3. CASE ~fails(s)
    <3>1. goes(s, [r EXCEPT !.stage = "redirections", !.jobs = jobs])
      BY <1>4, <2>3 DEF RevertMergePatch
    <3>2. \A j \in jobs : j \in Jobs /\ j.step = "revert" /\ JobOK(r, j)
      BY RevertJobType
    <3> HIDE DEF jobs
    <3>3. goes(s, Stage("redirections", r.removed, jobs))
      BY <1>2, <3>1
    <3>4. jobs \in SUBSET Jobs
      BY <3>2
    <3> QED
      BY <1>1, <2>1, <3>2, <3>3, <3>4, RevertStageStep
  <2> QED
    BY <2>2, <2>3
<1>5. CASE RevertClaimsRedirections(s)
  <2> DEFINE found == patchesOf(<<"redirectClaims", r.from>>)
             jobs == {revertJob(ep[1], ep[2]) : ep \in found}
  <2>1. r.kind = "revert" /\ UNCHANGED <<docs, patches, items>>
        /\ goes(s, [r EXCEPT !.stage = "end", !.jobs = jobs])
    BY <1>5 DEF RevertClaimsRedirections, at, reads
  <2>2. \A ep \in found : ep[1] \in Ids /\ ep[2] \in patches[ep[1]]
    BY DEF patchesOf
  <2>3. \A j \in jobs : j \in Jobs /\ j.step = "revert" /\ JobOK(r, j)
    <3> HIDE DEF found
    <3> QED
      BY <2>2, RevertJobType
  <2> HIDE DEF jobs
  <2>4. goes(s, Stage("end", r.removed, jobs))
    BY <1>2, <2>1
  <2>5. jobs \in SUBSET Jobs
    BY <2>3
  <2> QED
    BY <1>1, <2>1, <2>3, <2>4, <2>5, RevertStageStep
<1> QED
  BY <1>3, <1>4, <1>5

-----------------------------------------------------------------------------
(* Jobs *)

LEMMA PlaceholderJobsKeepInv ==
    ASSUME EntitiesInv, NEW s \in Slots, NEW j \in requests[s].jobs,
           DeleteIfIsolated(s, j) \/ RemovePlaceholder(s, j) \/ RecoverPlaceholder(s, j)
    PROVE  EntitiesInv'
<1>1. JobOK(requests[s], j) /\ UNCHANGED <<docs, patches, items>> /\ j.id \in Humans
  BY DEF EntitiesInv, RequestOK, DeleteIfIsolated, RemovePlaceholder, RecoverPlaceholder, reads,
         JobOK
<1> DEFINE d == docs[j.id]
<1>2. j.id \in Ids /\ d \in Docs /\ Fits(j.id, d) /\ Read(j.id, d)
  BY <1>1, CurrentDoc DEF Ids
<1>3. ASSUME NEW type \in {"entity", "removed:placeholder"}, NEW next \in SUBSET Jobs,
             next \subseteq {putUpdate(j.id, d, [d EXCEPT !.type = type], None)},
             follows(s, j, next),
             ~isRedirection(d) \/ type = "entity"
      PROVE  EntitiesInv'
  <2> DEFINE new == [d EXCEPT !.type = type]
  <2>1. new \in Docs /\ Fits(j.id, new) /\ content(new) = content(d)
        /\ new.redirect = d.redirect
    BY <1>2 DEF Docs, Fits, content, isRedirection
  <2>2. None \in Contexts
    BY DEF Contexts
  <2> HIDE DEF new, d
  <2>3. \A n \in next : JobOK(requests[s], n) /\ n.step = "put" /\ n.id = j.id
    <3>1. \A n \in next : n = putUpdate(j.id, d, new, None)
      BY <1>3 DEF new
    <3> QED
      BY <1>2, <2>1, <2>2, <3>1, WriteOK
  <2> QED
    BY <1>1, <1>3, <2>3, FollowKeepsInv
<1>4. \A type \in {"entity", "removed:placeholder"} :
          putUpdate(j.id, d, [d EXCEPT !.type = type], None) \in Jobs
  <2> SUFFICES ASSUME NEW type \in {"entity", "removed:placeholder"}
               PROVE  putUpdate(j.id, d, [d EXCEPT !.type = type], None) \in Jobs
    OBVIOUS
  <2> DEFINE new == [d EXCEPT !.type = type]
  <2>1. new \in Docs /\ None \in Contexts
    BY <1>2 DEF Docs, Contexts
  <2> HIDE DEF new, d
  <2> QED
    BY <1>2, <2>1, putUpdateType DEF new
<1>5. CASE DeleteIfIsolated(s, j)
  <2> DEFINE next == IF byClaimsValue(j.id) \subseteq {requests[s].from}
                     THEN {Job("remove", j.id)} ELSE {}
  <2>1. follows(s, j, next)
    BY <1>5 DEF DeleteIfIsolated
  <2>2. next \in SUBSET Jobs
        /\ \A n \in next : JobOK(requests[s], n) /\ n.step # "patch" /\ n.id \in Humans
    BY <1>1, <1>2, JobType DEF Steps, JobOK
  <2> HIDE DEF next
  <2> QED
    BY <1>1, <2>1, <2>2, FollowKeepsInv
<1>6. CASE RemovePlaceholder(s, j)
  <2> DEFINE next == IF isRedirection(d) THEN {}
                     ELSE {putUpdate(j.id, d, [d EXCEPT !.type = "removed:placeholder"], None)}
  <2>1. follows(s, j, next)
    BY <1>6 DEF RemovePlaceholder
  <2>2. next \in SUBSET Jobs
    BY <1>4
  <2>3. CASE isRedirection(d)
    BY <1>1, <2>1, <2>2, <2>3, FollowKeepsInv
  <2>4. CASE ~isRedirection(d)
    BY <1>3, <2>1, <2>2, <2>4
  <2> QED
    BY <2>3, <2>4
<1>7. CASE RecoverPlaceholder(s, j)
  <2> DEFINE next == {putUpdate(j.id, d, [d EXCEPT !.type = "entity"], None)}
  <2>1. follows(s, j, next)
    BY <1>7 DEF RecoverPlaceholder
  <2>2. next \in SUBSET Jobs
    BY <1>4
  <2> QED
    BY <1>3, <2>1, <2>2
<1> QED
  BY <1>5, <1>6, <1>7

LEMMA revertPatchOK ==
    ASSUME NEW e \in Ids, NEW d \in Docs, Fits(e, d), NEW p, p.before \in ContentsOf(e),
           p.after \in ContentsOf(e), NEW new \in revertPatch(d, p)
    PROVE  ~isRedirection(d) /\ new \in Docs /\ Fits(e, new) /\ new.redirect = d.redirect
<1> DEFINE labels == patchLabels(p.after.labels, p.before.labels, d.labels)
           authors == revertAuthors(p.before.authors, p.after.authors, d.authors)
           reverted == {[d EXCEPT !.labels = la[1], !.authors = la[2]] :
                          la \in labels \X authors}
<1> HIDE DEF labels, authors
<1>1. new \in IF isRedirection(d) THEN {} ELSE reverted
  BY DEF revertPatch, labels, authors
<1> HIDE DEF reverted
<1>2. ~isRedirection(d) /\ new \in reverted
  BY <1>1
<1>3. PICK l \in labels, a \in authors : new = [d EXCEPT !.labels = l, !.authors = a]
  <2>1. PICK la \in labels \X authors : new = [d EXCEPT !.labels = la[1], !.authors = la[2]]
    BY <1>2 DEF reverted
  <2> QED
    BY <2>1
<1>4. l \in SUBSET Labels
  BY DEF labels, patchLabels, ContentsOf, Contents, Docs
<1>5. a \in Seq(Authors)
  <2>1. p.before.authors \in Seq(Authors) /\ p.after.authors \in Seq(Authors)
        /\ d.authors \in Seq(Authors)
    BY DEF ContentsOf, Contents, Docs
  <2> QED
    BY <2>1, revertAuthorsType DEF authors
<1>6. e \in Humans => a = <<>>
  <2> SUFFICES ASSUME e \in Humans PROVE a = <<>>
    OBVIOUS
  <2>1. p.before.authors = <<>> /\ p.after.authors = <<>> /\ d.authors = <<>>
    BY DEF ContentsOf, Fits
  <2> QED
    BY <2>1 DEF authors, revertAuthors
<1>7. new \in Docs /\ new.redirect = d.redirect /\ new.authors = a
  BY <1>3, <1>4, <1>5 DEF Docs
<1> QED
  BY <1>2, <1>6, <1>7 DEF Fits, isRedirection

LEMMA RevertFromPatchDocKeepsInv ==
    ASSUME EntitiesInv, NEW s \in Slots, NEW j \in requests[s].jobs, RevertFromPatchDoc(s, j)
    PROVE  EntitiesInv'
<1> DEFINE patch == {p \in patches[j.id] : p.version = j.patch}
           reverted == UNION {revertPatch(docs[j.id], p) : p \in patch}
           d == docs[j.id]
<1>1. /\ JobOK(requests[s], j) /\ j \in Jobs /\ UNCHANGED <<docs, patches, items>>
      /\ j.id \in Ids
      /\ requests[s].stage = "turn" => j.id \in Humans
  BY DEF EntitiesInv, RequestOK, Requests, RevertFromPatchDoc, reads, JobOK
<1>2. d \in Docs /\ Fits(j.id, d) /\ Read(j.id, d)
  BY <1>1, CurrentDoc
<1>3. CASE reverted = {}
  <2>1. throws(s, j)
    BY <1>3 DEF RevertFromPatchDoc
  <2> QED
    BY <1>1, <2>1, ThrowKeepsInv
<1>4. CASE reverted # {}
  <2>1. PICK new \in reverted :
          follows(s, j, {[putUpdate(j.id, d, new, None) EXCEPT !.patch = j.patch]})
    BY <1>4 DEF RevertFromPatchDoc
  <2> DEFINE n == putUpdate(j.id, d, new, None)
             m == [n EXCEPT !.patch = j.patch]
  <2>2. ~isRedirection(d) /\ new \in Docs /\ Fits(j.id, new) /\ new.redirect = d.redirect
    <3>1. PICK p \in patch : new \in revertPatch(d, p)
      OBVIOUS
    <3>2. p.before \in ContentsOf(j.id) /\ p.after \in ContentsOf(j.id)
      BY <1>1 DEF EntitiesInv, EntityOK, Patches, ContentsOf
    <3> HIDE DEF d
    <3> QED
      BY <1>1, <1>2, <3>1, <3>2, revertPatchOK
  <2>3. JobOK(requests[s], n) /\ n \in Jobs /\ n.step = "put" /\ n.id = j.id
    <3>1. None \in Contexts
      BY DEF Contexts
    <3> HIDE DEF d
    <3> QED
      BY <1>1, <1>2, <2>2, <3>1, WriteOK
  <2> HIDE DEF n
  <2>4. m \in Jobs /\ m.step = "put" /\ m.id = j.id /\ m.doc = n.doc /\ m.new = n.new
    BY <1>1, <2>3 DEF Jobs
  <2> HIDE DEF m
  <2>5. JobOK(requests[s], m)
    BY <2>3, <2>4 DEF JobOK, Writes, KeepsRedirection, Redirects
  <2>6. follows(s, j, {m})
    BY <2>1 DEF n, m
  <2> QED
    BY <1>1, <2>4, <2>5, <2>6, FollowKeepsInv
<1> QED
  BY <1>3, <1>4

LEMMA redirectClaimType ==
    ASSUME NEW S, NEW authors \in Seq(S), NEW from, NEW to, from \in S => to \in S
    PROVE  /\ redirectClaim(authors, from, to) \subseteq Seq(S)
           /\ redirectClaim(authors, from, to) # {} => from \in ToSet(authors)
<1>1. CASE from \in ToSet(authors)
  <2>1. from \in S /\ to \in S
    BY <1>1 DEF ToSet
  <2>2. without(authors, from) \in Seq(S)
    BY withoutType
  <2>3. ReplaceAt(authors, indexOf(authors, from), to) \in Seq(S)
    <3>1. indexOf(authors, from) \in 1..Len(authors)
      BY <1>1, indexOfType
    <3> QED
      BY <2>1, <3>1 DEF ReplaceAt
  <2> QED
    BY <1>1, <2>2, <2>3 DEF redirectClaim
<1>2. CASE from \notin ToSet(authors)
  BY <1>2 DEF redirectClaim
<1> QED
  BY <1>1, <1>2

LEMMA applyRedirectionsType ==
    ASSUME NEW S, NEW authors \in Seq(S), NEW rows, NEW from, NEW to, from \in S => to \in S
    PROVE  /\ applyRedirections(authors, rows, from, to) \subseteq Seq(S)
           /\ applyRedirections(authors, rows, from, to) # {} => from \in ToSet(authors)
<1>1. /\ redirectClaim(authors, from, to) \subseteq Seq(S)
      /\ redirectClaim(authors, from, to) # {} => from \in ToSet(authors)
  BY redirectClaimType
<1>2. \A a \in redirectClaim(authors, from, to) : redirectClaim(a, from, to) \subseteq Seq(S)
  BY <1>1, redirectClaimType
<1>3. CASE rows = 1
  BY <1>1, <1>3 DEF applyRedirections
<1>4. CASE rows = 2
  BY <1>1, <1>2, <1>4 DEF applyRedirections
<1>5. CASE rows # 1 /\ rows # 2
  BY <1>5 DEF applyRedirections
<1> QED
  BY <1>3, <1>4, <1>5

\* The claims that are redirected are those of a document that is no redirection
LEMMA RedirectedClaimsOK ==
    ASSUME EntitiesInv, NEW r \in Requests, RequestOK(r), r.kind = "merge", NEW w \in Works,
           NEW rows, NEW a \in applyRedirections(docs[w].authors, rows, r.from, r.to),
           NEW q, NEW j,
           j = putUpdate(w, docs[w], [docs[w] EXCEPT !.authors = a], <<"redirectClaims", r.from>>)
    PROVE  JobOK(q, j) /\ j \in Jobs /\ j.step = "put"
<1> DEFINE d == docs[w]
           new == [d EXCEPT !.authors = a]
           context == <<"redirectClaims", r.from>>
<1>1. w \in Ids /\ d \in Docs /\ Fits(w, d) /\ Read(w, d) /\ d.authors \in Seq(Authors)
  BY CurrentDoc DEF Ids, Docs
<1>2. r.from \in Ids /\ r.to \in Uris /\ sameType(r.from, r.to)
  BY DEF RequestOK
<1>3. r.from \in Authors => r.to \in Authors
  BY <1>2, EntitiesAssumption DEF sameType, Authors, Ids, Uris, Wikidata
<1>4. a \in Seq(Authors) /\ r.from \in ToSet(d.authors)
  BY <1>1, <1>3, applyRedirectionsType
<1>5. ~isRedirection(d)
  <2>1. ToSet(<<>>) = {}
    BY DEF ToSet
  <2> QED
    BY <1>1, <1>4, <2>1 DEF Fits
<1>6. new \in Docs /\ new.redirect = d.redirect
  BY <1>1, <1>4 DEF Docs
<1>7. Fits(w, new)
  <2>1. w \notin Humans
    BY EntitiesAssumption
  <2> HIDE DEF new, d
  <2> QED
    BY <1>5, <1>6, <2>1 DEF Fits, isRedirection
<1>8. context \in Contexts
  BY <1>2 DEF Contexts
<1>9. j = putUpdate(w, d, new, context)
  OBVIOUS
<1> HIDE DEF new, d, context
<1> QED
  BY <1>1, <1>5, <1>6, <1>7, <1>8, <1>9, WriteOK

LEMMA rowsOfType ==
    ASSUME EntitiesInv, NEW uri
    PROVE  rowsOf(uri) \in UNION {[W -> Nat] : W \in SUBSET Works}
<1> DEFINE rows(w) == {n \in DOMAIN docs[w].authors : docs[w].authors[n] = uri}
<1>1. ASSUME NEW w \in Works PROVE Cardinality(rows(w)) \in Nat
  <2>1. docs[w].authors \in Seq(Authors)
    BY CurrentDoc DEF Ids, Docs
  <2>2. IsFiniteSet(1..Len(docs[w].authors)) /\ rows(w) \subseteq 1..Len(docs[w].authors)
    BY <2>1, FS_Interval
  <2> HIDE DEF rows
  <2> QED
    BY <2>2, FS_Subset, FS_CardinalityType
<1>2. rowsOf(uri) = [w \in byClaimsValue(uri) |-> Cardinality(rows(w))]
  BY DEF rowsOf
<1>3. byClaimsValue(uri) \subseteq Works
  BY DEF byClaimsValue
<1> HIDE DEF rows
<1> QED
  BY <1>1, <1>2, <1>3

LEMMA RedirectClaimsKeepsInv ==
    ASSUME EntitiesInv, NEW s \in Slots, NEW j \in requests[s].jobs, RedirectClaims(s, j)
    PROVE  EntitiesInv'
<1> DEFINE r == requests[s]
           updates(w) == {[docs[w] EXCEPT !.authors = a] :
                            a \in applyRedirections(docs[w].authors, r.found[w], r.from, r.to)}
           context == <<"redirectClaims", r.from>>
           puts == UNION {{putUpdate(w, docs[w], new, context) : new \in updates(w)} :
                            w \in DOMAIN r.found}
<1>1. /\ r \in Requests /\ RequestOK(r) /\ JobOK(r, j) /\ UNCHANGED <<docs, patches, items>>
      /\ r.kind = "merge" /\ r.stage = "end" /\ r.jobs \in SUBSET Jobs
  BY DEF EntitiesInv, RequestOK, Requests, RedirectClaims, reads, JobOK
<1>2. ASSUME NEW found \in UNION {[W -> Nat] : W \in SUBSET Works}, NEW next \in SUBSET Jobs,
             \A n \in next : n.step # "patch" /\ JobOK(r, n),
             goes(s, [r EXCEPT !.found = found, !.jobs = (r.jobs \ {j}) \cup next])
      PROVE  EntitiesInv'
  <2> DEFINE q == [r EXCEPT !.found = found, !.jobs = (r.jobs \ {j}) \cup next]
  <2>1. q \in Requests
    <3>1. (r.jobs \ {j}) \cup next \in SUBSET Jobs
      BY <1>1
    <3> HIDE DEF r
    <3> QED
      BY <1>1, <3>1 DEF Requests
  <2>2. /\ q.kind = "merge" /\ q.stage = "end" /\ q.from = r.from /\ q.to = r.to
        /\ q.copies = r.copies /\ q.jobs = (r.jobs \ {j}) \cup next
    BY <1>1 DEF Requests
  <2>3. goes(s, q)
    BY <1>2
  <2> HIDE DEF q
  <2>4. ASSUME NEW n \in q.jobs PROVE JobOK(q, n)
    <3>1. JobOK(r, n)
      BY <1>1, <1>2, <2>2 DEF RequestOK
    <3> QED
      BY <1>1, <2>2, <3>1 DEF JobOK, Writes, KeepsRedirection, Redirects
  <2>5. RequestOK(q)
    BY <1>1, <2>2, <2>4 DEF RequestOK
  <2>6. \A n \in q.jobs : n.step = "patch" => n \in r.jobs
    BY <1>2, <2>2
  <2> HIDE DEF r
  <2> QED
    BY <1>1, <2>1, <2>3, <2>5, <2>6, RequestStep DEF r
<1>3. CASE j.step = "claims"
  <2> DEFINE next == {Job("redirectClaims", NoUri)}
  <2>1. next \in SUBSET Jobs /\ \A n \in next : n.step = "redirectClaims"
    BY JobType DEF Steps
  <2>2. rowsOf(r.from) \in UNION {[W -> Nat] : W \in SUBSET Works}
    BY rowsOfType
  <2>3. goes(s, [r EXCEPT !.found = rowsOf(r.from), !.jobs = (r.jobs \ {j}) \cup next])
    BY <1>3 DEF RedirectClaims
  <2>4. \A n \in next : JobOK(r, n)
    BY <1>1, <2>1 DEF JobOK
  <2> HIDE DEF next, r
  <2> QED
    BY <1>2, <2>1, <2>2, <2>3, <2>4
<1>4. CASE j.step # "claims" /\ \E w \in DOMAIN r.found : updates(w) = {}
  <2>1. throws(s, j)
    BY <1>4 DEF RedirectClaims
  <2> QED
    BY <1>1, <2>1, ThrowKeepsInv
<1>5. CASE j.step # "claims" /\ ~\E w \in DOMAIN r.found : updates(w) = {}
  <2>1. goes(s, [r EXCEPT !.found = <<>>, !.jobs = (r.jobs \ {j}) \cup puts])
    BY <1>5 DEF RedirectClaims
  <2>2. DOMAIN r.found \subseteq Works
    BY <1>1 DEF Requests
  <2>3. ASSUME NEW n \in puts PROVE JobOK(r, n) /\ n \in Jobs /\ n.step = "put"
    <3>1. PICK w \in DOMAIN r.found : \E new \in updates(w) :
                  n = putUpdate(w, docs[w], new, context)
      OBVIOUS
    <3>2. PICK a \in applyRedirections(docs[w].authors, r.found[w], r.from, r.to) :
                  n = putUpdate(w, docs[w], [docs[w] EXCEPT !.authors = a], context)
      BY <3>1
    <3> HIDE DEF r
    <3> QED
      BY <1>1, <2>2, <3>2, RedirectedClaimsOK
  <2> HIDE DEF puts
  <2>4. puts \in SUBSET Jobs /\ <<>> \in UNION {[W -> Nat] : W \in SUBSET Works}
    <3>1. <<>> \in [{} -> Nat]
      OBVIOUS
    <3> QED
      BY <2>3, <3>1
  <2>5. \A n \in puts : n.step # "patch" /\ JobOK(r, n)
    BY <2>3
  <2> HIDE DEF r
  <2> QED
    BY <1>2, <2>1, <2>4, <2>5
<1> QED
  BY <1>3, <1>4, <1>5

LEMMA AfterMergeKeepsInv ==
    ASSUME EntitiesInv, NEW s \in Slots, NEW j \in requests[s].jobs, AfterMerge(s, j)
    PROVE  EntitiesInv'
<1> DEFINE r == requests[s]
           found == {i \in Items : items[i].entity = r.from}
           copies == copiesOf(found)
           bulk == Job("bulk", NoUri)
           q == [r EXCEPT !.copies = copies, !.jobs = (r.jobs \ {j}) \cup {bulk}]
<1>1. /\ r \in Requests /\ RequestOK(r) /\ JobOK(r, j) /\ UNCHANGED <<docs, patches, items>>
      /\ r.kind = "merge" /\ r.stage = "end" /\ r.jobs \in SUBSET Jobs /\ goes(s, q)
  BY DEF EntitiesInv, RequestOK, Requests, AfterMerge, reads, JobOK
<1>2. /\ copies \in UNION {[I -> ItemDocs] : I \in SUBSET Items}
      /\ \A i \in DOMAIN copies : copies[i].entity = r.from
  <2>1. found \in SUBSET Items /\ \A i \in found : items[i].entity = r.from
    OBVIOUS
  <2> HIDE DEF found
  <2> QED
    BY <2>1, CopiesType
<1>3. bulk \in Jobs /\ bulk.step = "bulk"
  BY JobType DEF Steps
<1> HIDE DEF copies, bulk
<1>4. q \in Requests
  <2>1. (r.jobs \ {j}) \cup {bulk} \in SUBSET Jobs
    BY <1>1, <1>3
  <2> HIDE DEF r
  <2> QED
    BY <1>1, <1>2, <2>1 DEF Requests
<1>5. /\ q.kind = "merge" /\ q.stage = "end" /\ q.from = r.from /\ q.to = r.to
      /\ q.copies = copies /\ q.jobs = (r.jobs \ {j}) \cup {bulk}
  BY <1>1 DEF Requests
<1>6. goes(s, q)
  BY <1>1
<1> HIDE DEF q
<1>7. ASSUME NEW n \in q.jobs PROVE JobOK(q, n)
  <2>1. JobOK(r, n)
    BY <1>1, <1>3, <1>5 DEF RequestOK, JobOK
  <2> QED
    BY <1>1, <1>5, <2>1 DEF JobOK, Writes, KeepsRedirection, Redirects
<1>8. RequestOK(q)
  BY <1>1, <1>2, <1>5, <1>7 DEF RequestOK
<1>9. \A n \in q.jobs : n.step = "patch" => n \in r.jobs
  BY <1>3, <1>5
<1> HIDE DEF r
<1> QED
  BY <1>1, <1>4, <1>6, <1>8, <1>9, RequestStep DEF r

LEMMA ItemsUpdates ==
    ASSUME NEW i \in ItemDocs
    PROVE  /\ \A to \in Works \cup WdWorks : i.entity \in Works => updateEntity(i, to) \in ItemDocs
           /\ i.previousEntity # <<>> => revertEntity(i) \in ItemDocs
<1>1. ASSUME NEW to \in Works \cup WdWorks, i.entity \in Works
      PROVE  updateEntity(i, to) \in ItemDocs
  <2>1. <<i.entity>> \o i.previousEntity \in Seq(Works) /\ i.version + 1 \in Nat
    BY <1>1 DEF ItemDocs
  <2> QED
    BY <1>1, <2>1 DEF updateEntity, ItemDocs
<1>2. ASSUME i.previousEntity # <<>> PROVE revertEntity(i) \in ItemDocs
  <2>1. i.previousEntity \in Seq(Works)
    BY DEF ItemDocs
  <2>2. Head(i.previousEntity) \in Works /\ Tail(i.previousEntity) \in Seq(Works)
        /\ i.version + 1 \in Nat
    BY <1>2, <2>1 DEF ItemDocs
  <2> QED
    BY <2>2 DEF revertEntity, ItemDocs
<1> QED
  BY <1>1, <1>2

LEMMA BulkKeepsInv ==
    ASSUME EntitiesInv, NEW s \in Slots, NEW j \in requests[s].jobs, Bulk(s, j)
    PROVE  EntitiesInv'
<1> DEFINE r == requests[s]
           fresh == {i \in DOMAIN r.copies : items[i].version = r.copies[i].version}
           update(i) == IF r.kind = "merge" THEN updateEntity(i, r.to) ELSE revertEntity(i)
           q == [r EXCEPT !.jobs = r.jobs \ {j}, !.copies = <<>>,
                          !.failed = r.failed \/ fresh # DOMAIN r.copies]
<1>1. /\ r \in Requests /\ RequestOK(r) /\ JobOK(r, j) /\ UNCHANGED <<docs, patches>>
      /\ r.kind \in {"merge", "revert"} /\ r.jobs \in SUBSET Jobs /\ goes(s, q)
      /\ items' = [i \in Items |-> IF i \in fresh THEN update(r.copies[i]) ELSE items[i]]
  BY DEF EntitiesInv, RequestOK, Requests, Bulk, JobOK
<1>2. ASSUME NEW i \in DOMAIN r.copies PROVE update(r.copies[i]) \in ItemDocs
  <2>1. r.copies[i] \in ItemDocs
    BY <1>1 DEF Requests
  <2>2. CASE r.kind = "merge"
    <3>1. r.from \in Ids /\ r.to \in Uris /\ sameType(r.from, r.to) /\ r.copies[i].entity = r.from
      BY <1>1, <2>2 DEF RequestOK
    <3>2. r.from \in Works
      BY <2>1, <3>1, EntitiesAssumption DEF ItemDocs, Ids
    <3>3. r.to \in Works \cup WdWorks
      BY <3>1, <3>2 DEF sameType
    <3> QED
      BY <2>1, <2>2, <3>1, <3>2, <3>3, ItemsUpdates
  <2>3. CASE r.kind = "revert"
    BY <1>1, <2>1, <2>3, ItemsUpdates DEF RequestOK
  <2> QED
    BY <1>1, <2>2, <2>3
<1> HIDE DEF update
<1>3. items' \in [Items -> ItemDocs]
  BY <1>1, <1>2 DEF EntitiesInv
<1>4. q \in Requests
  <2>1. <<>> \in UNION {[I -> ItemDocs] : I \in SUBSET Items}
    <3>1. <<>> \in [{} -> ItemDocs]
      OBVIOUS
    <3> QED
      BY <3>1
  <2>2. (r.failed \/ fresh # DOMAIN r.copies) \in BOOLEAN /\ r.jobs \ {j} \in SUBSET Jobs
    BY <1>1
  <2> HIDE DEF r, fresh
  <2> QED
    BY <1>1, <2>1, <2>2 DEF Requests
<1>5. /\ q.kind = r.kind /\ q.stage = r.stage /\ q.from = r.from /\ q.to = r.to
      /\ q.copies = <<>> /\ q.doc = r.doc /\ q.change = r.change /\ q.jobs = r.jobs \ {j}
  BY <1>1 DEF Requests
<1>6. goes(s, q)
  BY <1>1
<1> HIDE DEF q
<1>7. RequestOK(q)
  <2>1. \A n \in q.jobs : JobOK(q, n)
    BY <1>1, <1>5 DEF RequestOK, JobOK, Writes, KeepsRedirection, Redirects
  <2> QED
    BY <1>1, <1>5, <2>1 DEF RequestOK
<1>8. \A n \in q.jobs : n.step = "patch" => n \in r.jobs
  BY <1>5
<1> HIDE DEF r
<1> QED
  BY <1>1, <1>3, <1>4, <1>6, <1>7, <1>8, RequestAndItemsStep DEF r

\* A document is written: what others have read of it is older
LEMMA PutDocKeepsInv ==
    ASSUME EntitiesInv, NEW s \in Slots, NEW j \in requests[s].jobs, PutDoc(s, j)
    PROVE  EntitiesInv'
<1> DEFINE e == j.id
<1>1. PICK r \in Requests : r = requests[s]
  BY DEF EntitiesInv
<1>2. /\ r \in Requests /\ RequestOK(r) /\ JobOK(r, j) /\ UNCHANGED <<patches, items>>
      /\ r.jobs \in SUBSET Jobs /\ j \in Jobs /\ j.step = "put"
  BY <1>1 DEF EntitiesInv, RequestOK, Requests, PutDoc
<1>3. CASE docs[e].version # j.doc.version
  <2>1. UNCHANGED <<docs, patches, items>>
    BY <1>2, <1>3 DEF PutDoc
  <2>2. CASE r.kind = "edit"
    <3> DEFINE q == [r EXCEPT !.jobs = {}, !.stage = "read"]
    <3>1. goes(s, q)
      BY <1>3, <1>1, <2>2 DEF PutDoc
    <3>2. q \in Requests
      <4>1. "read" \in Stages
        BY DEF Stages
      <4> HIDE DEF Stages
      <4> QED
        BY <1>2, <4>1 DEF Requests
    <3>3. q.kind = "edit" /\ q.stage = "read" /\ q.from = r.from /\ q.change = r.change
          /\ q.jobs = {}
      BY <1>2, <2>2 DEF Requests
    <3> HIDE DEF q
    <3>4. RequestOK(q)
      BY <1>2, <2>2, <3>3 DEF RequestOK
    <3> QED
      BY <1>1, <2>1, <3>1, <3>2, <3>3, <3>4, RequestStep
  <2>3. CASE r.kind # "edit"
    <3>1. throws(s, j)
      BY <1>3, <1>1, <2>3 DEF PutDoc
    <3> QED
      BY <2>1, <3>1, ThrowKeepsInv
  <2> QED
    BY <2>2, <2>3
<1>4. CASE docs[e].version = j.doc.version
  <2> DEFINE m == [j EXCEPT !.step = "patch"]
             q == [r EXCEPT !.jobs = (r.jobs \ {j}) \cup {m}]
             p0 == getDiff(j.doc, j.new, j.context)
  <2>1. docs' = [docs EXCEPT ![e] = j.new] /\ goes(s, q)
    BY <1>4, <1>1 DEF PutDoc, follows
  <2>2. /\ e \in Ids /\ j.doc = docs[e] /\ j.new.version = docs[e].version + 1
        /\ j.new \in Docs /\ Fits(e, j.new) /\ j.doc \in Docs /\ Writes(r, j)
        /\ docs[e].version \in Nat /\ docs[e].version >= 2
    BY <1>2, <1>4 DEF JobOK, Writes, Read, Jobs, Docs
  <2>3. /\ docs' = [x \in Ids |-> docs'[x]] /\ docs'[e] = j.new
        /\ \A x \in Ids : x # e => docs'[x] = docs[x]
    BY <2>1, <2>2 DEF EntitiesInv
  <2>4. \A x \in Ids : docs'[x] # docs[x] => docs'[x].version = docs[x].version + 1
    BY <2>2, <2>3
  <2>5. /\ m \in Jobs /\ m.step = "patch" /\ m.id = e /\ m.doc = j.doc /\ m.new = j.new
        /\ m.context = j.context
    BY <1>2 DEF Jobs, Steps
  <2> HIDE DEF m
  <2>6. q \in Requests
    <3>1. (r.jobs \ {j}) \cup {m} \in SUBSET Jobs
      BY <1>2, <2>5
    <3> QED
      BY <1>2, <3>1 DEF Requests
  <2>7. /\ q.kind = r.kind /\ q.stage = r.stage /\ q.from = r.from /\ q.to = r.to
        /\ q.copies = r.copies /\ q.doc = r.doc /\ q.change = r.change
        /\ q.jobs = (r.jobs \ {j}) \cup {m}
    BY <1>2 DEF Requests
  <2>8. /\ requests' \in [Slots -> Requests]
        /\ \A t \in Slots : requests'[t] = IF t = s THEN q ELSE requests[t]
    BY <2>1, <2>6 DEF EntitiesInv, goes
  <2> HIDE DEF q
  <2>9. RequestOK(q)'
    <3>1. RequestOK(r)'
      BY <1>2, <2>4, OlderRequestOK
    <3>2. \A n \in r.jobs : JobOK(r, n)'
      BY <3>1 DEF RequestOK
    <3>3. JobOK(q, m)'
      <4>1. Writes(q, m)'
        BY <2>2, <2>3, <2>5 DEF Writes, Docs
      <4>2. m.new.version \in 2..docs'[m.id].version
        BY <2>2, <2>3, <2>5
      <4> QED
        BY <2>5, <4>1, <4>2 DEF JobOK
    <3>4. \A n \in r.jobs : JobOK(q, n)'
      BY <2>7, <3>2 DEF JobOK, Writes, KeepsRedirection, Redirects
    <3>5. \A n \in q.jobs : JobOK(q, n)'
      BY <2>7, <3>3, <3>4
    <3>6. q.stage = "turn" => \A n \in q.jobs : n.id \in Humans
      BY <1>1, <1>2, <2>5, <2>7 DEF RequestOK
    <3>7. r.kind # "none"
      BY <1>1, <1>2 DEF RequestOK
    <3> QED
      BY <2>7, <3>1, <3>5, <3>6, <3>7 DEF RequestOK
  <2>10. ASSUME NEW t \in Slots PROVE RequestOK(requests[t])'
    <3>1. CASE t = s
      BY <2>8, <2>9, <3>1
    <3>2. CASE t # s
      <4>1. requests[t] \in Requests /\ RequestOK(requests[t]) /\ requests'[t] = requests[t]
        BY <2>8, <3>2 DEF EntitiesInv
      <4>2. RequestOK(requests[t]) => \A r0 \in {requests[t]} : RequestOK(r0)'
        BY <2>4, <4>1, OlderRequestOK
      <4> QED
        BY <4>1, <4>2
    <3> QED
      BY <3>1, <3>2
  <2>11. ASSUME NEW x \in Ids
         PROVE  written(x)' \subseteq written(x) \cup (IF x = e THEN {p0} ELSE {})
    <3>1. writing(x)' \subseteq writing(x) \cup (IF x = e THEN {m} ELSE {})
      BY <1>1, <2>5, <2>7, <2>8 DEF writing
    <3>2. getDiff(m.doc, m.new, m.context) = p0
      BY <2>5
    <3> QED
      BY <1>2, <3>1, <3>2 DEF written
  <2>12. EntityOK(e)'
    <3>1. EntityOK(e)
      BY <2>2 DEF EntitiesInv
    <3>2. /\ p0.version = docs[e].version + 1 /\ p0.before = versionned(docs[e])
          /\ p0.after = versionned(j.new)
      BY <2>2 DEF getDiff
    <3>3. \A p \in written(e) : p.version \in 2..docs[e].version
               /\ (p.version = docs[e].version => p.after = versionned(docs[e]))
      BY <3>1 DEF EntityOK, Follow
    <3>4. \A p, q0 \in written(e) : (q0.version = p.version + 1 => q0.before = p.after)
                                   /\ (q0.version = p.version => q0 = p)
      BY <3>1 DEF EntityOK, Follow
    <3>5. docs'[e].version = docs[e].version + 1
      BY <2>2, <2>3
    <3>6. versionned(docs[e])' = versionned(j.new)
      BY <2>3
    <3>7. \A p \in written(e)' : p \in written(e) \/ p = p0
      BY <2>2, <2>11
    <3> HIDE DEF p0, e
    <3>8. \A p \in written(e)' : p.version \in 2..docs'[e].version
               /\ (p.version = docs'[e].version => p.after = versionned(docs[e])')
      BY <2>2, <3>2, <3>3, <3>5, <3>6, <3>7
    <3>9. \A p, q0 \in written(e)' : (q0.version = p.version + 1 => q0.before = p.after)
                                    /\ (q0.version = p.version => q0 = p)
      BY <2>2, <3>2, <3>3, <3>4, <3>7
    <3>10. \E p \in patches'[e] : Creation(p)
      BY <1>2, <3>1 DEF EntityOK, Follow
    <3>11. Follow(e)'
      BY <3>8, <3>9, <3>10 DEF Follow
    <3> QED
      BY <1>2, <2>2, <2>3, <3>1, <3>5, <3>11 DEF EntityOK
  <2>13. ASSUME NEW x \in Ids, x # e PROVE EntityOK(x)'
    <3>1. EntityOK(x) /\ written(x)' \subseteq written(x) /\ docs'[x] = docs[x]
      BY <2>3, <2>11, <2>13 DEF EntitiesInv
    <3> HIDE DEF e
    <3>2. Follow(x)'
      BY <1>2, <3>1 DEF EntityOK, Follow
    <3> QED
      BY <1>2, <3>1, <3>2 DEF EntityOK
  <2> QED
    BY <1>2, <2>3, <2>8, <2>10, <2>12, <2>13 DEF EntitiesInv
<1> QED
  BY <1>3, <1>4

LEMMA CreatePatchKeepsInv ==
    ASSUME EntitiesInv, NEW s \in Slots, NEW j \in requests[s].jobs, CreatePatch(s, j)
    PROVE  EntitiesInv'
<1> DEFINE p0 == getDiff(j.doc, j.new, j.context)
           e == j.id
<1>1. PICK r \in Requests : r = requests[s]
  BY DEF EntitiesInv
<1>2. /\ RequestOK(r) /\ JobOK(r, j) /\ UNCHANGED <<docs, items>> /\ j \in r.jobs
      /\ r.jobs \in SUBSET Jobs /\ j \in Jobs /\ j.step = "patch" /\ r.kind # "none"
  BY <1>1 DEF EntitiesInv, RequestOK, Requests, CreatePatch
<1>3. CASE versionned(j.doc) = versionned(j.new)
  BY <1>2, <1>3, ThrowKeepsInv DEF CreatePatch
<1>4. CASE versionned(j.doc) # versionned(j.new)
  <2> DEFINE removed == IF r.stage = "turn" THEN r.removed \cup {e} ELSE r.removed
             q == [r EXCEPT !.jobs = r.jobs \ {j}, !.removed = removed]
  <2>1. patches' = [patches EXCEPT ![e] = @ \cup {p0}] /\ goes(s, q)
    BY <1>1, <1>4 DEF CreatePatch
  <2>2. /\ e \in Ids /\ j.new.version = j.doc.version + 1 /\ j.context \in Contexts
        /\ j.doc \in Docs /\ j.new \in Docs /\ Fits(e, j.doc) /\ Fits(e, j.new)
        /\ j.new.version \in 2..docs[e].version
    BY <1>2 DEF JobOK, Writes, Jobs
  <2>3. r.stage = "turn" => e \in Humans
    BY <1>2 DEF RequestOK
  <2>4. p0 \in Patches /\ Fits(e, p0.before) /\ Fits(e, p0.after)
    <3> DEFINE V(d) == versionned(d)
    <3>1. ASSUME NEW d \in Docs, Fits(e, d) PROVE V(d) \in Contents /\ Fits(e, V(d))
      BY <3>1 DEF versionned, Docs, Contents, Fits, isRedirection
    <3> HIDE DEF V
    <3>2. p0 = [version |-> j.new.version, before |-> V(j.doc), after |-> V(j.new),
                context |-> j.context]
      BY DEF getDiff, V
    <3>3. V(j.doc) \in Contents /\ V(j.new) \in Contents /\ Fits(e, V(j.doc))
          /\ Fits(e, V(j.new)) /\ j.new.version \in Nat
      BY <2>2, <3>1
    <3> HIDE DEF p0, e
    <3> QED
      BY <2>2, <3>2, <3>3 DEF Patches
  <2>5. q \in Requests
    <3>1. removed \in SUBSET Humans /\ r.jobs \ {j} \in SUBSET Jobs
      BY <1>2, <2>3 DEF Requests
    <3> HIDE DEF removed
    <3> QED
      BY <1>2, <3>1 DEF Requests
  <2>6. /\ q.kind = r.kind /\ q.stage = r.stage /\ q.from = r.from /\ q.to = r.to
        /\ q.copies = r.copies /\ q.doc = r.doc /\ q.change = r.change
        /\ q.jobs = r.jobs \ {j}
    BY <1>1 DEF Requests
  <2>7. /\ requests' \in [Slots -> Requests]
        /\ \A t \in Slots : requests'[t] = IF t = s THEN q ELSE requests[t]
    BY <2>1, <2>5 DEF EntitiesInv, goes
  <2> HIDE DEF q
  <2>8. RequestOK(q)
    <3>1. \A n \in q.jobs : JobOK(q, n)
      BY <1>2, <2>6 DEF RequestOK, JobOK, Writes, KeepsRedirection, Redirects
    <3> QED
      BY <1>2, <2>6, <3>1 DEF RequestOK
  <2>9. ASSUME NEW t \in Slots PROVE RequestOK(requests[t])'
    <3>1. RequestOK(requests'[t])
      BY <2>7, <2>8 DEF EntitiesInv
    <3> QED
      BY <1>2, <3>1 DEF RequestOK, JobOK, Writes, Read, KeepsRedirection, Redirects
  <2>10. /\ patches' = [x \in Ids |-> patches'[x]] /\ patches'[e] = patches[e] \cup {p0}
         /\ \A x \in Ids : x # e => patches'[x] = patches[x]
    BY <2>1, <2>2 DEF EntitiesInv
  <2>11. ASSUME NEW x \in Ids PROVE written(x)' \subseteq written(x)
    <3>1. writing(x)' \subseteq writing(x)
      BY <1>1, <2>6, <2>7 DEF writing
    <3>2. p0 \in written(e)
      <4>1. j \in writing(e)
        BY <1>1, <1>2 DEF writing
      <4> QED
        BY <4>1 DEF written
    <3>3. patches'[x] \subseteq written(x)
      BY <2>10, <3>2 DEF written
    <3> QED
      BY <3>1, <3>3 DEF written
  <2>12. ASSUME NEW x \in Ids PROVE EntityOK(x)'
    <3>1. EntityOK(x)
      BY DEF EntitiesInv
    <3>2. patches[x] \subseteq patches'[x]
      BY <2>10
    <3>3. Follow(x)'
      BY <1>2, <2>11, <3>1, <3>2 DEF EntityOK, Follow
    <3>4. \A p \in patches'[x] : p \in patches[x] \/ (x = e /\ p = p0)
      <4> HIDE DEF p0, e
      <4>1. CASE x = e
        BY <2>10, <4>1
      <4>2. CASE x # e
        BY <2>10, <4>2
      <4> QED
        BY <4>1, <4>2
    <3>5. patches'[x] \subseteq Patches
          /\ \A p \in patches'[x] : Fits(x, p.before) /\ Fits(x, p.after)
      BY <2>4, <3>1, <3>4 DEF EntityOK
    <3> QED
      BY <1>2, <3>1, <3>3, <3>5 DEF EntityOK
  <2> QED
    BY <1>2, <2>7, <2>9, <2>10, <2>12 DEF EntitiesInv
<1> QED
  BY <1>3, <1>4

-----------------------------------------------------------------------------
(* The specification *)

LEMMA FinishKeepsInv ==
    ASSUME EntitiesInv, NEW s \in Slots, Finish(s)
    PROVE  EntitiesInv'
<1>1. goes(s, NoRequest) /\ UNCHANGED <<docs, patches, items>>
  BY DEF Finish
<1>2. NoRequest \in Requests
  BY NoDocType
<1>3. NoRequest.kind = "none" /\ NoRequest.stage = "none" /\ NoRequest.jobs = {}
  BY DEF NoRequest
<1>4. RequestOK(NoRequest)
  BY <1>3 DEF RequestOK
<1> QED
  BY <1>1, <1>2, <1>3, <1>4, RequestStep

LEMMA CrashKeepsInv ==
    ASSUME EntitiesInv, Crash
    PROVE  EntitiesInv'
<1>1. /\ requests' = [s \in Slots |-> NoRequest] /\ UNCHANGED <<docs, patches, items>>
      /\ requests' \in [Slots -> Requests]
  BY NoDocType DEF Crash
<1>2. NoRequest.kind = "none" /\ NoRequest.stage = "none" /\ NoRequest.jobs = {}
  BY DEF NoRequest
<1>3. ASSUME NEW e \in Ids PROVE EntityOK(e)'
  <2>1. written(e)' = patches[e]
    BY <1>1, <1>2 DEF written, writing
  <2>2. EntityOK(e) /\ patches[e] \subseteq written(e)
    BY DEF EntitiesInv, written
  <2>3. Follow(e)'
    BY <1>1, <2>1, <2>2 DEF EntityOK, Follow
  <2> QED
    BY <1>1, <2>2, <2>3 DEF EntityOK
<1>4. ASSUME NEW s \in Slots PROVE RequestOK(requests[s])'
  <2>1. requests'[s].kind = "none" /\ requests'[s].stage = "none" /\ requests'[s].jobs = {}
    BY <1>1, <1>2
  <2> QED
    BY <2>1 DEF RequestOK
<1> QED
  BY <1>1, <1>3, <1>4 DEF EntitiesInv

LEMMA InitEstablishesInv == Init => EntitiesInv
<1> SUFFICES ASSUME Init PROVE EntitiesInv
  OBVIOUS
<1> DEFINE C(labels, authors, e) ==
               [create EXCEPT !.labels = IF e \in Labelled THEN labels[e] ELSE {},
                              !.authors = IF e \in Works THEN authors[e] ELSE <<>>]
<1>1. PICK labels \in [Ids -> SUBSET Labels],
           authors \in [Works -> {<<>>} \cup {<<h>> : h \in Humans}] :
             docs = [e \in Ids |-> documentOf(C(labels, authors, e), 2)]
  BY DEF Init
<1>2. /\ patches = [e \in Ids |-> {getDiff(NoDoc, docs[e], None)}]
      /\ items \in [Items -> [entity : Works, previousEntity : {<<>>}, version : {1}]]
      /\ requests = [s \in Slots |-> NoRequest]
  BY DEF Init
<1>3. ASSUME NEW e \in Ids PROVE EntityOK(e)
  <2> DEFINE c == C(labels, authors, e)
             p == getDiff(NoDoc, docs[e], None)
  <2>1. /\ c.type = "entity" /\ c.redirect = NoUri
        /\ c.labels = (IF e \in Labelled THEN labels[e] ELSE {})
        /\ c.authors = (IF e \in Works THEN authors[e] ELSE <<>>)
    BY DEF create
  <2>2. c.labels \in SUBSET Labels
    BY <2>1
  <2>3. c.authors \in Seq(Authors)
    <3>1. \A h \in Humans : <<h>> \in Seq(Authors)
      BY DEF Authors
    <3>2. <<>> \in Seq(Authors)
      OBVIOUS
    <3> HIDE DEF c
    <3>3. CASE e \in Works
      <4>1. authors[e] \in {<<>>} \cup {<<h>> : h \in Humans}
        BY <3>3
      <4> QED
        BY <2>1, <3>1, <3>2, <3>3, <4>1
    <3> QED
      BY <2>1, <3>2, <3>3
  <2>4. e \in Humans => c.authors = <<>>
    BY <2>1, EntitiesAssumption
  <2>5. docs[e] = documentOf(c, 2)
    BY <1>1
  <2> HIDE DEF c
  <2>6. /\ docs[e].type = "entity" /\ docs[e].redirect = NoUri /\ docs[e].version = 2
        /\ docs[e].labels = c.labels /\ docs[e].authors = c.authors
    BY <2>1, <2>5 DEF documentOf
  <2>7. docs[e] \in Docs
    BY <2>1, <2>2, <2>3, <2>5 DEF documentOf, Docs
  <2>8. Fits(e, docs[e])
    BY <2>4, <2>6 DEF Fits, isRedirection
  <2>9. /\ p.version = 2 /\ p.before = versionned(NoDoc) /\ p.after = versionned(docs[e])
        /\ p.context = None
    BY <2>6 DEF getDiff
  <2>10. versionned(NoDoc) \in Contents /\ versionned(docs[e]) \in Contents
    BY <2>7, NoDocType DEF versionned, Docs, Contents
  <2>11. p \in Patches
    <3>1. p = [version |-> p.version, before |-> p.before, after |-> p.after,
               context |-> p.context]
      BY DEF getDiff
    <3> HIDE DEF p
    <3> QED
      BY <2>9, <2>10, <3>1 DEF Patches, Contexts
  <2>12. patches[e] = {p}
    BY <1>2
  <2> HIDE DEF p
  <2>13. writing(e) = {}
    <3>1. NoRequest.jobs = {}
      BY DEF NoRequest
    <3> QED
      BY <1>2, <3>1 DEF writing
  <2>14. written(e) = {p}
    BY <2>12, <2>13 DEF written
  <2>15. Fits(e, p.before) /\ Fits(e, p.after)
    BY <2>8, <2>9 DEF Fits, versionned, isRedirection, NoDoc, documentOf, create
  <2>16. Creation(p)
    BY <2>6, <2>9 DEF Creation, versionned, isRedirection
  <2>17. Follow(e)
    BY <2>6, <2>9, <2>12, <2>14, <2>16 DEF Follow
  <2> QED
    BY <2>6, <2>7, <2>8, <2>11, <2>12, <2>15, <2>17 DEF EntityOK
<1>4. items \in [Items -> ItemDocs]
  <2>1. [entity : Works, previousEntity : {<<>>}, version : {1}] \subseteq ItemDocs
    <3> SUFFICES ASSUME NEW i \in [entity : Works, previousEntity : {<<>>}, version : {1}]
                 PROVE  i \in ItemDocs
      OBVIOUS
    <3>1. i = [entity |-> i.entity, previousEntity |-> i.previousEntity, version |-> i.version]
      OBVIOUS
    <3>2. i.entity \in Works /\ i.previousEntity = <<>> /\ i.version = 1
      OBVIOUS
    <3>3. \A w \in Works, p \in Seq(Works), v \in Nat :
              [entity |-> w, previousEntity |-> p, version |-> v] \in ItemDocs
      BY DEF ItemDocs
    <3>4. <<>> \in Seq(Works) /\ 1 \in Nat
      OBVIOUS
    <3> HIDE DEF ItemDocs
    <3> QED
      BY <3>1, <3>2, <3>3, <3>4
  <2> QED
    BY <1>2, <2>1
<1>5. ASSUME NEW s \in Slots PROVE requests[s] \in Requests /\ RequestOK(requests[s])
  <2>1. NoRequest.kind = "none" /\ NoRequest.stage = "none" /\ NoRequest.jobs = {}
    BY DEF NoRequest
  <2>2. RequestOK(NoRequest)
    BY <2>1 DEF RequestOK
  <2> QED
    BY <1>2, <2>2, NoDocType
<1>6. docs = [e \in Ids |-> docs[e]] /\ patches = [e \in Ids |-> patches[e]]
  BY <1>1, <1>2
<1>7. requests \in [Slots -> Requests]
  BY <1>2, NoDocType
<1> QED
  BY <1>3, <1>4, <1>5, <1>6, <1>7 DEF EntitiesInv

LEMMA NextKeepsInv == EntitiesInv /\ [Next]_vars => EntitiesInv'
<1> SUFFICES ASSUME EntitiesInv, [Next]_vars PROVE EntitiesInv'
  OBVIOUS
<1>1. ASSUME NEW s \in Slots, NEW j \in requests[s].jobs,
             \/ PutDoc(s, j) \/ CreatePatch(s, j)
             \/ DeleteIfIsolated(s, j) \/ RemovePlaceholder(s, j) \/ RecoverPlaceholder(s, j)
             \/ RevertFromPatchDoc(s, j)
             \/ RedirectClaims(s, j) \/ AfterMerge(s, j) \/ Bulk(s, j)
      PROVE  EntitiesInv'
  BY <1>1, PutDocKeepsInv, CreatePatchKeepsInv, PlaceholderJobsKeepInv,
     RevertFromPatchDocKeepsInv, RedirectClaimsKeepsInv, AfterMergeKeepsInv, BulkKeepsInv
<1>2. ASSUME NEW s \in Slots, JobStep(s) PROVE EntitiesInv'
  BY <1>1, <1>2 DEF JobStep
<1>3. CASE Crash
  BY <1>3, CrashKeepsInv
<1>4. CASE UNCHANGED vars
  <2>1. UNCHANGED <<docs, patches, items, requests>>
    BY <1>4 DEF vars
  <2>2. ASSUME NEW e \in Ids PROVE EntityOK(e)'
    <3>1. EntityOK(e)
      BY DEF EntitiesInv
    <3> QED
      BY <2>1, <3>1 DEF EntityOK, Follow, written, writing
  <2>3. ASSUME NEW s \in Slots PROVE RequestOK(requests[s])'
    <3>1. RequestOK(requests[s])
      BY DEF EntitiesInv
    <3> QED
      BY <2>1, <3>1 DEF RequestOK, JobOK, Writes, Read, KeepsRedirection, Redirects
  <2> QED
    BY <2>1, <2>2, <2>3 DEF EntitiesInv
<1>5. ASSUME NEW s \in Slots,
             \/ StartEdit(s) \/ StartMerge(s) \/ StartRevert(s)
             \/ RetryOnConflict(s)
             \/ MergeInvEntities(s) \/ RemoveObsoletePlaceholderEntities(s)
             \/ TurnIntoRedirection(s) \/ PropagateRedirection(s)
             \/ RestoreVersion(s) \/ AfterRevert(s)
             \/ RecoverPlaceholders(s) \/ RevertMergePatch(s) \/ RevertClaimsRedirections(s)
             \/ Finish(s)
      PROVE  EntitiesInv'
  BY <1>5, EditsKeepInv, StartMergeKeepsInv, StartRevertKeepsInv, MergeInvEntitiesKeepsInv,
     RemoveObsoletePlaceholdersKeepsInv, TurnIntoRedirectionKeepsInv,
     PropagateRedirectionKeepsInv, RestoreVersionKeepsInv, AfterRevertKeepsInv,
     RevertStagesKeepInv, FinishKeepsInv
<1> QED
  BY <1>2, <1>3, <1>4, <1>5 DEF Next

LEMMA Invariance == Spec => []EntitiesInv
  BY InitEstablishesInv, NextKeepsInv, PTL DEF Spec

\* Every document, patch and item of entities has its type: redirections have neither labels nor
\* authors and lead to an entity of the same type, patches have versions of their document
\* (turn_into_redirection.js, models/entity.js, lib/patches), and items were on works.
THEOREM TypeCorrectness == Spec => []TypeOK
<1>1. EntitiesInv => TypeOK
  <2> SUFFICES ASSUME EntitiesInv PROVE TypeOK
    OBVIOUS
  <2>1. ASSUME NEW e \in Ids
        PROVE  /\ isDoc(docs[e])
               /\ isRedirection(docs[e]) => docs[e].labels = {} /\ docs[e].authors = <<>>
               /\ e \in Humans => docs[e].authors = <<>>
               /\ isRedirection(docs[e]) => sameType(e, docs[e].redirect)
               /\ \A p \in patches[e] :
                    /\ p.version \in 2..docs[e].version /\ p.context \in Contexts
                    /\ {p.before, p.after} \subseteq Contents
    <3>1. EntityOK(e)
      BY DEF EntitiesInv
    <3>2. isDoc(docs[e])
      BY <3>1 DEF EntityOK, isDoc, versionned, Docs, Contents
    <3>3. patches[e] \subseteq Patches /\ \A p \in patches[e] : p.version \in 2..docs[e].version
      BY <3>1 DEF EntityOK, Follow, written
    <3>4. \A p \in patches[e] : p.context \in Contexts /\ {p.before, p.after} \subseteq Contents
      BY <3>3 DEF Patches
    <3> QED
      BY <3>1, <3>2, <3>3, <3>4 DEF EntityOK, Fits
  <2>2. ASSUME NEW i \in Items
        PROVE  /\ items[i].entity \in Works \cup WdWorks
               /\ items[i].previousEntity \in Seq(Works) /\ items[i].version \in Nat
    BY DEF EntitiesInv, ItemDocs
  <2> QED
    BY <2>1, <2>2 DEF TypeOK
<1> QED
  BY <1>1, Invariance, PTL

\* Whatever requests write in parallel, fail or stop at, the patches of an entity that are
\* posted after its document (create_patch.js after db.putAndReturn) never tell of a change that
\* was not made: the ones that follow each other agree, up to the document.
THEOREM FaithfulHistory == Spec => []HistoryIsFaithful
<1>1. EntitiesInv => HistoryIsFaithful
  <2> SUFFICES ASSUME EntitiesInv, NEW e \in Ids, NEW p \in patches[e]
               PROVE  /\ p.version = docs[e].version => p.after = versionned(docs[e])
                      /\ \A q \in patches[e] : q.version = p.version + 1 => q.before = p.after
                      /\ \A q \in patches[e] : q.version = p.version => q = p
    BY DEF HistoryIsFaithful
  <2>1. Follow(e) /\ patches[e] \subseteq written(e)
    BY DEF EntitiesInv, EntityOK, written
  <2> QED
    BY <2>1 DEF Follow
<1> QED
  BY <1>1, Invariance, PTL

\* Nothing but the revert of its merge writes over a redirection: the writes that were prepared
\* before the merge fail on the revision, and the others see the redirection.
THEOREM StandingRedirections == Spec => RedirectionsStand
<1> DEFINE Stand == \A e \in Ids :
               isRedirection(docs[e]) /\ content(docs'[e]) # content(docs[e]) =>
                   \E s \in Slots : requests[s].kind = "revert" /\ requests[s].from = e
<1>1. EntitiesInv /\ [Next]_vars => [Stand]_vars
  <2> SUFFICES ASSUME EntitiesInv, Next, NEW e \in Ids, isRedirection(docs[e]),
                      content(docs'[e]) # content(docs[e])
               PROVE  \E s \in Slots : requests[s].kind = "revert" /\ requests[s].from = e
    OBVIOUS
  <2>1. docs' # docs
    OBVIOUS
  <2>2. PICK s \in Slots : JobStep(s)
    BY <2>1 DEF Next, Crash, Start, reads, Finish, StartEdit, StartMerge, StartRevert,
       RetryOnConflict, MergeInvEntities, RemoveObsoletePlaceholderEntities,
       TurnIntoRedirection, PropagateRedirection, RestoreVersion, AfterRevert,
       RecoverPlaceholders, RevertMergePatch, RevertClaimsRedirections
  <2>3. PICK j \in requests[s].jobs : PutDoc(s, j)
    BY <2>1, <2>2 DEF JobStep, CreatePatch, DeleteIfIsolated, RemovePlaceholder,
       RecoverPlaceholder, RevertFromPatchDoc, RedirectClaims, AfterMerge, Bulk, reads
  <2>4. /\ JobOK(requests[s], j) /\ j.step = "put" /\ docs[j.id].version = j.doc.version
        /\ docs' = [docs EXCEPT ![j.id] = j.new]
    BY <2>1, <2>3 DEF PutDoc, EntitiesInv, RequestOK
  <2>5. e = j.id /\ docs'[e] = j.new /\ j.doc = docs[e]
    BY <2>4 DEF EntitiesInv, JobOK, Read
  <2>6. KeepsRedirection(requests[s], j)
    BY <2>4 DEF JobOK
  <2> QED
    BY <2>5, <2>6 DEF KeepsRedirection
<1>2. Spec => [][Stand]_vars
  BY <1>1, Invariance, PTL DEF Spec
<1> QED
  BY <1>2 DEF RedirectionsStand

-----------------------------------------------------------------------------
(* Redirections end: a merge only starts towards an entity that is no redirection, and nothing   *)
(* else makes redirections, so that no set of entities is one where they lead nowhere else       *)

Acyclic == \A S \in SUBSET Ids : S # {} => \E e \in S : docs[e].redirect \notin S

\* A request that is not over is alone, and what it merges into is no redirection
Alone == \A s, t \in Slots : ~idle(s) /\ ~idle(t) => s = t
Towards(r) == r.kind = "merge" /\ r.to \in Ids => ~isRedirection(docs[r.to])

Separate ==
    past # "overlaps" => Alone /\ Acyclic /\ \A s \in Slots : Towards(requests[s])

\* A slot goes on with its request, or ends it, and no document is written
Continues(s) ==
    /\ ~idle(s) /\ UNCHANGED docs /\ (past' = "overlaps" => past = "overlaps")
    /\ past = "overlaps" => past' = "overlaps"
    /\ requests' = [requests EXCEPT ![s] = requests'[s]]
    /\ \/ requests'[s].kind = "none"
       \/ requests'[s].kind = requests[s].kind /\ requests'[s].to = requests[s].to
       \/ requests'[s].kind = "revert"

LEMMA ContinuesSeparate ==
    ASSUME Separate, NEW s \in Slots, Continues(s), EntitiesInv
    PROVE  Separate'
<1> SUFFICES ASSUME past' # "overlaps"
             PROVE  (Alone /\ Acyclic /\ \A t \in Slots : Towards(requests[t]))'
  BY DEF Separate
<1>1. Alone /\ Acyclic /\ \A t \in Slots : Towards(requests[t])
  BY DEF Separate, Continues
<1>2. \A t \in Slots : t # s => requests'[t] = requests[t]
  BY DEF Continues, EntitiesInv
<1>3. Alone'
  BY <1>1, <1>2 DEF Alone, idle, Continues
<1>4. Acyclic'
  BY <1>1 DEF Acyclic, Continues
<1>5. ASSUME NEW t \in Slots PROVE Towards(requests[t])'
  <2>1. Towards(requests[t]) /\ docs' = docs
    BY <1>1 DEF Continues
  <2>2. CASE t = s
    BY <2>1, <2>2 DEF Towards, Continues
  <2>3. CASE t # s
    BY <1>2, <2>1, <2>3 DEF Towards
  <2> QED
    BY <2>2, <2>3
<1> QED
  BY <1>3, <1>4, <1>5

LEMMA StartsSeparate ==
    ASSUME Separate, NEW s \in Slots, NEW r, NEW undo, Start(s, r, undo), EntitiesInv, Towards(r)
    PROVE  Separate'
<1> SUFFICES ASSUME past' # "overlaps"
             PROVE  (Alone /\ Acyclic /\ \A t \in Slots : Towards(requests[t]))'
  BY DEF Separate
<1>1. UNCHANGED docs /\ past = past' /\ \A t \in Slots : idle(t)
  BY DEF Start
<1>2. requests' = [t \in Slots |-> IF t = s THEN r ELSE requests[t]]
  BY DEF Start, goes, EntitiesInv
<1>3. Acyclic' /\ \A t \in Slots : Towards(requests[t])
  BY <1>1 DEF Separate, Acyclic
<1>4. Alone'
  BY <1>1, <1>2 DEF Alone, idle
<1>5. ASSUME NEW t \in Slots PROVE Towards(requests[t])'
  BY <1>1, <1>2, <1>3 DEF Towards
<1> QED
  BY <1>3, <1>4, <1>5

LEMMA GoesOn ==
    ASSUME EntitiesInv, Separate, NEW s \in Slots, NEW r, goes(s, r), ~idle(s), UNCHANGED docs,
           \/ past' = past
           \/ past = "orderly" /\ past' = "failures",
           \/ r.kind = "none" \/ r.kind = "revert"
           \/ r.kind = requests[s].kind /\ r.to = requests[s].to
    PROVE  Separate'
<1>1. requests' = [requests EXCEPT ![s] = r] /\ requests'[s] = r
  BY DEF goes, EntitiesInv
<1>2. Continues(s)
  BY <1>1 DEF Continues
<1> QED
  BY <1>2, ContinuesSeparate

LEMMA StagesSeparate ==
    ASSUME EntitiesInv, Separate, NEW s \in Slots,
           \/ RetryOnConflict(s)
           \/ MergeInvEntities(s) \/ RemoveObsoletePlaceholderEntities(s)
           \/ TurnIntoRedirection(s) \/ PropagateRedirection(s)
           \/ RestoreVersion(s) \/ AfterRevert(s)
           \/ RecoverPlaceholders(s) \/ RevertMergePatch(s) \/ RevertClaimsRedirections(s)
           \/ Finish(s)
    PROVE  Separate'
<1> DEFINE r == requests[s]
<1>1. r \in Requests
  BY DEF EntitiesInv
<1>2. CASE fails(s) /\ ~idle(s) /\ reads
  <2> DEFINE q == [r EXCEPT !.failed = TRUE, !.jobs = {}]
  <2>1. goes(s, q) /\ q.kind = r.kind /\ q.to = r.to
    BY <1>1, <1>2 DEF fails, Requests
  <2> HIDE DEF q
  <2> QED
    BY <1>2, <2>1, GoesOn DEF reads
<1>3. CASE RetryOnConflict(s)
  <2>1. editOf(r).kind = r.kind /\ editOf(r).to = r.to
    BY <1>1 DEF editOf, Requests
  <2>2. goes(s, editOf(r)) /\ ~idle(s) /\ reads
    BY <1>3 DEF RetryOnConflict, at, idle
  <2> QED
    BY <2>1, <2>2, GoesOn DEF reads
<1>4. CASE MergeInvEntities(s) /\ ~fails(s)
  <2> DEFINE q(jobs) == [r EXCEPT !.stage = "isolate", !.jobs = jobs]
  <2>1. \A jobs : q(jobs).kind = r.kind /\ q(jobs).to = r.to
    BY <1>1 DEF Requests
  <2>2. PICK jobs : goes(s, q(jobs))
    BY <1>4 DEF MergeInvEntities
  <2>3. ~idle(s) /\ reads
    BY <1>4 DEF MergeInvEntities, at, idle
  <2> HIDE DEF q
  <2> QED
    BY <2>1, <2>2, <2>3, GoesOn DEF reads
<1>5. CASE RemoveObsoletePlaceholderEntities(s) /\ ~fails(s)
  <2> DEFINE q(d, jobs) == [r EXCEPT !.stage = "turn", !.doc = d, !.jobs = jobs]
  <2>1. \A d, jobs : q(d, jobs).kind = r.kind /\ q(d, jobs).to = r.to
    BY <1>1 DEF Requests
  <2>2. PICK d, jobs : goes(s, q(d, jobs))
    BY <1>5 DEF RemoveObsoletePlaceholderEntities
  <2>3. ~idle(s) /\ reads
    BY <1>5 DEF RemoveObsoletePlaceholderEntities, at, idle
  <2> HIDE DEF q
  <2> QED
    BY <2>1, <2>2, <2>3, GoesOn DEF reads
<1>6. CASE TurnIntoRedirection(s) /\ ~fails(s)
  <2> DEFINE q(jobs) == [r EXCEPT !.stage = "propagate", !.doc = NoDoc, !.removed = {},
                                  !.jobs = jobs]
  <2>1. \A jobs : q(jobs).kind = r.kind /\ q(jobs).to = r.to
    BY <1>1 DEF Requests
  <2>2. PICK jobs : goes(s, q(jobs))
    BY <1>6 DEF TurnIntoRedirection
  <2>3. ~idle(s) /\ reads
    BY <1>6 DEF TurnIntoRedirection, at, idle
  <2> HIDE DEF q
  <2> QED
    BY <2>1, <2>2, <2>3, GoesOn DEF reads
<1>7. CASE PropagateRedirection(s)
  <2> DEFINE q == [r EXCEPT !.stage = "end",
                            !.jobs = {Job("claims", NoUri), Job("items", NoUri)}]
  <2>1. q.kind = r.kind /\ q.to = r.to /\ goes(s, q) /\ ~idle(s) /\ reads
    BY <1>1, <1>7 DEF Requests, PropagateRedirection, at, idle
  <2> HIDE DEF q
  <2> QED
    BY <2>1, GoesOn DEF reads
<1>8. CASE Finish(s)
  <2>1. NoRequest.kind = "none"
    BY DEF NoRequest
  <2>2. goes(s, NoRequest) /\ ~idle(s) /\ UNCHANGED docs
        /\ (past' = past \/ (past = "orderly" /\ past' = "failures"))
    BY <1>8 DEF Finish
  <2> QED
    BY <2>1, <2>2, GoesOn
<1>9. CASE \/ RestoreVersion(s) \/ AfterRevert(s)
           \/ RecoverPlaceholders(s) \/ RevertMergePatch(s) \/ RevertClaimsRedirections(s)
  <2>1. r.kind = "revert" /\ ~idle(s) /\ reads
    BY <1>9 DEF RestoreVersion, AfterRevert, RecoverPlaceholders, RevertMergePatch,
       RevertClaimsRedirections, at, idle
  <2> DEFINE Q5(a, b, c, d, e) == [r EXCEPT !.stage = a, !.change = b, !.to = c, !.removed = d,
                                            !.jobs = e]
             Q3(a, b, c) == [r EXCEPT !.stage = a, !.copies = b, !.jobs = c]
             R3(a, b, c) == [r EXCEPT !.stage = a, !.removed = b, !.jobs = c]
  <2>2. /\ \A a, b, c, d, e : Q5(a, b, c, d, e).kind = r.kind
        /\ \A a, b, c : Q3(a, b, c).kind = r.kind /\ R3(a, b, c).kind = r.kind
        /\ \A a, b : [r EXCEPT !.stage = a, !.jobs = b].kind = r.kind
        /\ \A a, b : [r EXCEPT !.failed = a, !.jobs = b].kind = r.kind
    BY <1>1 DEF Requests
  <2>3. ASSUME NEW q, goes(s, q), q.kind = r.kind PROVE Separate'
    BY <2>1, <2>3, GoesOn DEF reads
  <2>4. CASE RestoreVersion(s)
    <3>1. \E a, b, c, d, e : goes(s, Q5(a, b, c, d, e))
      BY <2>4, Zenon DEF RestoreVersion
    <3> HIDE DEF Q5
    <3> QED
      BY <2>2, <2>3, <3>1
  <2>5. CASE AfterRevert(s)
    <3>1. fails(s) \/ \E a, b, c : goes(s, Q3(a, b, c))
      BY <2>5 DEF AfterRevert
    <3> HIDE DEF Q3
    <3> QED
      BY <1>2, <2>1, <2>2, <2>3, <3>1
  <2>6. CASE RecoverPlaceholders(s)
    <3>1. \E a, b, c : goes(s, R3(a, b, c))
      BY <2>6, Zenon DEF RecoverPlaceholders
    <3> HIDE DEF R3
    <3> QED
      BY <2>2, <2>3, <3>1
  <2>7. CASE RevertMergePatch(s)
    BY <2>2, <2>3, <2>7 DEF RevertMergePatch, fails
  <2>8. CASE RevertClaimsRedirections(s)
    BY <2>2, <2>3, <2>8 DEF RevertClaimsRedirections
  <2> QED
    BY <1>9, <2>4, <2>5, <2>6, <2>7, <2>8
<1>10. MergeInvEntities(s) \/ RemoveObsoletePlaceholderEntities(s) \/ TurnIntoRedirection(s)
         => ~idle(s) /\ reads
  BY DEF MergeInvEntities, RemoveObsoletePlaceholderEntities, TurnIntoRedirection, at, idle
<1> QED
  BY <1>2, <1>3, <1>4, <1>5, <1>6, <1>7, <1>8, <1>9, <1>10

LEMMA PutDocSeparate ==
    ASSUME EntitiesInv, Separate, NEW s \in Slots, NEW j \in requests[s].jobs, PutDoc(s, j),
           docs' # docs
    PROVE  Separate'
<1> DEFINE r == requests[s]
           e == j.id
<1>1. /\ r \in Requests /\ RequestOK(r) /\ JobOK(r, j) /\ j \in Jobs /\ ~idle(s)
      /\ docs[e].version = j.doc.version /\ docs' = [docs EXCEPT ![e] = j.new] /\ e \in Ids
      /\ j.doc = docs[e] /\ past' = past
  BY DEF EntitiesInv, RequestOK, Requests, PutDoc, JobOK, Writes, Read, idle
<1>2. /\ docs'[e] = j.new /\ \A x \in Ids : x # e => docs'[x] = docs[x]
  BY <1>1 DEF EntitiesInv
<1>3. /\ \A t \in Slots : t # s => requests'[t] = requests[t]
      /\ requests'[s].kind = r.kind /\ requests'[s].to = r.to
  <2> DEFINE q(jobs) == [r EXCEPT !.jobs = jobs]
  <2>1. \A jobs : q(jobs).kind = r.kind /\ q(jobs).to = r.to
    BY <1>1 DEF Requests
  <2>2. PICK jobs : goes(s, q(jobs))
    BY <1>1 DEF PutDoc, follows
  <2> HIDE DEF q
  <2> QED
    BY <2>1, <2>2 DEF goes, EntitiesInv
<1>4. \/ j.new.redirect = docs[e].redirect \/ j.new.redirect = NoUri
      \/ r.kind = "merge" /\ r.from = e /\ j.new.redirect = r.to /\ r.to # e
  BY <1>1 DEF PutDoc, JobOK, Redirects, RequestOK, isRedirection
<1> SUFFICES ASSUME past # "overlaps"
             PROVE  (Alone /\ Acyclic /\ \A t \in Slots : Towards(requests[t]))'
  BY <1>1 DEF Separate
<1>5. Alone /\ Acyclic /\ \A t \in Slots : Towards(requests[t])
  BY DEF Separate
<1>6. Alone'
  BY <1>1, <1>3, <1>5 DEF Alone, idle
<1>7. NoUri \notin Ids
  BY EntitiesAssumption DEF Ids
<1>8. r.kind = "merge" /\ r.to \in Ids => docs[r.to].redirect = NoUri
  BY <1>5 DEF Towards, isRedirection
<1>9. Acyclic'
  <2> SUFFICES ASSUME NEW S \in SUBSET Ids, S # {}
               PROVE  \E x \in S : docs'[x].redirect \notin S
    BY DEF Acyclic
  <2>1. PICK y \in S : docs[y].redirect \notin S
    BY <1>5 DEF Acyclic
  <2>2. CASE e \notin S \/ j.new.redirect = docs[e].redirect
    BY <1>2, <2>1, <2>2
  <2>3. CASE e \in S /\ j.new.redirect = NoUri
    BY <1>2, <1>7, <2>3
  <2>4. CASE e \in S /\ r.kind = "merge" /\ r.from = e /\ j.new.redirect = r.to /\ r.to # e
    <3>1. CASE r.to \in S
      BY <1>2, <1>7, <1>8, <2>4, <3>1
    <3>2. CASE r.to \notin S
      BY <1>2, <2>4, <3>2
    <3> QED
      BY <3>1, <3>2
  <2> QED
    BY <1>4, <2>2, <2>3, <2>4
<1>10. ASSUME NEW t \in Slots PROVE Towards(requests[t])'
  <2>1. CASE t = s
    <3> SUFFICES ASSUME r.kind = "merge", r.to \in Ids PROVE docs'[r.to].redirect = NoUri
      BY <1>3, <2>1 DEF Towards, isRedirection
    <3> QED
      BY <1>2, <1>4, <1>8
  <2>2. CASE t # s
    <3>1. requests[t].kind = "none" /\ requests'[t] = requests[t]
      BY <1>1, <1>3, <1>5, <2>2 DEF Alone, idle
    <3> QED
      BY <3>1 DEF Towards
  <2> QED
    BY <2>1, <2>2
<1> QED
  BY <1>6, <1>9, <1>10

LEMMA JobsSeparate ==
    ASSUME EntitiesInv, Separate, NEW s \in Slots, JobStep(s)
    PROVE  Separate'
<1> DEFINE r == requests[s]
<1>1. PICK j \in r.jobs :
        \/ PutDoc(s, j) \/ CreatePatch(s, j)
        \/ DeleteIfIsolated(s, j) \/ RemovePlaceholder(s, j) \/ RecoverPlaceholder(s, j)
        \/ RevertFromPatchDoc(s, j)
        \/ RedirectClaims(s, j) \/ AfterMerge(s, j) \/ Bulk(s, j)
  BY DEF JobStep
<1>2. r \in Requests /\ ~idle(s) /\ past' = past
  <2>1. r \in Requests /\ RequestOK(r)
    BY DEF EntitiesInv
  <2> QED
    BY <1>1, <2>1 DEF RequestOK, idle, PutDoc, CreatePatch, DeleteIfIsolated, RemovePlaceholder,
       RecoverPlaceholder, RevertFromPatchDoc, RedirectClaims, AfterMerge, Bulk, reads
<1> DEFINE Same(q) == q.kind = r.kind /\ q.to = r.to
<1>3. ASSUME UNCHANGED docs, NEW q, goes(s, q), Same(q) PROVE Separate'
  BY <1>2, <1>3, GoesOn
<1>4. ASSUME UNCHANGED docs, throws(s, j) PROVE Separate'
  <2> DEFINE q == [r EXCEPT !.jobs = r.jobs \ {j}, !.failed = TRUE]
  <2>1. goes(s, q) /\ Same(q)
    BY <1>2, <1>4 DEF throws, Requests
  <2> HIDE DEF q
  <2> QED
    BY <1>3, <1>4, <2>1
<1>5. ASSUME UNCHANGED docs, NEW next, follows(s, j, next) PROVE Separate'
  <2> DEFINE q == [r EXCEPT !.jobs = (r.jobs \ {j}) \cup next]
  <2>1. goes(s, q) /\ Same(q)
    BY <1>2, <1>5 DEF follows, Requests
  <2> HIDE DEF q
  <2> QED
    BY <1>3, <1>5, <2>1
<1>6. CASE PutDoc(s, j)
  <2>1. CASE UNCHANGED docs
    <3> DEFINE q == [r EXCEPT !.jobs = {}, !.stage = "read"]
    <3>1. Same(q)
      BY <1>2 DEF Requests
    <3> HIDE DEF Same
    <3>2. goes(s, q) \/ throws(s, j) \/ \E next : follows(s, j, next)
      BY <1>6, Zenon DEF PutDoc
    <3> HIDE DEF q
    <3> QED
      BY <1>3, <1>4, <1>5, <2>1, <3>1, <3>2
  <2>2. CASE docs' # docs
    BY <1>6, <2>2, PutDocSeparate
  <2> QED
    BY <2>1, <2>2
<1>7. CASE CreatePatch(s, j)
  <2> DEFINE q(removed) == [r EXCEPT !.jobs = r.jobs \ {j}, !.removed = removed]
  <2>1. \A removed : Same(q(removed))
    BY <1>2 DEF Requests
  <2>2. UNCHANGED docs /\ (throws(s, j) \/ \E removed : goes(s, q(removed)))
    BY <1>7 DEF CreatePatch
  <2> HIDE DEF q, Same
  <2> QED
    BY <1>3, <1>4, <2>1, <2>2
<1>8. CASE DeleteIfIsolated(s, j) \/ RemovePlaceholder(s, j) \/ RecoverPlaceholder(s, j)
           \/ RevertFromPatchDoc(s, j)
  <2>1. UNCHANGED docs /\ (throws(s, j) \/ \E next : follows(s, j, next))
    BY <1>8 DEF DeleteIfIsolated, RemovePlaceholder, RecoverPlaceholder, RevertFromPatchDoc,
       reads
  <2> QED
    BY <1>4, <1>5, <2>1
<1>9. CASE RedirectClaims(s, j)
  <2> DEFINE q(found, jobs) == [r EXCEPT !.found = found, !.jobs = jobs]
  <2>1. \A found, jobs : Same(q(found, jobs))
    BY <1>2 DEF Requests
  <2>2. UNCHANGED docs /\ (throws(s, j) \/ \E found, jobs : goes(s, q(found, jobs)))
    BY <1>9 DEF RedirectClaims, reads
  <2> HIDE DEF q, Same
  <2> QED
    BY <1>3, <1>4, <2>1, <2>2
<1>10. CASE AfterMerge(s, j)
  <2> DEFINE q(copies, jobs) == [r EXCEPT !.copies = copies, !.jobs = jobs]
  <2>1. \A copies, jobs : Same(q(copies, jobs))
    BY <1>2 DEF Requests
  <2>2. UNCHANGED docs /\ \E copies, jobs : goes(s, q(copies, jobs))
    BY <1>10 DEF AfterMerge, reads
  <2> HIDE DEF q, Same
  <2> QED
    BY <1>3, <2>1, <2>2
<1>11. CASE Bulk(s, j)
  <2> DEFINE q(failed) == [r EXCEPT !.jobs = r.jobs \ {j}, !.copies = <<>>, !.failed = failed]
  <2>1. \A failed : Same(q(failed))
    BY <1>2 DEF Requests
  <2>2. UNCHANGED docs /\ \E failed : goes(s, q(failed))
    BY <1>11 DEF Bulk
  <2> HIDE DEF q, Same
  <2> QED
    BY <1>3, <2>1, <2>2
<1> QED
  BY <1>1, <1>6, <1>7, <1>8, <1>9, <1>10, <1>11

LEMMA RequestsSeparate == Spec => []Separate
<1>1. Init => Separate
  <2> SUFFICES ASSUME Init PROVE Separate
    OBVIOUS
  <2>1. NoRequest.kind = "none" /\ requests = [s \in Slots |-> NoRequest]
    BY DEF Init, NoRequest
  <2>2. \A e \in Ids : docs[e].redirect = NoUri
    BY DEF Init, documentOf, create
  <2>3. Acyclic
    BY <2>2, EntitiesAssumption DEF Acyclic, Ids
  <2> QED
    BY <2>1, <2>3 DEF Separate, Alone, idle, Towards
<1>2. EntitiesInv /\ Separate /\ [Next]_vars => Separate'
  <2> SUFFICES ASSUME EntitiesInv, Separate, [Next]_vars PROVE Separate'
    OBVIOUS
  <2>1. ASSUME NEW s \in Slots, StartEdit(s) PROVE Separate'
    <3> DEFINE r(e, c) == [NoRequest EXCEPT !.kind = "edit", !.from = e, !.change = c]
    <3>1. PICK e \in Ids, c \in Changes : Start(s, editOf(r(e, c)), NoWorld)
      BY <2>1 DEF StartEdit
    <3>2. r(e, c).kind = "edit"
      BY DEF NoRequest
    <3>3. \A jobs : /\ [r(e, c) EXCEPT !.stage = "end", !.jobs = jobs].kind = "edit"
                    /\ [r(e, c) EXCEPT !.failed = TRUE].kind = "edit"
      BY DEF NoRequest
    <3>4. editOf(r(e, c)).kind = "edit"
      <4> DEFINE q == r(e, c)
      <4> HIDE DEF q
      <4>1. editOf(q) = [q EXCEPT !.failed = TRUE]
            \/ \E jobs : editOf(q) = [q EXCEPT !.stage = "end", !.jobs = jobs]
        BY DEF editOf
      <4> QED
        BY <3>3, <4>1 DEF q
    <3>5. Towards(editOf(r(e, c)))
      BY <3>4 DEF Towards
    <3> HIDE DEF r
    <3> QED
      BY <3>1, <3>5, StartsSeparate
  <2>2. ASSUME NEW s \in Slots, StartMerge(s) PROVE Separate'
    <3> DEFINE r(from, to) == [NoRequest EXCEPT !.kind = "merge", !.from = from, !.to = to,
                                 !.stage = IF to \in Wikidata THEN "isolate" ELSE "mergeDocs"]
    <3>1. PICK from \in Ids, to \in Uris :
              /\ to \in Ids => ~isRedirection(docs[to])
              /\ Start(s, r(from, to), [from |-> from, world |-> world])
      BY <2>2 DEF StartMerge, validateEntities
    <3>2. r(from, to).to = to
      BY DEF NoRequest
    <3>3. Towards(r(from, to))
      BY <3>1, <3>2 DEF Towards
    <3> HIDE DEF r
    <3> QED
      BY <3>1, <3>3, StartsSeparate
  <2>3. ASSUME NEW s \in Slots, StartRevert(s) PROVE Separate'
    <3> DEFINE r(e) == [NoRequest EXCEPT !.kind = "revert", !.stage = "restore", !.from = e]
    <3>1. PICK e \in Ids : \E undo :
            \/ Start(s, [r(e) EXCEPT !.failed = TRUE], undo)
            \/ \E d : Start(s, [r(e) EXCEPT !.change = d], undo)
      BY <2>3 DEF StartRevert
    <3>2. [r(e) EXCEPT !.failed = TRUE].kind = "revert"
          /\ \A d : [r(e) EXCEPT !.change = d].kind = "revert"
      BY DEF NoRequest
    <3>3. Towards([r(e) EXCEPT !.failed = TRUE]) /\ \A d : Towards([r(e) EXCEPT !.change = d])
      BY <3>2 DEF Towards
    <3> HIDE DEF r
    <3> QED
      BY <3>1, <3>3, StartsSeparate
  <2>4. CASE Crash
    <3>1. UNCHANGED docs /\ requests' = [s \in Slots |-> NoRequest] /\ NoRequest.kind = "none"
          /\ (past' # "overlaps" => past # "overlaps")
      BY <2>4 DEF Crash, NoRequest
    <3> QED
      BY <3>1 DEF Separate, Alone, Acyclic, idle, Towards
  <2>5. CASE UNCHANGED vars
    BY <2>5 DEF vars, Separate, Alone, Acyclic, idle, Towards
  <2>6. ASSUME NEW s \in Slots,
               \/ RetryOnConflict(s)
               \/ MergeInvEntities(s) \/ RemoveObsoletePlaceholderEntities(s)
               \/ TurnIntoRedirection(s) \/ PropagateRedirection(s)
               \/ RestoreVersion(s) \/ AfterRevert(s)
               \/ RecoverPlaceholders(s) \/ RevertMergePatch(s) \/ RevertClaimsRedirections(s)
               \/ Finish(s)
        PROVE  Separate'
    BY <2>6, StagesSeparate
  <2>7. ASSUME NEW s \in Slots, JobStep(s) PROVE Separate'
    BY <2>7, JobsSeparate
  <2> QED
    BY <2>1, <2>2, <2>3, <2>4, <2>5, <2>6, <2>7 DEF Next
<1> QED
  BY <1>1, <1>2, Invariance, PTL DEF Spec

\* Where no set of entities only leads to itself, one hop less is possible from each entity that
\* is left, until none is
LEMMA FollowingEnds ==
    ASSUME Acyclic, NEW f \in [Nat -> SUBSET Ids],
           f[0] = {e \in Ids : docs[e].redirect \in Ids},
           \A n \in Nat : f[n + 1] = {e \in Ids : docs[e].redirect \in f[n]}
    PROVE  f[Cardinality(Ids)] = {}
<1> DEFINE N == Cardinality(Ids)
           T == {n \in Nat : /\ f[n + 1] \subseteq f[n]
                             /\ f[n] = {} \/ Cardinality(f[n]) + n <= N}
<1>1. IsFiniteSet(Ids) /\ N \in Nat
  BY EntitiesAssumption, FS_CardinalityType DEF Ids
<1>2. \A n \in Nat : IsFiniteSet(f[n]) /\ Cardinality(f[n]) \in Nat /\ Cardinality(f[n]) <= N
  BY <1>1, FS_Subset, FS_CardinalityType
<1>3. 0 \in T
  <2>1. f[0 + 1] = {e \in Ids : docs[e].redirect \in f[0]} /\ f[0] \subseteq Ids
    OBVIOUS
  <2>2. f[0 + 1] \subseteq f[0]
    BY <2>1
  <2>3. Cardinality(f[0]) + 0 <= N
    <3>1. Cardinality(f[0]) \in Nat /\ Cardinality(f[0]) <= N
      BY <1>2
    <3> HIDE DEF N
    <3> QED
      BY <3>1
  <2> QED
    BY <2>2, <2>3
<1>4. ASSUME NEW n \in Nat, n \in T PROVE n + 1 \in T
  <2>1. n + 1 \in Nat /\ f[n + 1] \subseteq f[n] /\ (f[n] = {} \/ Cardinality(f[n]) + n <= N)
    BY <1>4
  <2>2. f[(n + 1) + 1] \subseteq f[n + 1]
    BY <2>1
  <2>3. ASSUME f[n + 1] # {} PROVE Cardinality(f[n + 1]) + (n + 1) <= N
    <3>1. f[n] # {} /\ Cardinality(f[n]) + n <= N
      BY <2>1, <2>3
    <3>2. PICK e \in f[n] : docs[e].redirect \notin f[n]
      BY <3>1 DEF Acyclic
    <3>3. e \notin f[n + 1]
      BY <3>2
    <3>4. f[n + 1] \in SUBSET f[n] /\ f[n + 1] # f[n]
      BY <2>1, <3>2, <3>3
    <3>5. Cardinality(f[n + 1]) <= Cardinality(f[n]) /\ Cardinality(f[n + 1]) # Cardinality(f[n])
      BY <1>2, <3>4, FS_Subset
    <3> QED
      BY <1>1, <1>2, <2>1, <3>1, <3>5
  <2> QED
    BY <2>1, <2>2, <2>3
<1>5. N \in T
  <2> HIDE DEF T
  <2> QED
    BY <1>1, <1>3, <1>4, ByInduction
<1>6. f[N] = {} \/ Cardinality(f[N]) = 0
  BY <1>1, <1>2, <1>5
<1> QED
  BY <1>1, <1>2, <1>6, FS_EmptySet

\* However merges, edits and reverts fail, as long as one request starts when the one before is
\* over, redirections never lead back to where they come from: getting an entity by its uri
\* (get_inv_entities, which follows them) always ends.
THEOREM RedirectionsAlwaysEnd == Spec => []RedirectionsEnd
<1>1. EntitiesInv /\ Separate => RedirectionsEnd
  <2> SUFFICES ASSUME EntitiesInv, Separate, past # "overlaps" PROVE RedirectionsEnd
    BY DEF RedirectionsEnd
  <2> DEFINE V == Uris \cup {NoUri}
             to(e) == docs[e].redirect
             step == [n \in Nat |-> [g \in [Ids -> V] |->
                        [e \in Ids |-> IF to(e) \notin Ids THEN to(e) ELSE g[to(e)]]]]
             body(f) == [n \in Nat |-> [e \in Ids |->
                           IF n = 0 \/ docs[e].redirect \notin Ids THEN docs[e].redirect
                           ELSE f[n - 1][docs[e].redirect]]]
  <2>1. \A e \in Ids : to(e) \in V
    BY DEF EntitiesInv, EntityOK, Docs
  <2>2. Acyclic
    BY DEF Separate
  <2> HIDE DEF V
  <2>3. \E f : Iterates(f, [Ids -> V], [e \in Ids |-> to(e)], step)
    <3>1. step \in [Nat -> [[Ids -> V] -> [Ids -> V]]]
      BY <2>1
    <3>2. [e \in Ids |-> to(e)] \in [Ids -> V]
      BY <2>1
    <3> HIDE DEF step, to
    <3> QED
      BY <3>1, <3>2, ByRecursion
  <2>4. \E f : f = body(f)
    <3>1. PICK f : Iterates(f, [Ids -> V], [e \in Ids |-> to(e)], step)
      BY <2>3
    <3>2. f \in [Nat -> [Ids -> V]] /\ f[0] = [e \in Ids |-> to(e)]
      BY <3>1 DEF Iterates
    <3>3. ASSUME NEW n \in Nat
          PROVE  f[n + 1] = [e \in Ids |-> IF to(e) \notin Ids THEN to(e) ELSE f[n][to(e)]]
      BY <3>1, <3>2 DEF Iterates
    <3>4. ASSUME NEW n \in Nat PROVE f[n] = body(f)[n]
      <4>1. CASE n = 0
        BY <3>2, <4>1
      <4>2. CASE n # 0
        <5>1. n - 1 \in Nat /\ n - 1 + 1 = n
          BY <4>2
        <5>2. f[n] = [e \in Ids |-> IF to(e) \notin Ids THEN to(e) ELSE f[n - 1][to(e)]]
          BY <3>3, <5>1
        <5> QED
          BY <4>2, <5>2
      <4> QED
        BY <4>1, <4>2
    <3> QED
      BY <3>2, <3>4
  <2> DEFINE follow == CHOOSE f : f = body(f)
             left == [n \in Nat |-> {e \in Ids : follow[n][e] \in Ids}]
  <2>5. follow = body(follow)
    BY <2>4
  <2> HIDE DEF follow
  <2>6. left[0] = {e \in Ids : docs[e].redirect \in Ids}
    BY <2>5
  <2>7. ASSUME NEW n \in Nat PROVE left[n + 1] = {e \in Ids : docs[e].redirect \in left[n]}
    <3>1. n + 1 \in Nat /\ n + 1 # 0 /\ n + 1 - 1 = n
      OBVIOUS
    <3>2. \A e \in Ids : follow[n + 1][e] = IF to(e) \notin Ids THEN to(e) ELSE follow[n][to(e)]
      BY <2>5, <3>1
    <3> QED
      BY <3>1, <3>2
  <2>8. left \in [Nat -> SUBSET Ids]
    OBVIOUS
  <2> HIDE DEF left
  <2>9. left[Cardinality(Ids)] = {}
    BY <2>2, <2>6, <2>7, <2>8, FollowingEnds
  <2>10. Cardinality(Ids) \in Nat
    BY EntitiesAssumption, FS_CardinalityType DEF Ids
  <2>11. \A e \in Ids : follow[Cardinality(Ids)][e] \notin Ids
    BY <2>9, <2>10 DEF left
  <2> QED
    BY <2>11 DEF RedirectionsEnd, follow
<1> QED
  BY <1>1, Invariance, RequestsSeparate, PTL

-----------------------------------------------------------------------------
(* Where a merge or a revert that nothing overlaps has come to *)

on(e) == {i \in Items : items[i].entity = e}

\* What an item was moved to from the n-th entity it remembers, the last one first
nextOf(x, n) == IF n = 1 THEN x.entity ELSE x.previousEntity[n - 1]

\* The item went where redirections lead, and is not on one
Linked(x) == \A n \in 1..Len(x.previousEntity) :
    docs[x.previousEntity[n]].redirect = nextOf(x, n)
Landed(x) == x.entity \in Ids => ~isRedirection(docs[x.entity])
Settled == \A i \in Items : Linked(items[i]) /\ Landed(items[i])

\* The redirection is written, items on it may have to be moved
Redirected(r) ==
    /\ docs[r.from].redirect = r.to
    /\ \A i \in Items : Linked(items[i]) /\ (Landed(items[i]) \/ items[i].entity = r.from)

\* The redirection is no more, items that it moved have to be moved back
LinkedThrough(x, r) == \A n \in 1..Len(x.previousEntity) :
    IF x.previousEntity[n] = r.from THEN nextOf(x, n) = r.to
    ELSE docs[x.previousEntity[n]].redirect = nextOf(x, n)
Restored(r) ==
    /\ docs[r.from].redirect = NoUri
    /\ \A i \in Items : LinkedThrough(items[i], r) /\ Landed(items[i])

puts(r) == {j \in r.jobs : j.step = "put"}
has(r, step) == Job(step, NoUri) \in r.jobs

\* The jobs of each stage of a merge, and what they write
MergeSteps == [mergeDocs |-> {}, isolate |-> {"put", "patch"},
               turn |-> {"check", "remove", "put", "patch"}, propagate |-> {"put", "patch"},
               end |-> {"claims", "redirectClaims", "items", "bulk", "put", "patch"}]
MergeJobs(r) ==
    /\ r.stage \in DOMAIN MergeSteps
    /\ \A j \in r.jobs :
         /\ j.step \in MergeSteps[r.stage]
         /\ j.step \in {"claims", "redirectClaims", "items", "bulk"} => j = Job(j.step, NoUri)
    /\ \A j \in puts(r) :
         /\ r.stage = "isolate" => j.id = r.to
         /\ IF r.stage = "propagate" THEN j.id = r.from /\ j.new.redirect = r.to
            ELSE j.new.redirect = j.doc.redirect
         /\ r.stage \in {"turn", "end"} => j.new.labels = j.doc.labels
         /\ r.stage = "end" => r.from \notin ToSet(j.new.authors)

\* Items are moved once the redirection is written
MergeItems(r) ==
    /\ r.stage \in {"mergeDocs", "isolate", "turn"} => Settled
    /\ r.stage = "propagate" => Redirected(r) \/ (puts(r) # {} /\ Settled)
    /\ r.stage = "end" =>
         /\ Redirected(r)
         /\ has(r, "bulk") => r.copies = copiesOf(on(r.from))
         /\ has(r, "items") \/ has(r, "bulk") \/ on(r.from) = {}

\* Each work that claims the merged entity is about to be written without that claim
MergeClaims(r) == r.stage = "end" =>
    /\ has(r, "claims") \/ has(r, "redirectClaims") => puts(r) = {}
    /\ has(r, "redirectClaims") => ~has(r, "claims") /\ r.found = rowsOf(r.from)
    /\ \/ has(r, "claims") \/ has(r, "redirectClaims")
       \/ \A w \in byClaimsValue(r.from) : \E j \in puts(r) : j.id = w

\* The other entity gets the labels that the merged one had
MergeLabels(r) == r.to \in Ids =>
    LET labels == beforeMerge.world.docs[r.from][1][1] IN
    /\ r.stage = "mergeDocs" => docs[r.from].labels = labels
    /\ r.stage = "isolate" => \A j \in puts(r) : labels \subseteq j.new.labels
    /\ r.stage # "mergeDocs" =>
         \/ r.stage = "isolate" /\ puts(r) # {}
         \/ labels \subseteq docs[r.to].labels

\* The jobs of each stage of a revert
RevertSteps == [restore |-> {}, items |-> {"put", "patch"}, placeholders |-> {"bulk"},
                mergePatch |-> {"recover", "put", "patch"},
                redirections |-> {"revert", "put", "patch"}, end |-> {"revert", "put", "patch"}]
RevertJobs(r) ==
    /\ r.stage \in DOMAIN RevertSteps
    /\ \A j \in r.jobs :
         /\ j.step \in RevertSteps[r.stage]
         /\ j.step = "bulk" => j = Job("bulk", NoUri)
    /\ r.stage = "items" => \A j \in puts(r) : j.id = r.from /\ j.new.redirect = NoUri

\* Items are moved back when the document is restored
RevertItems(r) ==
    /\ r.stage = "restore" => Settled
    /\ r.stage = "items" =>
         /\ r.to # r.from
         /\ Restored(r) \/ (puts(r) # {} /\ Settled /\ docs[r.from].redirect = r.to)
    /\ r.stage = "placeholders" =>
         IF has(r, "bulk")
         THEN /\ Restored(r) /\ r.to # r.from
              /\ r.copies = copiesOf({i \in Items : r.from \in ToSet(items[i].previousEntity)})
              /\ \A i \in DOMAIN r.copies : /\ items[i].entity = r.to
                                            /\ Head(items[i].previousEntity) = r.from
         ELSE Settled /\ docs[r.from].redirect = NoUri
    /\ r.stage \in {"mergePatch", "redirections", "end"} =>
         Settled /\ docs[r.from].redirect = NoUri

Progress(r) ==
    /\ r.kind = "edit" => Settled
    /\ r.kind = "merge" => MergeJobs(r) /\ MergeItems(r) /\ MergeClaims(r) /\ MergeLabels(r)
    /\ r.kind = "revert" => RevertJobs(r) /\ RevertItems(r)

Clean == past = "orderly" /\ \A s \in Slots : ~idle(s) => ~requests[s].failed

\* Requests that none overlaps and none of which failed
TidyInv == Clean =>
    IF quiet THEN Settled ELSE \A s \in Slots : ~idle(s) => Progress(requests[s])
\* What Progress says of a request does not depend on the patches
LEMMA Unmoved ==
    ASSUME UNCHANGED <<docs, items, beforeMerge>>, NEW r
    PROVE  Settled' = Settled /\ (Progress(r) => Progress(r)')
<1>1. Settled' = Settled
  BY DEF Settled, Linked, Landed
<1>2. /\ Redirected(r) => Redirected(r)'
      /\ Restored(r) => Restored(r)'
      /\ \A e : on(e)' = on(e)
      /\ \A I : copiesOf(I)' = copiesOf(I)
      /\ \A e : byClaimsValue(e)' = byClaimsValue(e)
      /\ \A e : rowsOf(e)' = rowsOf(e)
  BY DEF Redirected, Restored, Linked, LinkedThrough, Landed, on, copiesOf, byClaimsValue,
     indexed, rowsOf
<1>3. MergeItems(r) => MergeItems(r)'
  BY <1>1, <1>2 DEF MergeItems
<1>4. MergeClaims(r) => MergeClaims(r)'
  BY <1>2 DEF MergeClaims
<1>5. MergeLabels(r) => MergeLabels(r)'
  BY DEF MergeLabels
<1>6. RevertItems(r) => RevertItems(r)'
  <2>1. {i \in Items : r.from \in ToSet(items[i].previousEntity)}'
          = {i \in Items : r.from \in ToSet(items[i].previousEntity)}
    OBVIOUS
  <2> QED
    BY <1>1, <1>2, <2>1 DEF RevertItems
<1> QED
  BY <1>1, <1>3, <1>4, <1>5, <1>6 DEF Progress, MergeJobs, RevertJobs

\* A request goes on, alone and without failure so far
LEMMA TidyStep ==
    ASSUME EntitiesInv, Separate, TidyInv, NEW s \in Slots, ~idle(s), NEW r, goes(s, r),
           past' = past, r.kind # "none", ~r.failed => ~requests[s].failed,
           past = "orderly" /\ ~r.failed /\ Progress(requests[s]) => Progress(r)'
    PROVE  TidyInv'
<1>1. requests' = [t \in Slots |-> IF t = s THEN r ELSE requests[t]]
  BY DEF goes, EntitiesInv
<1> SUFFICES ASSUME Clean' PROVE (IF quiet THEN Settled ELSE \A t \in Slots : ~idle(t) =>
                                      Progress(requests[t]))'
  BY DEF TidyInv
<1>2. past = "orderly" /\ ~r.failed
  BY <1>1 DEF Clean, idle
<1>3. \A t \in Slots : t # s => idle(t)
  BY <1>2 DEF Separate, Alone
<1>4. Clean /\ ~quiet
  BY <1>2, <1>3 DEF Clean, quiet
<1>5. Progress(requests[s])
  BY <1>4 DEF TidyInv
<1>6. Progress(r)'
  BY <1>2, <1>5
<1>7. ASSUME NEW t \in Slots, ~idle(t)' PROVE Progress(requests[t])'
  <2>1. t = s
    BY <1>1, <1>3, <1>7 DEF idle
  <2>2. requests'[t] = r
    BY <1>1, <2>1
  <2> QED
    BY <1>6, <2>2
<1>8. ~quiet'
  BY <1>1 DEF quiet, idle
<1> QED
  BY <1>7, <1>8

\* It reads, or posts a patch
LEMMA TidyRead ==
    ASSUME EntitiesInv, Separate, TidyInv, NEW s \in Slots, ~idle(s), NEW r, goes(s, r),
           UNCHANGED <<docs, items, past, beforeMerge>>,
           r.kind # "none", ~r.failed => ~requests[s].failed,
           past = "orderly" /\ ~r.failed /\ Progress(requests[s]) => Progress(r)
    PROVE  TidyInv'
BY Unmoved, TidyStep

LEMMA TidyFailure ==
    ASSUME EntitiesInv, Separate, TidyInv, NEW s \in Slots, ~idle(s),
           fails(s) \/ \E j : throws(s, j),
           UNCHANGED <<docs, items, past, beforeMerge>>
    PROVE  TidyInv'
<1> DEFINE r == requests[s]
           q(jobs) == [r EXCEPT !.failed = TRUE, !.jobs = jobs]
<1>1. PICK jobs : goes(s, q(jobs))
  <2>1. \A j : throws(s, j) => goes(s, q(r.jobs \ {j}))
    BY DEF throws
  <2>2. fails(s) => goes(s, q({}))
    BY DEF fails
  <2> HIDE DEF q
  <2> QED
    BY <2>1, <2>2
<1>2. r \in Requests
  BY DEF EntitiesInv
<1>3. q(jobs).kind = r.kind /\ q(jobs).failed = TRUE
  BY <1>2 DEF Requests
<1>4. r.kind # "none"
  BY DEF idle
<1> HIDE DEF q, r
<1> QED
  BY <1>1, <1>3, <1>4, TidyRead
-----------------------------------------------------------------------------
(* The stages of a merge *)

LEMMA TidyRetry ==
    ASSUME EntitiesInv, Separate, TidyInv, NEW s \in Slots, RetryOnConflict(s)
    PROVE  TidyInv'
<1> DEFINE r == requests[s]
<1>1. r \in Requests /\ r.kind = "edit" /\ ~r.failed
  BY DEF EntitiesInv, RetryOnConflict, at
<1>2. editOf(r).kind = "edit"
  BY <1>1 DEF editOf, Requests
<1>3. goes(s, editOf(r)) /\ reads /\ ~idle(s)
  BY DEF RetryOnConflict, at, idle
<1>4. Progress(r) => Progress(editOf(r))
  BY <1>1, <1>2 DEF Progress
<1> QED
  BY <1>1, <1>2, <1>3, <1>4, TidyRead DEF reads

LEMMA TidyMergeInvEntities ==
    ASSUME EntitiesInv, Separate, TidyInv, NEW s \in Slots, MergeInvEntities(s)
    PROVE  TidyInv'
<1> DEFINE r == requests[s]
           from == docs[r.from]
           to == docs[r.to]
           new == mergeDocs(from, to)
           job == putUpdate(r.to, to, new, <<"mergeFrom", r.from>>)
           q(jobs) == [r EXCEPT !.stage = "isolate", !.jobs = jobs]
           jobs0 == {putUpdate(r.to, to, n, <<"mergeFrom", r.from>>) : n \in {new} \ {to}}
<1>1. /\ r \in Requests /\ RequestOK(r) /\ ~idle(s) /\ reads /\ ~r.failed
      /\ r.kind = "merge" /\ r.stage = "mergeDocs" /\ r.jobs = {}
  BY DEF EntitiesInv, MergeInvEntities, at, idle
<1>2. CASE isRedirection(from) \/ isRedirection(to)
  BY <1>1, <1>2, TidyFailure DEF MergeInvEntities, reads
<1>3. CASE ~(isRedirection(from) \/ isRedirection(to))
  <2>1. goes(s, q(jobs0))
    BY <1>3 DEF MergeInvEntities
  <2>2. jobs0 = IF new = to THEN {} ELSE {job}
    OBVIOUS
  <2>3. \A jobs : /\ q(jobs).kind = "merge" /\ q(jobs).stage = "isolate" /\ q(jobs).jobs = jobs
                  /\ q(jobs).from = r.from /\ q(jobs).to = r.to /\ q(jobs).failed = r.failed
    BY <1>1 DEF Requests
  <2>4. r.from \in Ids /\ r.to \in Ids /\ from \in Docs /\ to \in Docs
    BY <1>1, CurrentDoc DEF RequestOK
  <2>5. /\ new \in Docs /\ new.redirect = to.redirect
        /\ new.labels = to.labels \cup from.labels
    <3>1. from.authors # <<>> => Head(from.authors) \in Authors
      BY <2>4 DEF Docs
    <3>2. from.authors # <<>> => <<Head(from.authors)>> \in Seq(Authors)
      BY <3>1
    <3> QED
      BY <2>4, <3>2 DEF mergeDocs, Docs
  <2>6. /\ job.step = "put" /\ job.id = r.to /\ job.doc = to /\ job.new.redirect = to.redirect
        /\ job.new.labels = new.labels
    <3>1. <<"mergeFrom", r.from>> \in Contexts
      BY <2>4 DEF Contexts
    <3>2. /\ job.step = "put" /\ job.id = r.to /\ job.doc = to /\ content(job.new) = content(new)
          /\ job.new.redirect = new.redirect
      BY <2>4, <2>5, <3>1, putUpdateType
    <3> QED
      BY <2>5, <3>2 DEF content
  <2> HIDE DEF job, new, q, from, to
  <2>7. ASSUME Progress(r) PROVE Progress(q(jobs0))
    <3>1. MergeJobs(q(jobs0))
      BY <2>2, <2>3, <2>6 DEF MergeJobs, MergeSteps, puts
    <3>2. MergeItems(q(jobs0)) /\ MergeClaims(q(jobs0))
      BY <1>1, <2>3, <2>7 DEF Progress, MergeItems, MergeClaims
    <3>3. MergeLabels(q(jobs0))
      <4> DEFINE labels == beforeMerge.world.docs[r.from][1][1]
      <4>1. from.labels = labels
        BY <1>1, <2>4, <2>7 DEF Progress, MergeLabels, from
      <4>2. CASE new = to
        <5>1. labels \subseteq to.labels
          BY <2>5, <4>1, <4>2
        <5> HIDE DEF jobs0
        <5>2. puts(q(jobs0)) = {}
          BY <2>2, <2>3, <4>2 DEF puts
        <5> QED
          BY <2>3, <5>1, <5>2 DEF MergeLabels, to
      <4>3. CASE new # to
        <5> HIDE DEF jobs0
        <5>1. puts(q(jobs0)) = {job}
          BY <2>2, <2>3, <2>6, <4>3 DEF puts
        <5>2. labels \subseteq job.new.labels
          BY <2>5, <2>6, <4>1
        <5> QED
          BY <2>3, <5>1, <5>2 DEF MergeLabels
      <4> QED
        BY <4>2, <4>3
    <3> QED
      BY <2>3, <3>1, <3>2, <3>3 DEF Progress
  <2> HIDE DEF jobs0, r
  <2> QED
    BY <1>1, <2>1, <2>3, <2>7, TidyRead DEF reads, r
<1> QED
  BY <1>2, <1>3

LEMMA TidyRemoveObsoletePlaceholders ==
    ASSUME EntitiesInv, Separate, TidyInv, NEW s \in Slots, RemoveObsoletePlaceholderEntities(s)
    PROVE  TidyInv'
<1> DEFINE r == requests[s]
           d == docs[r.from]
           checks == {Job("check", h) : h \in ToSet(d.authors) \cap Humans}
           q == [r EXCEPT !.stage = "turn", !.doc = d, !.jobs = checks]
<1>1. /\ r \in Requests /\ RequestOK(r) /\ ~idle(s) /\ reads /\ ~r.failed
      /\ r.kind = "merge" /\ r.stage = "isolate" /\ r.jobs = {}
  BY DEF EntitiesInv, RemoveObsoletePlaceholderEntities, at, idle
<1>2. CASE isRedirection(d)
  BY <1>1, <1>2, TidyFailure DEF RemoveObsoletePlaceholderEntities, reads
<1>3. CASE ~isRedirection(d)
  <2>1. goes(s, q)
    BY <1>3 DEF RemoveObsoletePlaceholderEntities
  <2>2. /\ q.kind = "merge" /\ q.stage = "turn" /\ q.jobs = checks
        /\ q.from = r.from /\ q.to = r.to /\ q.failed = r.failed
    BY <1>1 DEF Requests
  <2>3. ASSUME NEW j \in checks PROVE j.step = "check"
    BY JobType DEF Steps, Ids
  <2> HIDE DEF q, checks
  <2>4. ASSUME Progress(r) PROVE Progress(q)
    <3>1. MergeJobs(q)
      BY <2>2, <2>3 DEF MergeJobs, MergeSteps, puts
    <3>2. MergeItems(q) /\ MergeClaims(q)
      BY <1>1, <2>2, <2>4 DEF Progress, MergeItems, MergeClaims
    <3>3. MergeLabels(q)
      <4>1. puts(r) = {}
        BY <1>1 DEF puts
      <4> QED
        BY <1>1, <2>2, <2>4, <4>1 DEF Progress, MergeLabels
    <3> QED
      BY <2>2, <3>1, <3>2, <3>3 DEF Progress
  <2> HIDE DEF r
  <2> QED
    BY <1>1, <2>1, <2>2, <2>4, TidyRead DEF reads, r
<1> QED
  BY <1>2, <1>3

LEMMA TidyTurnIntoRedirection ==
    ASSUME EntitiesInv, Separate, TidyInv, NEW s \in Slots, TurnIntoRedirection(s)
    PROVE  TidyInv'
<1> DEFINE r == requests[s]
           new == turnIntoRedirection(r.doc, r.to, r.removed)
           job == putUpdate(r.from, r.doc, new, None)
           q == [r EXCEPT !.stage = "propagate", !.doc = NoDoc, !.removed = {}, !.jobs = {job}]
<1>1. /\ r \in Requests /\ RequestOK(r) /\ ~idle(s) /\ reads /\ ~r.failed
      /\ r.kind = "merge" /\ r.stage = "turn" /\ r.jobs = {}
  BY DEF EntitiesInv, TurnIntoRedirection, at, idle
<1>2. /\ r.from \in Ids /\ r.to \in Uris /\ r.to # r.from
      /\ r.doc \in Docs /\ r.removed \subseteq Humans
  BY <1>1 DEF RequestOK, Requests
<1>3. goes(s, q)
  BY <1>2 DEF TurnIntoRedirection
<1>4. /\ q.kind = "merge" /\ q.stage = "propagate" /\ q.jobs = {job}
      /\ q.from = r.from /\ q.to = r.to /\ q.failed = r.failed
  BY <1>1 DEF Requests
<1>5. new \in Docs /\ new.redirect = r.to
  <2>1. <<>> \in Seq(Authors)
    OBVIOUS
  <2> QED
    BY <1>2, <2>1 DEF turnIntoRedirection, Docs
<1>6. job.step = "put" /\ job.id = r.from /\ job.new.redirect = r.to
  <2> HIDE DEF new
  <2>1. None \in Contexts
    BY DEF Contexts
  <2> QED
    BY <1>2, <1>5, <2>1, putUpdateType
<1> HIDE DEF q, job
<1>7. ASSUME Progress(r) PROVE Progress(q)
  <2>1. MergeJobs(q)
    BY <1>4, <1>6 DEF MergeJobs, MergeSteps, puts
  <2>2. MergeItems(q) /\ MergeClaims(q)
    <3>1. puts(q) # {}
      BY <1>4, <1>6 DEF puts
    <3> QED
      BY <1>1, <1>4, <1>7, <3>1 DEF Progress, MergeItems, MergeClaims
  <2>3. MergeLabels(q)
    BY <1>1, <1>4, <1>7 DEF Progress, MergeLabels
  <2> QED
    BY <1>4, <2>1, <2>2, <2>3 DEF Progress
<1> HIDE DEF r
<1> QED
  BY <1>1, <1>3, <1>4, <1>7, TidyRead DEF reads, r

LEMMA TidyPropagateRedirection ==
    ASSUME EntitiesInv, Separate, TidyInv, NEW s \in Slots, PropagateRedirection(s)
    PROVE  TidyInv'
<1> DEFINE r == requests[s]
           claims == Job("claims", NoUri)
           moves == Job("items", NoUri)
           q == [r EXCEPT !.stage = "end", !.jobs = {claims, moves}]
<1>1. /\ r \in Requests /\ RequestOK(r) /\ ~idle(s) /\ reads /\ ~r.failed
      /\ r.kind = "merge" /\ r.stage = "propagate" /\ r.jobs = {}
  BY DEF EntitiesInv, PropagateRedirection, at, idle
<1>2. goes(s, q)
  BY DEF PropagateRedirection
<1>3. /\ q.kind = "merge" /\ q.stage = "end" /\ q.jobs = {claims, moves}
      /\ q.from = r.from /\ q.to = r.to /\ q.failed = r.failed
  BY <1>1 DEF Requests
<1>4. claims.step = "claims" /\ moves.step = "items"
  BY JobType DEF Steps
<1>5. Job("redirectClaims", NoUri).step = "redirectClaims" /\ Job("bulk", NoUri).step = "bulk"
  BY JobType DEF Steps
<1>6. has(q, "claims") /\ has(q, "items") /\ ~has(q, "redirectClaims") /\ ~has(q, "bulk")
  BY <1>3, <1>4, <1>5 DEF has
<1> HIDE DEF q
<1>7. puts(q) = {} /\ puts(r) = {}
  BY <1>1, <1>3, <1>4 DEF puts
<1>8. ASSUME Progress(r) PROVE Progress(q)
  <2>1. MergeJobs(q)
    BY <1>3, <1>4, <1>7 DEF MergeJobs, MergeSteps
  <2>2. MergeItems(q)
    BY <1>1, <1>3, <1>6, <1>7, <1>8 DEF Progress, MergeItems, Redirected
  <2>3. MergeClaims(q)
    BY <1>6, <1>7 DEF MergeClaims
  <2>4. MergeLabels(q)
    BY <1>1, <1>3, <1>8 DEF Progress, MergeLabels
  <2> QED
    BY <1>3, <2>1, <2>2, <2>3, <2>4 DEF Progress
<1> HIDE DEF r
<1> QED
  BY <1>1, <1>2, <1>3, <1>8, TidyRead DEF reads, r
-----------------------------------------------------------------------------
(* The stages of a revert *)

LEMMA TidyRestoreVersion ==
    ASSUME EntitiesInv, Separate, TidyInv, NEW s \in Slots, RestoreVersion(s)
    PROVE  TidyInv'
<1> DEFINE r == requests[s]
           d == docs[r.from]
           restored == documentOf(r.change, 0)
           put == putUpdate(r.from, d, restored, None)
           q == [r EXCEPT !.stage = "items", !.change = create, !.to = d.redirect,
                          !.removed = d.removedPlaceholdersIds, !.jobs = {put}]
<1>1. /\ r \in Requests /\ RequestOK(r) /\ ~idle(s) /\ reads /\ ~r.failed
      /\ r.kind = "revert" /\ r.stage = "restore" /\ goes(s, q)
  BY DEF EntitiesInv, RestoreVersion, at, idle
<1>2. /\ q.kind = "revert" /\ q.stage = "items" /\ q.jobs = {put}
      /\ q.from = r.from /\ q.to = d.redirect /\ q.failed = r.failed
  BY <1>1 DEF Requests
<1>3. r.from \in Ids /\ r.change \in Contents /\ r.change.redirect = NoUri
  BY <1>1 DEF RequestOK, Requests, isRedirection
<1>4. put.step = "put" /\ put.id = r.from /\ put.new.redirect = NoUri
  <2>1. restored \in Docs /\ restored.redirect = NoUri
    BY <1>3 DEF documentOf, Docs, Contents
  <2>2. d \in Docs /\ None \in Contexts
    BY <1>3, CurrentDoc DEF Contexts
  <2> HIDE DEF restored, d
  <2> QED
    BY <1>3, <2>1, <2>2, putUpdateType
<1> HIDE DEF put, q
<1>5. ASSUME Progress(r), past = "orderly" PROVE Progress(q)
  <2>1. RevertJobs(q)
    BY <1>2, <1>4 DEF RevertJobs, RevertSteps, puts
  <2>2. puts(q) # {}
    BY <1>2, <1>4 DEF puts
  <2>3. d.redirect # r.from
    <3>1. Acyclic /\ {r.from} \in SUBSET Ids
      BY <1>3, <1>5 DEF Separate
    <3>2. \E e \in {r.from} : docs[e].redirect \notin {r.from}
      BY <3>1 DEF Acyclic
    <3> QED
      BY <3>2
  <2>4. RevertItems(q)
    BY <1>1, <1>2, <1>5, <2>2, <2>3 DEF Progress, RevertItems
  <2> QED
    BY <1>2, <2>1, <2>4 DEF Progress
<1> HIDE DEF r
<1> QED
  BY <1>1, <1>2, <1>5, TidyRead DEF reads, r

LEMMA TidyAfterRevert ==
    ASSUME EntitiesInv, Separate, TidyInv, NEW s \in Slots, AfterRevert(s)
    PROVE  TidyInv'
<1> DEFINE r == requests[s]
           found == {i \in Items : r.from \in ToSet(items[i].previousEntity)}
           copies == copiesOf(found)
           bulk == Job("bulk", NoUri)
           q == [r EXCEPT !.stage = "placeholders", !.copies = copies, !.jobs = {bulk}]
<1>1. /\ r \in Requests /\ RequestOK(r) /\ ~idle(s) /\ reads /\ ~r.failed
      /\ r.kind = "revert" /\ r.stage = "items" /\ r.jobs = {}
  BY DEF EntitiesInv, AfterRevert, at, idle
<1>2. CASE \E i \in found : items[i].entity # r.to \/ Head(items[i].previousEntity) # r.from
  BY <1>1, <1>2, TidyFailure DEF AfterRevert, reads
<1>3. CASE \A i \in found : items[i].entity = r.to /\ Head(items[i].previousEntity) = r.from
  <2>1. goes(s, q)
    BY <1>3 DEF AfterRevert
  <2>2. /\ q.kind = "revert" /\ q.stage = "placeholders" /\ q.jobs = {bulk} /\ q.copies = copies
        /\ q.from = r.from /\ q.to = r.to /\ q.failed = r.failed
    BY <1>1 DEF Requests
  <2>3. bulk.step = "bulk" /\ has(q, "bulk") /\ DOMAIN copies = found
    BY <2>2, JobType, CopiesType DEF Steps, has
  <2>4. puts(r) = {}
    BY <1>1 DEF puts
  <2> HIDE DEF q
  <2>5. ASSUME Progress(r) PROVE Progress(q)
    <3>1. RevertJobs(q)
      BY <2>2, <2>3 DEF RevertJobs, RevertSteps
    <3>2. Restored(r) /\ r.to # r.from
      BY <1>1, <2>4, <2>5 DEF Progress, RevertItems
    <3>3. Restored(q)
      BY <2>2, <3>2 DEF Restored, LinkedThrough
    <3>4. RevertItems(q)
      BY <1>3, <2>2, <2>3, <3>2, <3>3 DEF RevertItems
    <3> QED
      BY <2>2, <3>1, <3>4 DEF Progress
  <2> HIDE DEF r, found
  <2> QED
    BY <1>1, <2>1, <2>2, <2>5, TidyRead DEF reads, r
<1> QED
  BY <1>2, <1>3

LEMMA TidyRevertStages ==
    ASSUME EntitiesInv, Separate, TidyInv, NEW s \in Slots,
           RecoverPlaceholders(s) \/ RevertMergePatch(s) \/ RevertClaimsRedirections(s)
    PROVE  TidyInv'
<1> DEFINE r == requests[s]
           Q(stage, removed, jobs) ==
               [r EXCEPT !.stage = stage, !.removed = removed, !.jobs = jobs]
<1>1. /\ r \in Requests /\ RequestOK(r) /\ ~idle(s) /\ reads /\ ~r.failed
      /\ r.kind = "revert" /\ r.jobs = {}
      /\ r.stage \in {"placeholders", "mergePatch", "redirections"}
  BY DEF EntitiesInv, RecoverPlaceholders, RevertMergePatch, RevertClaimsRedirections, at, idle
<1>2. \A stage, jobs : [r EXCEPT !.stage = stage, !.jobs = jobs] = Q(stage, r.removed, jobs)
  BY <1>1 DEF Requests
<1>3. \A stage, removed, jobs :
         LET q == Q(stage, removed, jobs) IN
         /\ q.kind = "revert" /\ q.stage = stage /\ q.jobs = jobs
         /\ q.from = r.from /\ q.to = r.to /\ q.failed = r.failed
  BY <1>1 DEF Requests
<1>4. Progress(r) => Settled /\ docs[r.from].redirect = NoUri
  BY <1>1 DEF Progress, RevertItems, has
<1> HIDE DEF Q
<1>5. ASSUME NEW stage \in {"mergePatch", "redirections", "end"}, NEW removed, NEW jobs,
             goes(s, Q(stage, removed, jobs)),
             \A j \in jobs : j.step = IF stage = "mergePatch" THEN "recover" ELSE "revert"
      PROVE  TidyInv'
  <2> DEFINE q == Q(stage, removed, jobs)
  <2>1. /\ q.kind = "revert" /\ q.stage = stage /\ q.jobs = jobs
        /\ q.from = r.from /\ q.to = r.to /\ q.failed = r.failed
    BY <1>3
  <2> HIDE DEF q
  <2>2. RevertJobs(q)
    BY <1>5, <2>1 DEF RevertJobs, RevertSteps
  <2>3. Progress(r) => RevertItems(q)
    BY <1>4, <2>1 DEF RevertItems
  <2>4. Progress(r) => Progress(q)
    BY <2>1, <2>2, <2>3 DEF Progress
  <2> HIDE DEF r
  <2> QED
    BY <1>1, <1>5, <2>1, <2>4, TidyRead DEF reads, r, q
<1>6. CASE RecoverPlaceholders(s)
  <2> DEFINE jobs == {Job("recover", h) : h \in r.removed}
  <2>1. goes(s, Q("mergePatch", {}, jobs))
    BY <1>6 DEF RecoverPlaceholders, Q
  <2>2. \A j \in jobs : j.step = "recover"
    BY <1>1, JobType DEF Steps, Ids, Requests
  <2> HIDE DEF jobs, r
  <2> QED
    BY <1>5, <2>1, <2>2
<1>7. CASE RevertMergePatch(s)
  <2> DEFINE merges == {p \in patches[r.to] : p.context = <<"mergeFrom", r.from>>}
             first == {p \in merges : \A q \in merges : p.version <= q.version}
             jobs == IF r.to \in Ids THEN {revertJob(r.to, p) : p \in first} ELSE {}
  <2>1. CASE fails(s)
    BY <1>1, <2>1, TidyFailure DEF reads
  <2>2. CASE ~fails(s)
    <3>1. goes(s, [r EXCEPT !.stage = "redirections", !.jobs = jobs])
      BY <1>7, <2>2 DEF RevertMergePatch
    <3>2. \A j \in jobs : j.step = "revert"
      BY RevertJobType
    <3> HIDE DEF jobs, r
    <3>3. goes(s, Q("redirections", r.removed, jobs))
      BY <1>2, <3>1
    <3> QED
      BY <1>5, <3>2, <3>3
  <2> QED
    BY <2>1, <2>2
<1>8. CASE RevertClaimsRedirections(s)
  <2> DEFINE found == patchesOf(<<"redirectClaims", r.from>>)
             jobs == {revertJob(ep[1], ep[2]) : ep \in found}
  <2>1. goes(s, [r EXCEPT !.stage = "end", !.jobs = jobs])
    BY <1>8 DEF RevertClaimsRedirections
  <2>2. \A ep \in found : ep[1] \in Ids /\ ep[2] \in patches[ep[1]]
    BY DEF patchesOf
  <2>3. \A j \in jobs : j.step = "revert"
    <3> HIDE DEF found
    <3> QED
      BY <2>2, RevertJobType
  <2> HIDE DEF jobs, r
  <2>4. goes(s, Q("end", r.removed, jobs))
    BY <1>2, <2>1
  <2> QED
    BY <1>5, <2>3, <2>4
<1> QED
  BY <1>6, <1>7, <1>8
-----------------------------------------------------------------------------
(* Their jobs that read, or post a patch *)

LEMMA TidyFollows ==
    ASSUME EntitiesInv, Separate, TidyInv, NEW s \in Slots, NEW j \in requests[s].jobs, NEW next,
           follows(s, j, next), UNCHANGED <<docs, items, past, beforeMerge>>,
           \/ /\ j.step \in {"check", "remove"}
              /\ \A n \in next : \/ n.step = "remove"
                                 \/ /\ n.step = "put" /\ n.new.redirect = n.doc.redirect
                                    /\ n.new.labels = n.doc.labels
           \/ j.step \in {"recover", "revert"} /\ \A n \in next : n.step = "put"
    PROVE  TidyInv'
<1> DEFINE r == requests[s]
           q == [r EXCEPT !.jobs = (r.jobs \ {j}) \cup next]
<1>1. r \in Requests /\ r.kind # "none" /\ goes(s, q)
  BY DEF EntitiesInv, RequestOK, follows
<1>2. /\ q.kind = r.kind /\ q.stage = r.stage /\ q.jobs = (r.jobs \ {j}) \cup next
      /\ q.from = r.from /\ q.to = r.to /\ q.failed = r.failed
  BY <1>1 DEF Requests
<1> HIDE DEF q
<1>3. ASSUME Progress(r), r.kind = "merge" PROVE Progress(q)
  <2>1. MergeJobs(r) /\ MergeItems(r) /\ MergeLabels(r)
    BY <1>3 DEF Progress
  <2>2. r.stage = "turn" /\ j.step \in {"check", "remove"}
    BY <2>1 DEF MergeJobs, MergeSteps
  <2>3. \A n \in q.jobs : n \in r.jobs \/ n \in next
    BY <1>2
  <2>4. MergeJobs(q)
    BY <1>2, <2>1, <2>2, <2>3 DEF MergeJobs, MergeSteps, puts
  <2>5. MergeItems(q) /\ MergeClaims(q) /\ MergeLabels(q)
    BY <1>2, <2>1, <2>2 DEF MergeItems, MergeClaims, MergeLabels
  <2> QED
    BY <1>2, <1>3, <2>4, <2>5 DEF Progress
<1>4. ASSUME Progress(r), r.kind = "revert" PROVE Progress(q)
  <2>1. RevertJobs(r) /\ RevertItems(r)
    BY <1>4 DEF Progress
  <2>2. /\ r.stage \in {"mergePatch", "redirections", "end"} /\ j.step \in {"recover", "revert"}
        /\ \A n \in next : n.step = "put"
    BY <2>1 DEF RevertJobs, RevertSteps
  <2>3. \A n \in q.jobs : n \in r.jobs \/ n \in next
    BY <1>2
  <2>4. RevertJobs(q)
    BY <1>2, <2>1, <2>2, <2>3 DEF RevertJobs, RevertSteps
  <2>5. RevertItems(q)
    BY <1>2, <2>1, <2>2 DEF RevertItems
  <2> QED
    BY <1>2, <1>4, <2>4, <2>5 DEF Progress
<1>5. ASSUME Progress(r), r.kind = "edit" PROVE Progress(q)
  BY <1>2, <1>5 DEF Progress
<1>6. r.kind \in {"edit", "merge", "revert"}
  BY <1>1 DEF Requests
<1> HIDE DEF r
<1> QED
  BY <1>1, <1>2, <1>3, <1>4, <1>5, <1>6, TidyRead DEF r, idle

LEMMA TidyCreatePatch ==
    ASSUME EntitiesInv, Separate, TidyInv, NEW s \in Slots, NEW j \in requests[s].jobs,
           CreatePatch(s, j)
    PROVE  TidyInv'
<1> DEFINE r == requests[s]
           q(removed) == [r EXCEPT !.jobs = r.jobs \ {j}, !.removed = removed]
<1>1. r \in Requests /\ r.kind # "none" /\ UNCHANGED <<docs, items, past, beforeMerge>>
      /\ j.step = "patch"
  BY DEF EntitiesInv, RequestOK, CreatePatch
<1>2. throws(s, j) \/ \E removed : goes(s, q(removed))
  BY DEF CreatePatch
<1>3. CASE throws(s, j)
  BY <1>1, <1>3, TidyFailure DEF idle
<1>4. ASSUME NEW removed, goes(s, q(removed)) PROVE TidyInv'
  <2> DEFINE p == q(removed)
  <2>1. /\ p.kind = r.kind /\ p.stage = r.stage /\ p.jobs = r.jobs \ {j} /\ p.copies = r.copies
        /\ p.from = r.from /\ p.to = r.to /\ p.failed = r.failed /\ p.found = r.found
    BY <1>1 DEF Requests
  <2> HIDE DEF q, p
  <2>2. puts(p) = puts(r)
    BY <1>1, <2>1 DEF puts
  <2>3. \A step \in Steps \ {"patch"} : has(p, step) = has(r, step)
    BY <1>1, <2>1, JobType DEF has
  <2>4. /\ has(p, "claims") = has(r, "claims")
        /\ has(p, "redirectClaims") = has(r, "redirectClaims")
        /\ has(p, "items") = has(r, "items") /\ has(p, "bulk") = has(r, "bulk")
    BY <2>3 DEF Steps
  <2>5. ASSUME Progress(r) PROVE Progress(p)
    <3>1. MergeJobs(r) => MergeJobs(p)
      BY <2>1, <2>2 DEF MergeJobs
    <3>2. MergeItems(r) => MergeItems(p)
      BY <2>1, <2>2, <2>4 DEF MergeItems, Redirected
    <3>3. MergeClaims(r) => MergeClaims(p)
      BY <2>1, <2>2, <2>4 DEF MergeClaims
    <3>4. MergeLabels(r) => MergeLabels(p)
      BY <2>1, <2>2 DEF MergeLabels
    <3>5. RevertJobs(r) => RevertJobs(p)
      BY <2>1, <2>2 DEF RevertJobs
    <3>6. RevertItems(r) => RevertItems(p)
      BY <2>1, <2>2, <2>4 DEF RevertItems, Restored, LinkedThrough
    <3> QED
      BY <2>1, <2>5, <3>1, <3>2, <3>3, <3>4, <3>5, <3>6 DEF Progress
  <2> HIDE DEF r
  <2> QED
    BY <1>1, <1>4, <2>1, <2>5, TidyRead DEF r, idle, p
<1> QED
  BY <1>2, <1>3, <1>4

LEMMA TidyPlaceholderJobs ==
    ASSUME EntitiesInv, Separate, TidyInv, NEW s \in Slots, NEW j \in requests[s].jobs,
           DeleteIfIsolated(s, j) \/ RemovePlaceholder(s, j) \/ RecoverPlaceholder(s, j)
    PROVE  TidyInv'
<1> DEFINE d == docs[j.id]
<1>1. UNCHANGED <<docs, items, past, beforeMerge>>
  BY DEF DeleteIfIsolated, RemovePlaceholder, RecoverPlaceholder, reads
<1>2. JobOK(requests[s], j)
  BY DEF EntitiesInv, RequestOK
<1>3. j.step \in {"check", "remove", "recover"} => j.id \in Ids /\ d \in Docs /\ None \in Contexts
  BY <1>2, CurrentDoc DEF JobOK, Ids, Contexts
<1>4. CASE DeleteIfIsolated(s, j)
  <2>1. j.step = "check" /\ Job("remove", j.id).step = "remove"
    BY <1>3, <1>4, JobType DEF DeleteIfIsolated, Steps
  <2>2. PICK next \in SUBSET {Job("remove", j.id)} : follows(s, j, next)
    BY <1>4 DEF DeleteIfIsolated
  <2> QED
    BY <1>1, <2>1, <2>2, TidyFollows
<1>5. CASE RemovePlaceholder(s, j)
  <2> DEFINE new == [d EXCEPT !.type = "removed:placeholder"]
             n == putUpdate(j.id, d, new, None)
  <2>1. j.step = "remove"
    BY <1>5 DEF RemovePlaceholder
  <2>2. PICK next \in SUBSET {n} : follows(s, j, next)
    BY <1>5 DEF RemovePlaceholder
  <2>3. new \in Docs /\ new.redirect = d.redirect /\ new.labels = d.labels
    BY <1>3, <2>1 DEF Docs
  <2> HIDE DEF new, d
  <2>4. /\ n.step = "put" /\ n.doc = d /\ n.new.redirect = new.redirect
        /\ content(n.new) = content(new)
    BY <1>3, <2>1, <2>3, putUpdateType
  <2>5. n.step = "put" /\ n.new.redirect = n.doc.redirect /\ n.new.labels = n.doc.labels
    BY <2>3, <2>4 DEF content
  <2> QED
    BY <1>1, <2>1, <2>2, <2>5, TidyFollows
<1>6. CASE RecoverPlaceholder(s, j)
  <2> DEFINE new == [d EXCEPT !.type = "entity"]
             n == putUpdate(j.id, d, new, None)
  <2>1. j.step = "recover" /\ follows(s, j, {n})
    BY <1>6 DEF RecoverPlaceholder
  <2>2. new \in Docs
    BY <1>3, <2>1 DEF Docs
  <2> HIDE DEF new, d
  <2>3. n.step = "put"
    BY <1>3, <2>1, <2>2, putUpdateType
  <2> QED
    BY <1>1, <2>1, <2>3, TidyFollows
<1> QED
  BY <1>4, <1>5, <1>6
LEMMA TidyRevertFromPatchDoc ==
    ASSUME EntitiesInv, Separate, TidyInv, NEW s \in Slots, NEW j \in requests[s].jobs,
           RevertFromPatchDoc(s, j)
    PROVE  TidyInv'
<1> DEFINE N(new) == [putUpdate(j.id, docs[j.id], new, None) EXCEPT !.patch = j.patch]
<1>1. UNCHANGED <<docs, items, past, beforeMerge>> /\ j.step = "revert"
  BY DEF RevertFromPatchDoc, reads
<1>2. \A new : N(new).step = "put"
  BY DEF putUpdate, NoJob
<1>3. throws(s, j) \/ \E new : follows(s, j, {N(new)})
  BY DEF RevertFromPatchDoc
<1>4. requests[s].kind # "none"
  BY DEF EntitiesInv, RequestOK
<1>5. CASE throws(s, j)
  BY <1>1, <1>4, <1>5, TidyFailure DEF idle
<1>6. ASSUME NEW new, follows(s, j, {N(new)}) PROVE TidyInv'
  <2>1. \A n \in {N(new)} : n.step = "put"
    BY <1>2
  <2> HIDE DEF N
  <2> QED
    BY <1>1, <1>6, <2>1, TidyFollows
<1> QED
  BY <1>3, <1>5, <1>6

\* Where as many claims are redirected as the work has, none is left
LEMMA RedirectedClaimsAreGone ==
    ASSUME NEW S, NEW authors \in Seq(S), NEW from, NEW to, from # to, from \in S => to \in S,
           NEW a \in applyRedirections(authors,
                         Cardinality({n \in DOMAIN authors : authors[n] = from}), from, to)
    PROVE  from \notin ToSet(a)
<1> DEFINE rows == {n \in DOMAIN authors : authors[n] = from}
           k == indexOf(authors, from)
           replaced == ReplaceAt(authors, k, to)
<1>1. from \in ToSet(authors)
  BY applyRedirectionsType
<1>2. from \in S /\ to \in S
  BY <1>1 DEF ToSet
<1>3. k \in DOMAIN authors /\ authors[k] = from
  BY <1>1, indexOfType
<1> HIDE DEF k
<1>4. /\ replaced \in Seq(S) /\ DOMAIN replaced = DOMAIN authors /\ replaced[k] = to
      /\ \A n \in DOMAIN authors : n # k => replaced[n] = authors[n]
  BY <1>2, <1>3 DEF ReplaceAt
<1>5. \A q \in Seq(S) : /\ from \notin ToSet(q) => redirectClaim(q, from, to) = {}
                        /\ to \in ToSet(q) => \A x \in redirectClaim(q, from, to) :
                                                  from \notin ToSet(x)
  <2> SUFFICES ASSUME NEW q \in Seq(S), to \in ToSet(q), NEW x \in redirectClaim(q, from, to)
               PROVE  from \notin ToSet(x)
    BY DEF redirectClaim
  <2>1. x = without(q, from)
    BY DEF redirectClaim
  <2> QED
    BY <2>1, withoutType
<1>6. CASE to \in ToSet(authors)
  <2>1. \A x \in redirectClaim(authors, from, to) :
            x \in Seq(S) /\ redirectClaim(x, from, to) = {}
    BY <1>2, <1>5, <1>6, redirectClaimType
  <2>2. a \in redirectClaim(authors, from, to)
    BY <2>1 DEF applyRedirections
  <2> QED
    BY <1>5, <1>6, <2>2
<1>7. CASE to \notin ToSet(authors)
  <2>1. redirectClaim(authors, from, to) = {replaced}
    BY <1>1, <1>7 DEF redirectClaim, k
  <2> HIDE DEF replaced
  <2>2. to \in ToSet(replaced)
    BY <1>3, <1>4 DEF ToSet
  <2>3. CASE Cardinality(rows) = 1
    <3>1. IsFiniteSet(rows)
      <4>1. IsFiniteSet(1..Len(authors)) /\ rows \subseteq 1..Len(authors)
        BY FS_Interval
      <4> QED
        BY <4>1, FS_Subset
    <3>2. \E n : rows = {n}
      BY <2>3, <3>1, FS_Singleton
    <3>3. \A n \in DOMAIN authors : n # k => authors[n] # from
      BY <1>3, <3>2
    <3>4. from \notin ToSet(replaced)
      BY <1>4, <3>3 DEF ToSet
    <3>5. a = replaced
      BY <2>1, <2>3 DEF applyRedirections
    <3> QED
      BY <3>4, <3>5
  <2>4. CASE Cardinality(rows) # 1
    <3>1. a \in redirectClaim(replaced, from, to)
      BY <2>1, <2>4 DEF applyRedirections
    <3> QED
      BY <1>4, <1>5, <2>2, <3>1
  <2> QED
    BY <2>3, <2>4
<1> QED
  BY <1>6, <1>7

LEMMA TidyAfterMerge ==
    ASSUME EntitiesInv, Separate, TidyInv, NEW s \in Slots, NEW j \in requests[s].jobs,
           AfterMerge(s, j)
    PROVE  TidyInv'
<1> DEFINE r == requests[s]
           copies == copiesOf(on(r.from))
           bulk == Job("bulk", NoUri)
           q == [r EXCEPT !.copies = copies, !.jobs = (r.jobs \ {j}) \cup {bulk}]
<1>1. /\ r \in Requests /\ UNCHANGED <<docs, items, past, beforeMerge>> /\ j.step = "items"
      /\ r.kind = "merge" /\ r.stage = "end" /\ goes(s, q)
  BY DEF EntitiesInv, RequestOK, JobOK, AfterMerge, reads, on
<1>2. /\ q.kind = "merge" /\ q.stage = "end" /\ q.copies = copies
      /\ q.jobs = (r.jobs \ {j}) \cup {bulk}
      /\ q.from = r.from /\ q.to = r.to /\ q.failed = r.failed /\ q.found = r.found
  BY <1>1 DEF Requests
<1>3. bulk.step = "bulk" /\ Job("claims", NoUri).step = "claims"
      /\ Job("redirectClaims", NoUri).step = "redirectClaims"
  BY JobType DEF Steps
<1> HIDE DEF q, copies
<1>4. puts(q) = puts(r)
  BY <1>1, <1>2, <1>3 DEF puts
<1>5. /\ has(q, "claims") = has(r, "claims") /\ has(q, "redirectClaims") = has(r, "redirectClaims")
      /\ has(q, "bulk")
  BY <1>1, <1>2, <1>3 DEF has
<1>6. ASSUME Progress(r) PROVE Progress(q)
  <2>1. MergeJobs(r) /\ MergeItems(r) /\ MergeClaims(r) /\ MergeLabels(r)
    BY <1>1, <1>6 DEF Progress
  <2>2. MergeJobs(q)
    <3>1. \A n \in q.jobs : n \in r.jobs \/ n = bulk
      BY <1>2
    <3> HIDE DEF bulk
    <3>2. bulk = Job(bulk.step, NoUri) /\ bulk.step = "bulk"
      BY <1>3 DEF bulk
    <3> QED
      BY <1>1, <1>2, <1>4, <2>1, <3>1, <3>2 DEF MergeJobs, MergeSteps
  <2>3. MergeItems(q)
    BY <1>1, <1>2, <1>5, <2>1 DEF MergeItems, Redirected, copies
  <2>4. MergeClaims(q) /\ MergeLabels(q)
    BY <1>1, <1>2, <1>4, <1>5, <2>1 DEF MergeClaims, MergeLabels
  <2> QED
    BY <1>2, <2>2, <2>3, <2>4 DEF Progress
<1> HIDE DEF r
<1> QED
  BY <1>1, <1>2, <1>6, TidyRead DEF r, idle
\* Each work of the view is about to be written without the claim
LEMMA RedirectedClaimsWrites ==
    ASSUME EntitiesInv, NEW r \in Requests, RequestOK(r), r.kind = "merge",
           r.found = rowsOf(r.from), NEW w \in byClaimsValue(r.from),
           NEW a \in applyRedirections(docs[w].authors, r.found[w], r.from, r.to),
           NEW n, n = putUpdate(w, docs[w], [docs[w] EXCEPT !.authors = a],
                                <<"redirectClaims", r.from>>)
    PROVE  /\ n.step = "put" /\ n.id = w /\ n.new.redirect = n.doc.redirect
           /\ n.new.labels = n.doc.labels /\ r.from \notin ToSet(n.new.authors)
<1> DEFINE d == docs[w]
           new == [d EXCEPT !.authors = a]
           context == <<"redirectClaims", r.from>>
<1>1. w \in Works /\ w \in Ids /\ d \in Docs /\ d.authors \in Seq(Authors)
  BY CurrentDoc DEF Ids, Docs, byClaimsValue
<1>2. r.from \in Ids /\ r.to \in Uris /\ sameType(r.from, r.to) /\ r.from # r.to
  BY DEF RequestOK
<1>3. r.from \in Authors => r.to \in Authors
  BY <1>2, EntitiesAssumption DEF sameType, Authors, Ids, Uris, Wikidata
<1>4. r.found[w] = Cardinality({n1 \in DOMAIN d.authors : d.authors[n1] = r.from})
  BY DEF rowsOf
<1>5. a \in Seq(Authors)
  BY <1>1, <1>3, applyRedirectionsType
<1>6. r.from \notin ToSet(a)
  BY <1>1, <1>2, <1>3, <1>4, RedirectedClaimsAreGone
<1>7. /\ new \in Docs /\ new.redirect = d.redirect /\ new.labels = d.labels /\ new.authors = a
  BY <1>1, <1>5 DEF Docs
<1>8. context \in Contexts
  BY <1>2 DEF Contexts
<1>9. n = putUpdate(w, d, new, context)
  OBVIOUS
<1> HIDE DEF new, d, context
<1>10. /\ n.step = "put" /\ n.id = w /\ n.doc = d /\ content(n.new) = content(new)
       /\ n.new.redirect = new.redirect
  BY <1>1, <1>7, <1>8, <1>9, putUpdateType
<1> QED
  BY <1>6, <1>7, <1>10 DEF content

LEMMA TidyRedirectClaims ==
    ASSUME EntitiesInv, Separate, TidyInv, NEW s \in Slots, NEW j \in requests[s].jobs,
           RedirectClaims(s, j)
    PROVE  TidyInv'
<1> DEFINE r == requests[s]
           updates(w) == {[docs[w] EXCEPT !.authors = a] :
                            a \in applyRedirections(docs[w].authors, r.found[w], r.from, r.to)}
           context == <<"redirectClaims", r.from>>
           writes == UNION {{putUpdate(w, docs[w], new, context) : new \in updates(w)} :
                              w \in DOMAIN r.found}
           Q(found, next) == [r EXCEPT !.found = found, !.jobs = (r.jobs \ {j}) \cup next]
           redirect == Job("redirectClaims", NoUri)
<1>1. /\ r \in Requests /\ RequestOK(r) /\ UNCHANGED <<docs, items, past, beforeMerge>>
      /\ r.kind = "merge" /\ r.stage = "end" /\ j.step \in {"claims", "redirectClaims"}
  BY DEF EntitiesInv, RequestOK, JobOK, RedirectClaims, reads
<1>2. \A found, next :
         LET q == Q(found, next) IN
         /\ q.kind = "merge" /\ q.stage = "end" /\ q.found = found
         /\ q.jobs = (r.jobs \ {j}) \cup next
         /\ q.from = r.from /\ q.to = r.to /\ q.failed = r.failed /\ q.copies = r.copies
  BY <1>1 DEF Requests
<1>3. \A step \in {"claims", "redirectClaims", "items", "bulk"} : Job(step, NoUri).step = step
  BY JobType DEF Steps
<1> HIDE DEF Q
<1>4. ASSUME NEW found, NEW next, goes(s, Q(found, next)),
             \A n \in next : \/ n = redirect
                             \/ /\ n.step = "put" /\ n.new.redirect = n.doc.redirect
                                /\ n.new.labels = n.doc.labels
                                /\ r.from \notin ToSet(n.new.authors),
             Progress(r) => MergeClaims(Q(found, next))
      PROVE  TidyInv'
  <2> DEFINE q == Q(found, next)
  <2>1. /\ q.kind = "merge" /\ q.stage = "end" /\ q.jobs = (r.jobs \ {j}) \cup next
        /\ q.from = r.from /\ q.to = r.to /\ q.failed = r.failed /\ q.copies = r.copies
    BY <1>2
  <2> HIDE DEF q
  <2>2. redirect.step = "redirectClaims"
    BY <1>3
  <2>3. ASSUME Progress(r) PROVE Progress(q)
    <3>1. MergeJobs(r) /\ MergeItems(r) /\ MergeLabels(r)
      BY <1>1, <2>3 DEF Progress
    <3>2. MergeJobs(q)
      <4>1. \A n \in q.jobs : n \in r.jobs \/ n \in next
        BY <2>1
      <4>2. redirect = Job(redirect.step, NoUri)
        BY <2>2
      <4> HIDE DEF redirect
      <4> QED
        BY <1>1, <1>4, <2>1, <2>2, <3>1, <4>1, <4>2 DEF MergeJobs, MergeSteps, puts
    <3>3. MergeItems(q)
      <4>1. \A step \in {"items", "bulk"} : has(q, step) = has(r, step)
        BY <1>1, <1>3, <1>4, <2>1, <2>2 DEF has
      <4>2. has(q, "items") = has(r, "items") /\ has(q, "bulk") = has(r, "bulk")
        BY <4>1
      <4> QED
        BY <1>1, <2>1, <3>1, <4>2 DEF MergeItems, Redirected
    <3>4. MergeLabels(q)
      BY <1>1, <2>1, <3>1 DEF MergeLabels
    <3> QED
      BY <1>4, <2>1, <2>3, <3>2, <3>3, <3>4 DEF Progress, q
  <2> HIDE DEF r
  <2> QED
    BY <1>1, <1>4, <2>1, <2>3, TidyRead DEF r, idle, q
<1>5. CASE j.step = "claims"
  <2> DEFINE q == Q(rowsOf(r.from), {redirect})
  <2>1. goes(s, q)
    BY <1>5 DEF RedirectClaims, Q
  <2>2. Progress(r) => MergeClaims(q)
    <3> SUFFICES ASSUME Progress(r) PROVE MergeClaims(q)
      OBVIOUS
    <3>1. /\ q.found = rowsOf(r.from) /\ q.from = r.from /\ q.stage = "end"
          /\ q.jobs = (r.jobs \ {j}) \cup {redirect}
      BY <1>2
    <3>2. MergeJobs(r) /\ MergeClaims(r)
      BY <1>1 DEF Progress
    <3>3. j = Job("claims", NoUri)
      BY <1>5, <3>2 DEF MergeJobs
    <3> HIDE DEF q
    <3>4. puts(r) = {}
      BY <1>1, <3>2, <3>3 DEF MergeClaims, has
    <3>5. puts(q) = {} /\ has(q, "redirectClaims") /\ ~has(q, "claims")
      BY <1>3, <3>1, <3>3, <3>4 DEF puts, has
    <3> QED
      BY <3>1, <3>5 DEF MergeClaims
  <2> HIDE DEF redirect, r
  <2> QED
    BY <1>4, <2>1, <2>2
<1>6. CASE j.step = "redirectClaims" /\ \E w \in DOMAIN r.found : updates(w) = {}
  <2>1. throws(s, j)
    BY <1>6 DEF RedirectClaims
  <2> QED
    BY <1>1, <2>1, TidyFailure DEF idle
<1>7. CASE j.step = "redirectClaims" /\ \A w \in DOMAIN r.found : updates(w) # {}
  <2> DEFINE q == Q(<<>>, writes)
  <2>1. goes(s, q)
    BY <1>7 DEF RedirectClaims, Q
  <2>2. CASE ~Progress(r)
    <3>1. q.kind = "merge" /\ q.failed = r.failed
      BY <1>2
    <3> HIDE DEF q, r
    <3> QED
      BY <1>1, <2>1, <2>2, <3>1, TidyRead DEF r, idle
  <2>3. CASE Progress(r)
    <3>1. MergeJobs(r) /\ MergeClaims(r)
      BY <1>1, <2>3 DEF Progress
    <3>2. j = redirect
      BY <1>7, <3>1 DEF MergeJobs
    <3>3. r.found = rowsOf(r.from) /\ puts(r) = {} /\ ~has(r, "claims")
      BY <1>1, <3>1, <3>2 DEF MergeClaims, has
    <3>4. DOMAIN r.found = byClaimsValue(r.from)
      BY <3>3 DEF rowsOf
    <3>5. ASSUME NEW w \in byClaimsValue(r.from), NEW new \in updates(w), NEW n,
                 n = putUpdate(w, docs[w], new, context)
          PROVE  /\ n.step = "put" /\ n.id = w /\ n.new.redirect = n.doc.redirect
                 /\ n.new.labels = n.doc.labels /\ r.from \notin ToSet(n.new.authors)
      <4>1. PICK a \in applyRedirections(docs[w].authors, r.found[w], r.from, r.to) :
                 new = [docs[w] EXCEPT !.authors = a]
        OBVIOUS
      <4> HIDE DEF r
      <4> QED
        BY <1>1, <3>3, <3>5, <4>1, RedirectedClaimsWrites
    <3> HIDE DEF updates
    <3>6. ASSUME NEW n \in writes
          PROVE  /\ n.step = "put" /\ n.new.redirect = n.doc.redirect
                 /\ n.new.labels = n.doc.labels /\ r.from \notin ToSet(n.new.authors)
      <4>1. PICK w \in DOMAIN r.found : \E new \in updates(w) :
                    n = putUpdate(w, docs[w], new, context)
        OBVIOUS
      <4> QED
        BY <3>4, <3>5, <4>1
    <3>7. ASSUME NEW w \in byClaimsValue(r.from) PROVE \E n \in writes : n.step = "put" /\ n.id = w
      <4>1. PICK new \in updates(w) : TRUE
        BY <1>7, <3>4
      <4>2. putUpdate(w, docs[w], new, context) \in writes
        BY <3>4, <4>1
      <4> QED
        BY <3>5, <4>1, <4>2
    <3> HIDE DEF writes
    <3>8. MergeClaims(q)
      <4>1. q.jobs = (r.jobs \ {j}) \cup writes /\ q.from = r.from
        BY <1>2
      <4> HIDE DEF q
      <4>2. ~has(q, "claims") /\ ~has(q, "redirectClaims")
        BY <1>3, <3>2, <3>3, <3>6, <4>1 DEF has
      <4>3. \A w \in byClaimsValue(q.from) : \E n \in puts(q) : n.id = w
        BY <3>7, <4>1 DEF puts
      <4> QED
        BY <4>2, <4>3 DEF MergeClaims
    <3> HIDE DEF r
    <3> QED
      BY <1>4, <2>1, <3>6, <3>8
  <2> QED
    BY <2>2, <2>3
<1> QED
  BY <1>1, <1>5, <1>6, <1>7

-----------------------------------------------------------------------------
(* Their writes of items *)

\* An item that was on the entity follows its redirection
LEMMA MovedItem ==
    ASSUME NEW x \in ItemDocs, x.entity \in Works, NEW to, docs[x.entity].redirect = to,
           Linked(x), to \in Ids => ~isRedirection(docs[to]), NEW y, y = updateEntity(x, to)
    PROVE  Linked(y) /\ Landed(y) /\ y.entity = to
<1> DEFINE p == x.previousEntity
<1>1. p \in Seq(Works) /\ y.entity = to /\ y.previousEntity = <<x.entity>> \o p
  BY DEF updateEntity, ItemDocs
<1>2. Len(y.previousEntity) = Len(p) + 1 /\ y.previousEntity[1] = x.entity
      /\ \A n \in 2..(Len(p) + 1) : y.previousEntity[n] = p[n - 1]
  BY <1>1
<1>3. ASSUME NEW n \in 1..Len(y.previousEntity)
      PROVE  docs[y.previousEntity[n]].redirect = nextOf(y, n)
  <2>1. CASE n = 1
    BY <1>1, <1>2, <2>1 DEF nextOf
  <2>2. CASE n # 1
    <3>1. n - 1 \in 1..Len(p) /\ n \in 2..(Len(p) + 1) /\ Len(p) \in Nat
      BY <1>1, <1>2, <2>2
    <3>2. docs[p[n - 1]].redirect = nextOf(x, n - 1)
      BY <3>1 DEF Linked
    <3>3. nextOf(x, n - 1) = nextOf(y, n)
      <4>1. CASE n = 2
        BY <1>2, <4>1 DEF nextOf
      <4>2. CASE n # 2
        <5>1. n - 1 \in 2..(Len(p) + 1) /\ n - 1 # 1
          BY <2>2, <3>1, <4>2
        <5>2. y.previousEntity[n - 1] = p[n - 1 - 1]
          BY <1>2, <5>1
        <5> QED
          BY <2>2, <5>1, <5>2 DEF nextOf
      <4> QED
        BY <4>1, <4>2
    <3> QED
      BY <1>2, <3>1, <3>2, <3>3
  <2> QED
    BY <2>1, <2>2
<1> QED
  BY <1>1, <1>3 DEF Linked, Landed

\* An item that came from the entity in the merge goes back to it: it was not on the other
\* entity before, which is no redirection
LEMMA RevertedItem ==
    ASSUME NEW x \in ItemDocs, NEW r, LinkedThrough(x, r), Landed(x), x.entity = r.to,
           r.from \in ToSet(x.previousEntity), Head(x.previousEntity) = r.from, r.to # r.from,
           docs[r.from].redirect = NoUri, NEW y, y = revertEntity(x)
    PROVE  Linked(y) /\ Landed(y)
<1> DEFINE p == x.previousEntity
<1>1. p \in Seq(Works) /\ Len(p) \in Nat /\ p # <<>>
  BY DEF ItemDocs, ToSet
<1>2. p[1] = r.from /\ Len(p) >= 1
  BY <1>1
<1>3. y.entity = r.from /\ y.previousEntity = Tail(p)
  BY DEF revertEntity, ItemDocs
<1>4. Len(y.previousEntity) = Len(p) - 1
      /\ \A n \in 1..(Len(p) - 1) : y.previousEntity[n] = p[n + 1]
  BY <1>1, <1>2, <1>3
<1>5. ASSUME NEW n \in 1..(Len(p) - 1) PROVE p[n + 1] # r.from /\ nextOf(y, n) = nextOf(x, n + 1)
  <2>1. n \in 1..Len(p) /\ n + 1 \in 1..Len(p) /\ n + 1 # 1 /\ n + 1 - 1 = n
    BY <1>1
  <2>2. nextOf(x, n + 1) = p[n] /\ p[n] \in Works
    BY <1>1, <2>1 DEF nextOf
  <2>3. ASSUME p[n + 1] = r.from PROVE FALSE
    <3>1. p[n] = r.to
      BY <2>1, <2>2, <2>3 DEF LinkedThrough
    <3>2. n # 1
      BY <1>2, <3>1
    <3>3. n - 1 \in 1..Len(p) /\ p[n - 1] \in Works
      BY <1>1, <2>1, <3>2
    <3>4. docs[r.to].redirect = p[n - 1]
      BY <2>1, <3>1, <3>2 DEF LinkedThrough, nextOf
    <3>5. r.to \in Ids
      BY <2>2, <3>1 DEF Ids
    <3> QED
      BY <3>3, <3>4, <3>5, EntitiesAssumption DEF Landed, isRedirection
  <2>4. nextOf(y, n) = p[n]
    <3>1. CASE n = 1
      BY <1>2, <1>3, <3>1 DEF nextOf
    <3>2. CASE n # 1
      <4>1. n - 1 \in 1..(Len(p) - 1) /\ n - 1 + 1 = n
        BY <1>1, <3>2
      <4> QED
        BY <1>4, <3>2, <4>1 DEF nextOf
    <3> QED
      BY <3>1, <3>2
  <2> QED
    BY <2>2, <2>3, <2>4
<1>6. ASSUME NEW n \in 1..Len(y.previousEntity)
      PROVE  docs[y.previousEntity[n]].redirect = nextOf(y, n)
  <2>1. n \in 1..(Len(p) - 1) /\ n + 1 \in 1..Len(p)
    BY <1>1, <1>4
  <2>2. docs[p[n + 1]].redirect = nextOf(x, n + 1)
    BY <1>5, <2>1 DEF LinkedThrough
  <2> QED
    BY <1>4, <1>5, <2>1, <2>2
<1> QED
  BY <1>3, <1>6 DEF Linked, Landed, isRedirection

\* An item that was never on the entity is not concerned
LEMMA OtherItem ==
    ASSUME NEW x \in ItemDocs, NEW r, LinkedThrough(x, r), r.from \notin ToSet(x.previousEntity)
    PROVE  Linked(x)
<1>1. \A n \in 1..Len(x.previousEntity) : x.previousEntity[n] # r.from
  BY DEF ItemDocs, ToSet
<1> QED
  BY <1>1 DEF LinkedThrough, Linked

LEMMA TidyBulk ==
    ASSUME EntitiesInv, Separate, TidyInv, NEW s \in Slots, NEW j \in requests[s].jobs,
           Bulk(s, j)
    PROVE  TidyInv'
<1>1. PICK r \in Requests : r = requests[s]
  BY DEF EntitiesInv
<1> DEFINE fresh == {i \in DOMAIN r.copies : items[i].version = r.copies[i].version}
           update(i) == IF r.kind = "merge" THEN updateEntity(i, r.to) ELSE revertEntity(i)
<1>2. PICK q : q = [r EXCEPT !.jobs = r.jobs \ {j}, !.copies = <<>>,
                             !.failed = r.failed \/ fresh # DOMAIN r.copies]
  OBVIOUS
<1>3. /\ q.kind = r.kind /\ q.stage = r.stage /\ q.jobs = r.jobs \ {j} /\ q.from = r.from
      /\ q.to = r.to /\ q.found = r.found /\ (q.failed <=> r.failed \/ fresh # DOMAIN r.copies)
  BY <1>2 DEF Requests
<1>4. /\ goes(s, q) /\ RequestOK(r) /\ j.step = "bulk" /\ j \in r.jobs
      /\ UNCHANGED <<docs, past, beforeMerge>>
      /\ items' = [i \in Items |-> IF i \in fresh THEN update(r.copies[i]) ELSE items[i]]
  BY <1>1, <1>2 DEF Bulk, EntitiesInv
<1>5. r.kind \in {"merge", "revert"}
  BY <1>4 DEF RequestOK, JobOK
<1> HIDE DEF fresh, update
<1>6. ASSUME NEW found \in SUBSET Items, r.copies = copiesOf(found)
      PROVE  /\ \A i \in found : items'[i] = update(items[i])
             /\ \A i \in Items \ found : items'[i] = items[i]
  <2>1. DOMAIN r.copies = found /\ \A i \in found : r.copies[i] = items[i]
    BY <1>6, CopiesType
  <2>2. fresh = found
    BY <2>1 DEF fresh
  <2> QED
    BY <1>4, <2>1, <2>2
<1>7. ASSUME \A i \in Items : \E y : items'[i] = y /\ Linked(y) /\ Landed(y) PROVE Settled'
  BY <1>4, <1>7 DEF Settled, Linked, Landed, nextOf
<1>8. puts(q) = puts(r)
  BY <1>3, <1>4 DEF puts
<1>9. ASSUME past = "orderly", Progress(r), r.kind = "merge" PROVE Progress(q)'
  <2>1. MergeJobs(r) /\ MergeItems(r) /\ MergeClaims(r) /\ MergeLabels(r)
    BY <1>9 DEF Progress
  <2>2. r.stage = "end" /\ j = Job("bulk", NoUri)
    BY <1>4, <2>1 DEF MergeJobs, MergeSteps
  <2>3. has(r, "bulk")
    BY <1>4, <2>2 DEF has
  <2>4. r.copies = copiesOf(on(r.from)) /\ Redirected(r)
    BY <2>1, <2>2, <2>3 DEF MergeItems
  <2>5. \A i \in Items : items'[i] = IF items[i].entity = r.from THEN updateEntity(items[i], r.to)
                                     ELSE items[i]
    BY <1>6, <1>9, <2>4 DEF on, update
  <2>6. r.to \in Ids => ~isRedirection(docs[r.to])
    BY <1>1, <1>9 DEF Separate, Towards
  <2>7. r.from \in Ids /\ r.to # r.from
    BY <1>4, <1>9 DEF RequestOK
  <2>8. ASSUME NEW i \in Items
        PROVE  \E y : items'[i] = y /\ Linked(y) /\ Landed(y) /\ y.entity # r.from
    <3>1. CASE items[i].entity = r.from
      <4>1. items[i] \in ItemDocs
        BY DEF EntitiesInv
      <4>2. items[i].entity \in Works
        BY <2>7, <3>1, <4>1, EntitiesAssumption DEF ItemDocs, Ids
      <4> QED
        BY <2>4, <2>5, <2>6, <2>7, <3>1, <4>1, <4>2, MovedItem DEF Redirected
    <3>2. CASE items[i].entity # r.from
      BY <2>4, <2>5, <3>2 DEF Redirected
    <3> QED
      BY <3>1, <3>2
  <2>9. Redirected(q)' /\ on(q.from)' = {}
    <3>1. Settled'
      BY <1>7, <2>8
    <3>2. docs'[q.from].redirect = q.to
      BY <1>3, <1>4, <2>4 DEF Redirected
    <3> QED
      BY <1>3, <2>8, <3>1, <3>2 DEF Redirected, Settled, on
  <2>10. MergeJobs(q)'
    BY <1>3, <1>8, <2>1 DEF MergeJobs, puts
  <2>11. MergeItems(q)'
    BY <1>3, <2>2, <2>9 DEF MergeItems, has
  <2>12. /\ has(q, "claims") = has(r, "claims")
         /\ has(q, "redirectClaims") = has(r, "redirectClaims")
    <3>1. \A step \in {"claims", "redirectClaims"} : Job(step, NoUri).step = step
      BY JobType DEF Steps
    <3> QED
      BY <1>3, <1>4, <3>1 DEF has
  <2>13. /\ byClaimsValue(q.from)' = byClaimsValue(r.from) /\ rowsOf(q.from)' = rowsOf(r.from)
    BY <1>3, <1>4 DEF byClaimsValue, rowsOf, indexed
  <2>14. MergeClaims(q)'
    BY <1>3, <1>8, <2>1, <2>12, <2>13 DEF MergeClaims, has, puts
  <2>15. MergeLabels(q)'
    BY <1>3, <1>4, <1>8, <2>1 DEF MergeLabels, puts
  <2> QED
    BY <1>3, <1>9, <2>10, <2>11, <2>14, <2>15 DEF Progress
<1>10. ASSUME Progress(r), r.kind = "revert" PROVE Progress(q)'
  <2> DEFINE found == {i \in Items : r.from \in ToSet(items[i].previousEntity)}
  <2>1. RevertJobs(r) /\ RevertItems(r)
    BY <1>10 DEF Progress
  <2>2. r.stage = "placeholders" /\ j = Job("bulk", NoUri)
    BY <1>4, <2>1 DEF RevertJobs, RevertSteps
  <2>3. has(r, "bulk")
    BY <1>4, <2>2 DEF has
  <2>4. /\ Restored(r) /\ r.to # r.from /\ r.copies = copiesOf(found)
        /\ \A i \in DOMAIN r.copies : /\ items[i].entity = r.to
                                      /\ Head(items[i].previousEntity) = r.from
    BY <2>1, <2>2, <2>3 DEF RevertItems
  <2>5. DOMAIN r.copies = found
    BY <2>4, CopiesType
  <2>6. \A i \in Items : items'[i] = IF i \in found THEN revertEntity(items[i]) ELSE items[i]
    BY <1>6, <1>10, <2>4 DEF update
  <2>7. ASSUME NEW i \in Items PROVE \E y : items'[i] = y /\ Linked(y) /\ Landed(y)
    <3>1. items[i] \in ItemDocs /\ LinkedThrough(items[i], r) /\ Landed(items[i])
      BY <2>4 DEF EntitiesInv, Restored
    <3>2. CASE i \in found
      <4>1. PICK y : y = revertEntity(items[i])
        OBVIOUS
      <4>2. /\ r.from \in ToSet(items[i].previousEntity) /\ items[i].entity = r.to
            /\ Head(items[i].previousEntity) = r.from /\ docs[r.from].redirect = NoUri
        BY <2>4, <2>5, <3>2 DEF Restored
      <4>3. Linked(y) /\ Landed(y)
        BY <2>4, <3>1, <4>1, <4>2, RevertedItem
      <4> QED
        BY <2>6, <3>2, <4>1, <4>3
    <3>3. CASE i \notin found
      BY <2>6, <3>1, <3>3, OtherItem
    <3> QED
      BY <3>2, <3>3
  <2>8. Settled' /\ docs'[q.from].redirect = NoUri
    BY <1>3, <1>4, <1>7, <2>4, <2>7 DEF Restored
  <2>9. RevertItems(q)'
    BY <1>3, <2>2, <2>8 DEF RevertItems, has
  <2>10. RevertJobs(q)'
    BY <1>3, <1>8, <2>1 DEF RevertJobs, puts
  <2> QED
    BY <1>3, <1>10, <2>9, <2>10 DEF Progress
<1>11. past = "orderly" /\ Progress(requests[s]) => Progress(q)'
  BY <1>1, <1>5, <1>9, <1>10
<1>12. /\ past' = past /\ ~idle(s) /\ q.kind # "none"
       /\ (~q.failed => ~requests[s].failed)
  BY <1>1, <1>3, <1>4, <1>5 DEF idle
<1> QED
  BY <1>4, <1>11, <1>12, TidyStep

-----------------------------------------------------------------------------
(* Their writes of documents *)

LEMMA RememberedEntities ==
    ASSUME EntitiesInv, NEW i \in Items, NEW n \in 1..Len(items[i].previousEntity)
    PROVE  items[i].previousEntity[n] \in Ids
<1>1. items[i].previousEntity \in Seq(Works)
  BY DEF EntitiesInv, ItemDocs
<1> QED
  BY <1>1 DEF Ids

LEMMA SameRedirections ==
    ASSUME EntitiesInv, UNCHANGED items, \A e \in Ids : docs'[e].redirect = docs[e].redirect
    PROVE  /\ Settled => Settled'
           /\ \A r \in Requests : r.from \in Ids =>
                /\ Redirected(r) => Redirected(r)'
                /\ Restored(r) => Restored(r)'
<1>1. \A i \in Items : \A n \in 1..Len(items[i].previousEntity) :
          docs'[items[i].previousEntity[n]].redirect = docs[items[i].previousEntity[n]].redirect
  BY RememberedEntities
<1>2. \A i \in Items : (Linked(items[i]) => Linked(items[i])')
                       /\ (Landed(items[i]) => Landed(items[i])')
  BY <1>1 DEF Linked, Landed, nextOf, isRedirection
<1>3. \A r \in Requests : \A i \in Items : LinkedThrough(items[i], r) => LinkedThrough(items[i], r)'
  BY <1>1 DEF LinkedThrough, nextOf
<1> QED
  BY <1>2, <1>3 DEF Settled, Redirected, Restored

\* The redirection of an entity that was none: no item came through it
LEMMA RedirectionIsWritten ==
    ASSUME EntitiesInv, Settled, UNCHANGED items, NEW r \in Requests, r.from \in Ids,
           ~isRedirection(docs[r.from]), docs'[r.from].redirect = r.to,
           \A e \in Ids : e # r.from => docs'[e].redirect = docs[e].redirect
    PROVE  Redirected(r)'
<1>1. ASSUME NEW i \in Items, NEW n \in 1..Len(items[i].previousEntity)
      PROVE  docs'[items[i].previousEntity[n]].redirect = nextOf(items[i], n)
  <2> DEFINE x == items[i]
             p == x.previousEntity
  <2>1. x \in ItemDocs /\ Linked(x)
    BY DEF EntitiesInv, Settled
  <2>2. p \in Seq(Works) /\ p[n] \in Ids /\ docs[p[n]].redirect = nextOf(x, n)
    BY <2>1 DEF ItemDocs, Ids, Linked
  <2>3. nextOf(x, n) \in Works \cup WdWorks
    <3>1. CASE n = 1
      BY <2>1, <3>1 DEF nextOf, ItemDocs
    <3>2. CASE n # 1
      <4>1. n - 1 \in 1..Len(p)
        BY <2>2, <3>2
      <4> QED
        BY <2>2, <3>2, <4>1 DEF nextOf
    <3> QED
      BY <3>1, <3>2
  <2>4. p[n] # r.from
    BY <2>2, <2>3, EntitiesAssumption DEF isRedirection
  <2> QED
    BY <2>2, <2>4
<1>2. \A i \in Items : Linked(items[i])'
  BY <1>1 DEF Linked, nextOf
<1>3. \A i \in Items : Landed(items[i])' \/ items[i].entity = r.from
  BY DEF Settled, Landed, isRedirection
<1> QED
  BY <1>2, <1>3 DEF Redirected

LEMMA RedirectionIsUndone ==
    ASSUME EntitiesInv, Settled, UNCHANGED items, NEW r \in Requests, r.from \in Ids,
           docs[r.from].redirect = r.to, docs'[r.from].redirect = NoUri,
           \A e \in Ids : e # r.from => docs'[e].redirect = docs[e].redirect
    PROVE  Restored(r)'
<1>1. ASSUME NEW i \in Items, NEW n \in 1..Len(items[i].previousEntity)
      PROVE  LET p == items[i].previousEntity[n] IN
             IF p = r.from THEN nextOf(items[i], n) = r.to
             ELSE docs'[p].redirect = nextOf(items[i], n)
  <2> DEFINE p == items[i].previousEntity[n]
  <2>1. p \in Ids /\ docs[p].redirect = nextOf(items[i], n)
    BY RememberedEntities DEF Settled, Linked
  <2> QED
    BY <2>1
<1>2. \A i \in Items : LinkedThrough(items[i], r)'
  BY <1>1 DEF LinkedThrough, nextOf
<1>3. \A i \in Items : Landed(items[i])'
  BY DEF Settled, Landed, isRedirection
<1> QED
  BY <1>2, <1>3 DEF Restored

\* A merge makes its entity a redirection, a revert makes it none, and no other write is of
\* a redirection
LEMMA RedirectionsOfWrites ==
    ASSUME NEW r \in Requests, NEW j \in puts(r), JobOK(r, j), r.kind # "none", Progress(r),
           j.doc = docs[j.id]
    PROVE  \/ j.new.redirect = j.doc.redirect
           \/ /\ r.kind = "merge" /\ r.stage = "propagate" /\ j.id = r.from
              /\ j.new.redirect = r.to /\ ~isRedirection(j.doc)
           \/ r.kind = "revert" /\ r.stage = "items" /\ j.id = r.from /\ j.new.redirect = NoUri
<1>1. j \in r.jobs /\ j.step = "put"
  BY DEF puts
<1>2. KeepsRedirection(r, j) /\ Redirects(r, j)
  BY <1>1 DEF JobOK
<1>3. content(j.new) = content(j.doc) => j.new.redirect = j.doc.redirect
  BY DEF content
<1>4. CASE r.kind = "edit"
  BY <1>2, <1>3, <1>4 DEF KeepsRedirection, Redirects, isRedirection
<1>5. CASE r.kind = "merge"
  BY <1>2, <1>3, <1>5 DEF Progress, MergeJobs, KeepsRedirection
<1>6. CASE r.kind = "revert"
  <2>1. CASE r.stage = "items"
    BY <1>6, <2>1 DEF Progress, RevertJobs
  <2>2. CASE r.stage # "items"
    <3>1. r.stage \in {"mergePatch", "redirections", "end"}
      BY <1>1, <1>6, <2>2 DEF Progress, RevertJobs, RevertSteps
    <3>2. docs[r.from].redirect = NoUri
      BY <1>6, <3>1 DEF Progress, RevertItems
    <3>3. CASE j.id = r.from
      BY <1>2, <1>6, <3>2, <3>3 DEF Redirects, isRedirection
    <3>4. CASE j.id # r.from
      BY <1>2, <1>3, <1>6, <3>4 DEF KeepsRedirection, Redirects, isRedirection
    <3> QED
      BY <3>3, <3>4
  <2> QED
    BY <2>1, <2>2
<1> QED
  BY <1>4, <1>5, <1>6 DEF Requests

LEMMA TidyPutDoc ==
    ASSUME EntitiesInv, Separate, TidyInv, NEW s \in Slots, NEW j \in requests[s].jobs,
           PutDoc(s, j)
    PROVE  TidyInv'
<1> DEFINE e == j.id
<1>1. PICK r \in Requests : r = requests[s]
  BY DEF EntitiesInv
<1>2. /\ RequestOK(r) /\ JobOK(r, j) /\ j \in r.jobs /\ j \in Jobs /\ j.step = "put"
      /\ UNCHANGED <<items, past, beforeMerge>> /\ r.kind # "none" /\ ~idle(s)
  BY <1>1 DEF EntitiesInv, RequestOK, Requests, PutDoc, idle
<1>3. CASE docs[e].version # j.doc.version
  <2>1. UNCHANGED docs
    BY <1>3 DEF PutDoc
  <2>2. CASE r.kind = "edit"
    <3> DEFINE q == [r EXCEPT !.jobs = {}, !.stage = "read"]
    <3>1. goes(s, q)
      BY <1>1, <1>3, <2>2 DEF PutDoc
    <3>2. q.kind = "edit" /\ q.failed = r.failed
      BY <2>2 DEF Requests
    <3> HIDE DEF q
    <3>3. Progress(r) => Progress(q)
      BY <2>2, <3>2 DEF Progress
    <3> QED
      BY <1>1, <1>2, <2>1, <3>1, <3>2, <3>3, TidyRead
  <2>3. CASE r.kind # "edit"
    <3>1. throws(s, j)
      BY <1>1, <1>3, <2>3 DEF PutDoc
    <3> QED
      BY <1>2, <2>1, <3>1, TidyFailure
  <2> QED
    BY <2>2, <2>3
<1>4. CASE docs[e].version = j.doc.version
  <2>1. PICK m : m = [j EXCEPT !.step = "patch"]
    OBVIOUS
  <2>2. PICK q : q = [r EXCEPT !.jobs = (r.jobs \ {j}) \cup {m}]
    OBVIOUS
  <2>3. docs' = [docs EXCEPT ![e] = j.new] /\ goes(s, q)
    BY <1>1, <1>4, <2>1, <2>2 DEF PutDoc, follows
  <2>4. m.step = "patch"
    BY <1>2, <2>1 DEF Jobs
  <2>5. /\ q.kind = r.kind /\ q.stage = r.stage /\ q.from = r.from /\ q.to = r.to
        /\ q.copies = r.copies /\ q.found = r.found /\ q.failed = r.failed
        /\ q.jobs = (r.jobs \ {j}) \cup {m}
    BY <2>2 DEF Requests
  <2>6. e \in Ids /\ j.doc = docs[e]
    BY <1>2, <1>4 DEF JobOK, Writes, Read
  <2>7. docs'[e] = j.new /\ \A x \in Ids : x # e => docs'[x] = docs[x]
    BY <2>3, <2>6 DEF EntitiesInv
  <2>8. puts(q) = puts(r) \ {j} /\ j \in puts(r)
    BY <1>2, <2>4, <2>5 DEF puts
  <2>9. /\ has(q, "claims") = has(r, "claims") /\ has(q, "items") = has(r, "items")
        /\ has(q, "redirectClaims") = has(r, "redirectClaims") /\ has(q, "bulk") = has(r, "bulk")
    <3>1. \A step \in {"claims", "redirectClaims", "items", "bulk"} :
              Job(step, NoUri).step = step
      BY JobType DEF Steps
    <3> QED
      BY <1>2, <2>4, <2>5, <3>1 DEF has
  <2>10. r.from \in Ids
    BY <1>2 DEF RequestOK
  <2>11. ASSUME j.new.redirect = j.doc.redirect
         PROVE  /\ Settled => Settled'
                /\ Redirected(r) => Redirected(q)'
                /\ Restored(r) => Restored(q)'
                /\ docs'[r.from].redirect = docs[r.from].redirect
    <3>1. \A x \in Ids : docs'[x].redirect = docs[x].redirect
      BY <2>6, <2>7, <2>11
    <3>2. /\ Settled => Settled'
          /\ Redirected(r) => Redirected(r)'
          /\ Restored(r) => Restored(r)'
      BY <1>2, <2>10, <3>1, SameRedirections
    <3> QED
      BY <2>5, <2>10, <3>1, <3>2 DEF Redirected, Restored, LinkedThrough
  <2>12. ASSUME past = "orderly", Progress(r), r.kind = "merge" PROVE Progress(q)'
    <3>1. MergeJobs(r) /\ MergeItems(r) /\ MergeClaims(r) /\ MergeLabels(r)
      BY <2>12 DEF Progress
    <3>2. \/ j.new.redirect = j.doc.redirect
          \/ /\ r.stage = "propagate" /\ e = r.from /\ j.new.redirect = r.to
             /\ ~isRedirection(j.doc)
      BY <1>2, <2>6, <2>8, <2>12, RedirectionsOfWrites
    <3>3. r.stage \in {"isolate", "turn", "propagate", "end"}
      BY <1>2, <3>1 DEF MergeJobs, MergeSteps
    <3>4. MergeJobs(q)'
      <4>1. "patch" \in MergeSteps[r.stage]
        BY <3>3 DEF MergeSteps
      <4>2. \A n \in q.jobs : n \in r.jobs \/ n = m
        BY <2>5
      <4>3. MergeJobs(q)
        BY <2>4, <2>5, <2>8, <3>1, <4>1, <4>2 DEF MergeJobs
      <4> QED
        BY <4>3 DEF MergeJobs, puts
    <3>5. MergeItems(q)'
      <4>1. CASE j.new.redirect = j.doc.redirect
        <5>1. r.stage = "propagate" => Redirected(q)'
          <6> SUFFICES ASSUME r.stage = "propagate" PROVE Redirected(q)'
            OBVIOUS
          <6>1. e = r.from /\ j.new.redirect = r.to
            BY <2>8, <3>1 DEF MergeJobs
          <6>2. docs[r.from].redirect = r.to
            BY <2>6, <4>1, <6>1
          <6>3. Settled => Redirected(r)
            BY <6>2 DEF Settled, Redirected
          <6>4. Redirected(r)
            BY <3>1, <6>3 DEF MergeItems
          <6> QED
            BY <2>11, <4>1, <6>4
        <5>2. \A I : copiesOf(I)' = copiesOf(I) /\ \A x : on(x)' = on(x)
          BY <1>2 DEF copiesOf, on
        <5>3. r.stage = "end" =>
                /\ Redirected(q)'
                /\ has(q, "bulk") => q.copies = copiesOf(on(q.from))'
                /\ has(q, "items") \/ has(q, "bulk") \/ on(q.from)' = {}
          <6> SUFFICES ASSUME r.stage = "end"
                       PROVE  /\ Redirected(q)'
                              /\ has(q, "bulk") => q.copies = copiesOf(on(q.from))'
                              /\ has(q, "items") \/ has(q, "bulk") \/ on(q.from)' = {}
            OBVIOUS
          <6>1. /\ Redirected(r)
                /\ has(r, "bulk") => r.copies = copiesOf(on(r.from))
                /\ has(r, "items") \/ has(r, "bulk") \/ on(r.from) = {}
            BY <3>1 DEF MergeItems
          <6>2. copiesOf(on(q.from))' = copiesOf(on(r.from)) /\ on(q.from)' = on(r.from)
            BY <1>2, <2>5 DEF copiesOf, on
          <6> QED
            BY <2>5, <2>9, <2>11, <4>1, <6>1, <6>2
        <5>4. r.stage \in {"isolate", "turn"} => Settled'
          BY <2>11, <3>1, <4>1 DEF MergeItems
        <5> QED
          BY <2>5, <3>3, <5>1, <5>3, <5>4 DEF MergeItems, has
      <4>2. CASE r.stage = "propagate" /\ e = r.from /\ j.new.redirect = r.to
                 /\ ~isRedirection(j.doc)
        <5>1. Settled
          <6>1. docs[r.from].redirect # r.to
            BY <1>2, <2>6, <2>12, <4>2, EntitiesAssumption
               DEF isRedirection, RequestOK, Uris, Ids, Wikidata
          <6> QED
            BY <3>1, <4>2, <6>1 DEF MergeItems, Redirected
        <5>2. Redirected(r)'
          BY <1>2, <2>6, <2>7, <2>10, <4>2, <5>1, RedirectionIsWritten
        <5>3. Redirected(q)'
          BY <2>5, <5>2 DEF Redirected
        <5> QED
          BY <2>5, <4>2, <5>3 DEF MergeItems
      <4> QED
        BY <3>2, <4>1, <4>2
    <3>6. MergeClaims(q)'
      <4> SUFFICES ASSUME r.stage = "end" PROVE MergeClaims(q)'
        BY <2>5 DEF MergeClaims
      <4>1. ~has(q, "claims") /\ ~has(q, "redirectClaims")
        BY <2>8, <2>9, <3>1 DEF MergeClaims
      <4>2. r.from \notin ToSet(j.new.authors)
        BY <2>8, <3>1 DEF MergeJobs
      <4>3. ASSUME NEW w \in byClaimsValue(q.from)' PROVE \E n \in puts(q) : n.id = w
        <5>1. w \in Works /\ w \in Ids /\ indexed(docs'[w]) /\ r.from \in ToSet(docs'[w].authors)
          BY <2>5 DEF byClaimsValue, indexed, Ids
        <5>2. w # e
          BY <2>7, <4>2, <5>1
        <5>3. w \in byClaimsValue(r.from)
          BY <2>7, <5>1, <5>2 DEF byClaimsValue
        <5>4. PICK n \in puts(r) : n.id = w
          BY <2>9, <3>1, <4>1, <5>3 DEF MergeClaims
        <5> QED
          BY <2>8, <5>2, <5>4
      <4> QED
        BY <4>1, <4>3 DEF MergeClaims, has, puts
    <3>7. MergeLabels(q)'
      <4> SUFFICES ASSUME r.to \in Ids PROVE MergeLabels(q)'
        BY <2>5 DEF MergeLabels
      <4> DEFINE labels == beforeMerge.world.docs[r.from][1][1]
      <4>1. /\ r.stage = "isolate" => \A n \in puts(r) : labels \subseteq n.new.labels
            /\ \/ r.stage = "isolate" /\ puts(r) # {}
               \/ labels \subseteq docs[r.to].labels
        BY <3>1, <3>3 DEF MergeLabels
      <4>2. labels \subseteq docs'[r.to].labels
        <5>1. CASE r.stage = "isolate"
          <6>1. e = r.to
            BY <2>8, <3>1, <5>1 DEF MergeJobs
          <6>2. labels \subseteq j.new.labels
            BY <2>8, <4>1, <5>1
          <6> HIDE DEF labels
          <6> QED
            BY <2>7, <6>1, <6>2
        <5>2. CASE r.stage # "isolate"
          <6>1. CASE e = r.to
            <7>1. r.stage # "propagate"
              BY <1>2, <2>8, <2>12, <3>1, <6>1 DEF RequestOK, MergeJobs
            <7>2. j.new.labels = j.doc.labels
              BY <2>8, <3>1, <3>3, <5>2, <7>1 DEF MergeJobs
            <7> HIDE DEF labels
            <7> QED
              BY <2>6, <2>7, <4>1, <5>2, <6>1, <7>2
          <6>2. CASE e # r.to
            BY <2>7, <4>1, <5>2, <6>2
          <6> QED
            BY <6>1, <6>2
        <5> QED
          BY <5>1, <5>2
      <4>3. r.stage = "isolate" => \A n \in puts(q) : labels \subseteq n.new.labels
        BY <2>8, <4>1
      <4> QED
        BY <1>2, <2>5, <3>3, <4>2, <4>3 DEF MergeLabels, puts
    <3> QED
      BY <2>5, <2>12, <3>4, <3>5, <3>6, <3>7 DEF Progress
  <2>13. ASSUME past = "orderly", Progress(r), r.kind = "revert" PROVE Progress(q)'
    <3>1. RevertJobs(r) /\ RevertItems(r)
      BY <2>13 DEF Progress
    <3>2. r.stage \in {"items", "mergePatch", "redirections", "end"}
      BY <1>2, <3>1 DEF RevertJobs, RevertSteps
    <3>3. \/ j.new.redirect = j.doc.redirect
          \/ r.stage = "items" /\ e = r.from /\ j.new.redirect = NoUri
      BY <1>2, <2>6, <2>8, <2>13, RedirectionsOfWrites
    <3>4. RevertJobs(q)'
      <4>1. "patch" \in RevertSteps[r.stage]
        BY <3>2 DEF RevertSteps
      <4>2. \A n \in q.jobs : n \in r.jobs \/ n = m
        BY <2>5
      <4>3. RevertJobs(q)
        BY <2>4, <2>5, <2>8, <3>1, <4>1, <4>2 DEF RevertJobs
      <4> QED
        BY <4>3 DEF RevertJobs, puts
    <3>5. CASE r.stage = "items"
      <4>1. e = r.from /\ j.new.redirect = NoUri /\ r.to # r.from
        BY <2>8, <3>1, <3>5 DEF RevertJobs, RevertItems
      <4>2. ASSUME Restored(r) PROVE Restored(q)'
        BY <2>6, <2>11, <4>1, <4>2 DEF Restored
      <4>3. ASSUME Settled, docs[r.from].redirect = r.to PROVE Restored(q)'
        <5>1. Restored(r)'
          BY <1>2, <2>7, <2>10, <4>1, <4>3, RedirectionIsUndone
        <5> QED
          BY <2>5, <5>1 DEF Restored, LinkedThrough
      <4>4. Restored(q)'
        BY <3>1, <3>5, <4>2, <4>3 DEF RevertItems
      <4>5. RevertItems(q)'
        BY <2>5, <3>5, <4>1, <4>4 DEF RevertItems
      <4> QED
        BY <2>5, <2>13, <3>4, <4>5 DEF Progress
    <3>6. CASE r.stage # "items"
      <4>1. Settled /\ docs[r.from].redirect = NoUri
        BY <3>1, <3>2, <3>6 DEF RevertItems
      <4>2. Settled' /\ docs'[r.from].redirect = NoUri
        BY <2>11, <3>3, <3>6, <4>1
      <4>3. RevertItems(q)'
        BY <2>5, <3>2, <3>6, <4>2 DEF RevertItems
      <4> QED
        BY <2>5, <2>13, <3>4, <4>3 DEF Progress
    <3> QED
      BY <3>5, <3>6
  <2>14. ASSUME past = "orderly", Progress(r), r.kind = "edit" PROVE Progress(q)'
    <3>1. j.new.redirect = j.doc.redirect
      BY <1>2, <2>6, <2>8, <2>14, RedirectionsOfWrites
    <3> QED
      BY <2>5, <2>11, <2>14, <3>1 DEF Progress
  <2>15. past = "orderly" /\ Progress(requests[s]) => Progress(q)'
    BY <1>1, <1>2, <2>12, <2>13, <2>14 DEF Requests
  <2>16. past' = past /\ q.kind # "none" /\ (~q.failed => ~requests[s].failed)
    BY <1>1, <1>2, <2>5
  <2> QED
    BY <1>2, <2>3, <2>15, <2>16, TidyStep
<1> QED
  BY <1>3, <1>4

-----------------------------------------------------------------------------
(* Their beginning and their end *)

\* The request is over; as none of its jobs is left, items are settled
LEMMA TidyFinish ==
    ASSUME EntitiesInv, Separate, TidyInv, NEW s \in Slots, Finish(s)
    PROVE  TidyInv'
<1> DEFINE r == requests[s]
<1>1. /\ r \in Requests /\ ~idle(s) /\ r.jobs = {} /\ (r.failed \/ r.stage = "end")
      /\ past' = (IF r.failed /\ past = "orderly" THEN "failures" ELSE past)
      /\ UNCHANGED <<docs, items>>
      /\ requests' = [t \in Slots |-> IF t = s THEN NoRequest ELSE requests[t]]
  BY DEF EntitiesInv, Finish, goes
<1> SUFFICES ASSUME Clean' PROVE quiet' /\ Settled'
  BY DEF TidyInv
<1>2. past = "orderly" /\ ~r.failed /\ r.stage = "end"
  BY <1>1 DEF Clean
<1>3. \A t \in Slots : t # s => idle(t)
  BY <1>1, <1>2 DEF Separate, Alone
<1>4. NoRequest.kind = "none"
  BY DEF NoRequest
<1>5. quiet'
  BY <1>1, <1>3, <1>4 DEF quiet, idle
<1>6. Progress(r)
  <2>1. Clean /\ ~quiet
    BY <1>1, <1>2, <1>3 DEF Clean, quiet
  <2> QED
    BY <1>1, <2>1 DEF TidyInv
<1>7. Settled
  <2>1. CASE r.kind = "edit"
    BY <1>6, <2>1 DEF Progress
  <2>2. CASE r.kind = "merge"
    <3>1. Redirected(r) /\ on(r.from) = {}
      BY <1>1, <1>2, <1>6, <2>2 DEF Progress, MergeItems, has
    <3> QED
      BY <3>1 DEF Redirected, Settled, on
  <2>3. CASE r.kind = "revert"
    BY <1>2, <1>6, <2>3 DEF Progress, RevertItems
  <2> QED
    BY <1>1, <2>1, <2>2, <2>3 DEF Requests, idle
<1>8. Settled'
  BY <1>1, <1>7 DEF Settled, Linked, Landed
<1> QED
  BY <1>5, <1>8

\* A request begins while nothing else is in flight, or the requests overlap
LEMMA TidyStart ==
    ASSUME EntitiesInv, Separate, TidyInv, NEW s \in Slots, NEW r, NEW undo, Start(s, r, undo),
           r.kind # "none", Settled /\ past' = "orderly" /\ ~r.failed => Progress(r)'
    PROVE  TidyInv'
<1>1. /\ requests' = [t \in Slots |-> IF t = s THEN r ELSE requests[t]]
      /\ past' = (IF \E t \in Slots : ~idle(t) THEN "overlaps" ELSE past)
  BY DEF EntitiesInv, Start, goes
<1> SUFFICES ASSUME Clean' PROVE (IF quiet THEN Settled ELSE \A t \in Slots : ~idle(t) =>
                                      Progress(requests[t]))'
  BY DEF TidyInv
<1>2. past = "orderly" /\ quiet
  BY <1>1 DEF Clean, quiet
<1>3. Settled
  BY <1>2 DEF TidyInv, Clean, quiet
<1>4. past' = "orderly" /\ ~r.failed
  BY <1>1 DEF Clean, idle
<1>5. Progress(r)'
  BY <1>3, <1>4
<1>6. ~quiet'
  BY <1>1 DEF quiet, idle
<1>7. ASSUME NEW t \in Slots, ~idle(t)' PROVE Progress(requests[t])'
  <2>1. t = s
    BY <1>1, <1>2, <1>7 DEF quiet, idle
  <2>2. requests'[t] = r
    BY <1>1, <2>1
  <2> QED
    BY <1>5, <2>2
<1> QED
  BY <1>6, <1>7

LEMMA TidyStartEdit ==
    ASSUME EntitiesInv, Separate, TidyInv, NEW s \in Slots, StartEdit(s)
    PROVE  TidyInv'
<1> DEFINE R(e, c) == [NoRequest EXCEPT !.kind = "edit", !.from = e, !.change = c]
<1>1. PICK e \in Ids, c \in Changes : Start(s, editOf(R(e, c)), NoWorld)
  BY DEF StartEdit
<1>2. PICK r : r = editOf(R(e, c))
  OBVIOUS
<1>3. r.kind = "edit"
  <2> DEFINE q == R(e, c)
  <2>1. \A jobs : /\ [q EXCEPT !.stage = "end", !.jobs = jobs].kind = "edit"
                  /\ [q EXCEPT !.failed = TRUE].kind = "edit"
    BY DEF NoRequest
  <2> HIDE DEF q
  <2>2. editOf(q) = [q EXCEPT !.failed = TRUE]
        \/ \E jobs : editOf(q) = [q EXCEPT !.stage = "end", !.jobs = jobs]
    BY DEF editOf
  <2> QED
    BY <1>2, <2>1, <2>2 DEF q
<1> HIDE DEF R
<1>4. Settled => Progress(r)'
  <2>1. Settled => Settled'
    BY <1>1 DEF Start, Settled, Linked, Landed
  <2> QED
    BY <1>3, <2>1 DEF Progress
<1> QED
  BY <1>1, <1>2, <1>3, <1>4, TidyStart

LEMMA TidyStartMerge ==
    ASSUME EntitiesInv, Separate, TidyInv, NEW s \in Slots, StartMerge(s)
    PROVE  TidyInv'
<1> DEFINE R(from, to) == [NoRequest EXCEPT !.kind = "merge", !.from = from, !.to = to,
                             !.stage = IF to \in Wikidata THEN "isolate" ELSE "mergeDocs"]
<1>1. PICK from \in Ids, to \in Uris :
          Start(s, R(from, to), [from |-> from, world |-> world])
  BY DEF StartMerge
<1>2. PICK r : r = R(from, to)
  OBVIOUS
<1>3. /\ r.kind = "merge" /\ r.jobs = {} /\ r.from = from /\ r.to = to
      /\ r.stage = (IF to \in Wikidata THEN "isolate" ELSE "mergeDocs")
  BY <1>2 DEF NoRequest
<1> HIDE DEF R
<1>4. ASSUME Settled, past' = "orderly" PROVE Progress(r)'
  <2>1. UNCHANGED <<docs, items>> /\ beforeMerge' = [from |-> from, world |-> world]
    BY <1>1, <1>4 DEF Start
  <2>2. Settled'
    BY <1>4, <2>1 DEF Settled, Linked, Landed
  <2>3. MergeJobs(r)' /\ MergeItems(r)' /\ MergeClaims(r)'
    BY <1>3, <2>2 DEF MergeJobs, MergeSteps, puts, MergeItems, MergeClaims
  <2>4. MergeLabels(r)'
    <3> SUFFICES ASSUME to \in Ids PROVE MergeLabels(r)'
      BY <1>3 DEF MergeLabels
    <3>1. r.stage = "mergeDocs"
      BY <1>3, EntitiesAssumption DEF Ids, Wikidata
    <3>2. beforeMerge'.world.docs[from][1][1] = docs[from].labels
      <4>1. world.docs[from] = <<content(docs[from]), docs[from].type = "removed:placeholder">>
        BY DEF world
      <4>2. world.docs[from][1] = content(docs[from])
        BY <4>1
      <4> QED
        BY <2>1, <4>2 DEF content
    <3> QED
      BY <1>3, <2>1, <3>1, <3>2 DEF MergeLabels
  <2> QED
    BY <1>3, <2>3, <2>4 DEF Progress
<1>5. r.kind # "none"
  BY <1>3
<1> QED
  BY <1>1, <1>2, <1>4, <1>5, TidyStart

LEMMA TidyStartRevert ==
    ASSUME EntitiesInv, Separate, TidyInv, NEW s \in Slots, StartRevert(s)
    PROVE  TidyInv'
<1> DEFINE R(e) == [NoRequest EXCEPT !.kind = "revert", !.stage = "restore", !.from = e]
<1>1. PICK e \in Ids, undo \in {beforeMerge, NoWorld} :
          \/ Start(s, [R(e) EXCEPT !.failed = TRUE], undo)
          \/ \E c : Start(s, [R(e) EXCEPT !.change = c], undo)
  BY DEF StartRevert
<1>2. PICK r : /\ Start(s, r, undo)
               /\ r.kind = "revert" /\ r.stage = "restore" /\ r.jobs = {}
  <2>1. \A c : /\ [R(e) EXCEPT !.change = c].kind = "revert"
               /\ [R(e) EXCEPT !.change = c].stage = "restore"
               /\ [R(e) EXCEPT !.change = c].jobs = {}
    BY DEF NoRequest
  <2>2. /\ [R(e) EXCEPT !.failed = TRUE].kind = "revert"
        /\ [R(e) EXCEPT !.failed = TRUE].stage = "restore"
        /\ [R(e) EXCEPT !.failed = TRUE].jobs = {}
    BY DEF NoRequest
  <2> HIDE DEF R
  <2> QED
    BY <1>1, <2>1, <2>2
<1>3. ASSUME Settled PROVE Progress(r)'
  <2>1. Settled'
    BY <1>2, <1>3 DEF Start, Settled, Linked, Landed
  <2>2. RevertJobs(r)' /\ RevertItems(r)'
    BY <1>2, <2>1 DEF RevertJobs, RevertSteps, puts, RevertItems
  <2> QED
    BY <1>2, <2>2 DEF Progress
<1>4. r.kind # "none"
  BY <1>2
<1> QED
  BY <1>2, <1>3, <1>4, TidyStart

LEMMA TidyJobs ==
    ASSUME EntitiesInv, Separate, TidyInv, NEW s \in Slots, JobStep(s)
    PROVE  TidyInv'
<1>1. PICK j \in requests[s].jobs :
          \/ PutDoc(s, j) \/ CreatePatch(s, j)
          \/ DeleteIfIsolated(s, j) \/ RemovePlaceholder(s, j) \/ RecoverPlaceholder(s, j)
          \/ RevertFromPatchDoc(s, j)
          \/ RedirectClaims(s, j) \/ AfterMerge(s, j) \/ Bulk(s, j)
  BY DEF JobStep
<1> QED
  BY <1>1, TidyPutDoc, TidyCreatePatch, TidyPlaceholderJobs, TidyRevertFromPatchDoc,
     TidyRedirectClaims, TidyAfterMerge, TidyBulk

LEMMA InitiallyTidy == Init => TidyInv
<1> SUFFICES ASSUME Init PROVE TidyInv
  OBVIOUS
<1>1. \A e \in Ids : docs[e].redirect = NoUri
  BY DEF Init, documentOf, create
<1>2. \A i \in Items : items[i].previousEntity = <<>>
  BY DEF Init
<1>3. Settled
  BY <1>1, <1>2 DEF Settled, Linked, Landed, isRedirection
<1>4. quiet
  BY DEF Init, quiet, idle, NoRequest
<1> QED
  BY <1>3, <1>4 DEF TidyInv

LEMMA NextKeepsTidy == EntitiesInv /\ Separate /\ TidyInv /\ [Next]_vars => TidyInv'
<1> SUFFICES ASSUME EntitiesInv, Separate, TidyInv, [Next]_vars PROVE TidyInv'
  OBVIOUS
<1>1. CASE UNCHANGED vars
  <2>1. /\ Settled' = Settled /\ quiet' = quiet /\ Clean' = Clean
        /\ \A t \in Slots : idle(t)' = idle(t) /\ requests'[t] = requests[t]
    BY <1>1 DEF vars, Settled, Linked, Landed, quiet, Clean, idle
  <2>2. \A t \in Slots : Progress(requests[t]) => Progress(requests[t])'
    <3> SUFFICES ASSUME NEW t \in Slots, Progress(requests[t]) PROVE Progress(requests[t])'
      OBVIOUS
    <3>1. PICK r : r = requests[t]
      OBVIOUS
    <3>2. UNCHANGED <<docs, items, beforeMerge>>
      BY <1>1 DEF vars
    <3>3. Progress(r)'
      BY <3>1, <3>2, Unmoved
    <3>4. requests'[t] = r
      BY <2>1, <3>1
    <3> QED
      BY <3>3, <3>4
  <2> QED
    BY <2>1, <2>2 DEF TidyInv
<1>2. CASE Crash
  <2>1. past' # "orderly"
    BY <1>2 DEF Crash
  <2> QED
    BY <2>1 DEF TidyInv, Clean
<1>3. ASSUME NEW s \in Slots,
             \/ StartEdit(s) \/ StartMerge(s) \/ StartRevert(s)
             \/ RetryOnConflict(s)
             \/ MergeInvEntities(s) \/ RemoveObsoletePlaceholderEntities(s)
             \/ TurnIntoRedirection(s) \/ PropagateRedirection(s)
             \/ RestoreVersion(s) \/ AfterRevert(s)
             \/ RecoverPlaceholders(s) \/ RevertMergePatch(s) \/ RevertClaimsRedirections(s)
             \/ JobStep(s)
             \/ Finish(s)
      PROVE  TidyInv'
  BY <1>3, TidyStartEdit, TidyStartMerge, TidyStartRevert, TidyRetry, TidyMergeInvEntities,
     TidyRemoveObsoletePlaceholders, TidyTurnIntoRedirection, TidyPropagateRedirection,
     TidyRestoreVersion, TidyAfterRevert, TidyRevertStages, TidyJobs, TidyFinish
<1> QED
  BY <1>1, <1>2, <1>3 DEF Next

LEMMA RequestsAreTidy == Spec => []TidyInv
  BY InitiallyTidy, NextKeepsTidy, Invariance, RequestsSeparate, PTL DEF Spec

\* Through any merges and reverts of which none failed or overlapped (updateEntity and revertEntity
\* of the items' controllers), each item is where redirections lead from the entity it was created
\* on, and remembers the way back.
THEOREM ItemsAreWhereMergesLead == Spec => []ItemsFollowMerges
<1>1. TidyInv /\ EntitiesInv => ItemsFollowMerges
  <2> SUFFICES ASSUME TidyInv, EntitiesInv, orderly, quiet, NEW i \in Items
               PROVE  LET path == <<items[i].entity>> \o items[i].previousEntity IN
                      /\ \A n \in 2..Len(path) : docs[path[n]].redirect = path[n - 1]
                      /\ items[i].entity \in Ids => ~isRedirection(docs[items[i].entity])
    BY DEF ItemsFollowMerges
  <2> DEFINE x == items[i]
             p == x.previousEntity
             path == <<x.entity>> \o p
  <2>1. Settled
    BY DEF TidyInv, Clean, orderly, quiet
  <2>2. Linked(x) /\ Landed(x) /\ x \in ItemDocs
    BY <2>1 DEF Settled, EntitiesInv
  <2>3. p \in Seq(Works) /\ x.entity \in Works \cup WdWorks
    BY <2>2 DEF ItemDocs
  <2>4. /\ Len(path) = Len(p) + 1 /\ path[1] = x.entity
        /\ \A n \in 2..(Len(p) + 1) : path[n] = p[n - 1]
    BY <2>3
  <2>5. ASSUME NEW n \in 2..Len(path) PROVE docs[path[n]].redirect = path[n - 1]
    <3>1. n - 1 \in 1..Len(p) /\ n \in 2..(Len(p) + 1) /\ Len(p) \in Nat
      BY <2>3, <2>4
    <3>2. docs[p[n - 1]].redirect = nextOf(x, n - 1)
      BY <2>2, <3>1 DEF Linked
    <3>3. nextOf(x, n - 1) = path[n - 1]
      <4>1. CASE n = 2
        BY <2>4, <4>1 DEF nextOf
      <4>2. CASE n # 2
        <5>1. n - 1 \in 2..(Len(p) + 1) /\ n - 1 # 1
          BY <3>1, <4>2
        <5>2. path[n - 1] = p[n - 1 - 1]
          BY <2>4, <5>1
        <5> QED
          BY <5>1, <5>2 DEF nextOf
      <4> QED
        BY <4>1, <4>2
    <3> QED
      BY <2>4, <3>1, <3>2, <3>3
  <2> QED
    BY <2>2, <2>5 DEF Landed
<1> QED
  BY <1>1, RequestsAreTidy, Invariance, PTL

\* When a merge that nothing overlapped is done, nothing is left on the entity it merged
\* (mergeEntities, redirectClaims and the items' updates): it redirects to the other one, which
\* has its labels, no work claims it and no item is on it.
THEOREM MergesAreComplete == Spec => []MergesLeaveNothingBehind
<1>1. TidyInv /\ Separate /\ EntitiesInv => MergesLeaveNothingBehind
  <2> SUFFICES ASSUME TidyInv, Separate, EntitiesInv, NEW s \in Slots, at(s, "merge", "end"),
                      orderly
               PROVE  LET r == requests[s] IN
                      /\ docs[r.from].redirect = r.to
                      /\ byClaimsValue(r.from) = {}
                      /\ \A i \in Items : items[i].entity # r.from
                      /\ r.to \in Ids =>
                           beforeMerge.world.docs[r.from][1][1] \subseteq docs[r.to].labels
    BY DEF MergesLeaveNothingBehind
  <2> DEFINE r == requests[s]
  <2>1. r.kind = "merge" /\ r.stage = "end" /\ r.jobs = {} /\ ~r.failed /\ ~idle(s)
    BY DEF at, idle
  <2>2. Clean /\ ~quiet
    BY <2>1 DEF Separate, Alone, orderly, Clean, quiet
  <2>3. MergeItems(r) /\ MergeClaims(r) /\ MergeLabels(r)
    BY <2>1, <2>2 DEF TidyInv, Progress
  <2>4. puts(r) = {} /\ \A step : ~has(r, step)
    BY <2>1 DEF puts, has
  <2>5. docs[r.from].redirect = r.to /\ on(r.from) = {}
    BY <2>1, <2>3, <2>4 DEF MergeItems, Redirected
  <2>6. byClaimsValue(r.from) = {}
    BY <2>1, <2>3, <2>4 DEF MergeClaims
  <2>7. r.to \in Ids => beforeMerge.world.docs[r.from][1][1] \subseteq docs[r.to].labels
    BY <2>1, <2>3 DEF MergeLabels
  <2> QED
    BY <2>5, <2>6, <2>7 DEF on
<1> QED
  BY <1>1, RequestsAreTidy, RequestsSeparate, Invariance, PTL

===============================================================================
