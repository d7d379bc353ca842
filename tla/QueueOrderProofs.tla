-------------------------- MODULE QueueOrderProofs --------------------------
(***************************************************************************)
(* Proofs about QueueOrder, for every value of its constants.              *)
(***************************************************************************)
EXTENDS QueueOrder, SequenceTheorems, FiniteSetTheorems, TLAPS

-----------------------------------------------------------------------------
(* Sequences without repetition.                                           *)

LEMMA LineParts ==
    ASSUME NEW s \in Lines
    PROVE  /\ s \in Seq(Tasks) /\ Len(s) \in Nat /\ DOMAIN s = 1..Len(s)
           /\ \A i \in 1..Len(s) : s[i] \in Tasks
           /\ \A i, j \in 1..Len(s) : s[i] = s[j] => i = j
           /\ ToSet(s) \subseteq Tasks
  BY DEF Lines, IsInjective, ToSet

LEMMA InLines ==
    ASSUME NEW s \in Seq(Tasks), \A i, j \in 1..Len(s) : s[i] = s[j] => i = j
    PROVE  s \in Lines
  <1>1. DOMAIN s = 1..Len(s)
    OBVIOUS
  <1> QED BY <1>1 DEF Lines, IsInjective

\* The first position of t, for sequences without repetition.
LEMMA IndexOfMember ==
    ASSUME NEW s \in Lines, NEW i \in 1..Len(s)
    PROVE  IndexIn(s, s[i]) = i - 1
  <1> DEFINE I == {j \in 1..Len(s) : s[j] = s[i]}
  <1>1. I = {i}
    BY LineParts
  <1>2. Min({i}) = i
    BY DEF Min
  <1>3. SelectInSeq(s, LAMBDA u : u = s[i]) = IF I # {} THEN Min(I) ELSE 0
    BY DEF SelectInSeq
  <1> QED BY <1>1, <1>2, <1>3 DEF IndexIn

LEMMA IndexOfStranger ==
    ASSUME NEW s \in Lines, NEW t, t \notin ToSet(s)
    PROVE  IndexIn(s, t) = -1
  <1>1. {j \in 1..Len(s) : s[j] = t} = {}
    BY LineParts DEF ToSet
  <1> QED BY <1>1 DEF IndexIn, SelectInSeq

LEMMA IndexRange ==
    ASSUME NEW s \in Lines, NEW t
    PROVE  /\ IndexIn(s, t) \in (-1)..(Len(s) - 1)
           /\ t \in ToSet(s) => IndexIn(s, t) \in 0..(Len(s) - 1) /\ s[IndexIn(s, t) + 1] = t
  <1>1. CASE t \notin ToSet(s)
    BY <1>1, LineParts, IndexOfStranger
  <1>2. CASE t \in ToSet(s)
    <2>1. PICK i \in 1..Len(s) : t = s[i]
      BY <1>2, LineParts DEF ToSet
    <2> QED BY <2>1, LineParts, IndexOfMember
  <1> QED BY <1>1, <1>2

\* Taking one element out.
LEMMA TakenOut ==
    ASSUME NEW s \in Lines, NEW i \in 1..Len(s), NEW r, r = RemoveAt(s, i)
    PROVE  /\ r \in Lines
           /\ Len(r) = Len(s) - 1
           /\ \A j \in 1..Len(r) : r[j] = IF j < i THEN s[j] ELSE s[j + 1]
           /\ ToSet(r) = ToSet(s) \ {s[i]}
  <1> DEFINE a == SubSeq(s, 1, i - 1)
             b == SubSeq(s, i + 1, Len(s))
  <1>1. /\ a \in Seq(Tasks) /\ Len(a) = i - 1
        /\ \A j \in 1..(i - 1) : a[j] = s[j]
    BY LineParts, SubSeqProperties
  <1>2. /\ b \in Seq(Tasks) /\ Len(b) = Len(s) - i
        /\ \A j \in 1..(Len(s) - i) : b[j] = s[i + j]
    <2>1. i + 1 \in Int /\ Len(s) \in Int /\ \A j \in (i + 1)..Len(s) : s[j] \in Tasks
      BY LineParts
    <2>2. /\ b \in Seq(Tasks) /\ Len(b) = IF i + 1 <= Len(s) THEN Len(s) - (i + 1) + 1 ELSE 0
          /\ \A j \in 1..(Len(s) - (i + 1) + 1) : b[j] = s[(i + 1) + j - 1]
      BY <2>1, SubSeqProperties
    <2> QED BY <2>1, <2>2
  <1>3. r = a \o b
    BY DEF RemoveAt
  <1> HIDE DEF a, b
  <1>4. r \in Seq(Tasks) /\ Len(r) = Len(s) - 1
    BY <1>1, <1>2, <1>3, ConcatProperties, LineParts
  <1>5. \A j \in 1..Len(r) : r[j] = IF j < i THEN s[j] ELSE s[j + 1]
    BY <1>1, <1>2, <1>3, <1>4, ConcatProperties, LineParts
  <1>6. r \in Lines
    <2> DEFINE at(j) == IF j < i THEN j ELSE j + 1
    <2>1. \A j \in 1..Len(r) : at(j) \in 1..Len(s) /\ r[j] = s[at(j)]
      BY <1>4, <1>5, LineParts
    <2>2. \A j, k \in 1..Len(r) : at(j) = at(k) => j = k
      BY <1>4, LineParts
    <2> HIDE DEF at
    <2>3. \A j, k \in 1..Len(r) : r[j] = r[k] => j = k
      BY <2>1, <2>2, LineParts
    <2> QED BY <1>4, <2>3, InLines
  <1>7. ToSet(r) = ToSet(s) \ {s[i]}
    <2>1. ASSUME NEW t \in ToSet(r) PROVE t \in ToSet(s) \ {s[i]}
      <3>1. PICK j \in 1..Len(r) : t = r[j]
        BY <1>6, LineParts DEF ToSet
      <3>2. \E k \in 1..Len(s) : k # i /\ t = s[k]
        BY <1>4, <1>5, <3>1, LineParts
      <3> QED BY <3>2, LineParts DEF ToSet
    <2>2. ASSUME NEW t \in ToSet(s), t # s[i] PROVE t \in ToSet(r)
      <3>1. PICK k \in 1..Len(s) : k # i /\ t = s[k]
        BY <2>2, LineParts DEF ToSet
      <3>2. \E j \in 1..Len(r) : t = r[j]
        <4>1. CASE k < i
          BY <1>4, <1>5, <3>1, <4>1, LineParts
        <4>2. CASE k > i
          <5>1. k - 1 \in 1..Len(r) /\ r[k - 1] = s[k]
            BY <1>4, <1>5, <3>1, <4>2, LineParts
          <5> QED BY <3>1, <5>1
        <4> QED BY <3>1, <4>1, <4>2, LineParts
      <3> QED BY <1>6, <3>2, LineParts DEF ToSet
    <2> QED BY <2>1, <2>2
  <1> QED BY <1>4, <1>5, <1>6, <1>7

LEMMA RemovedIs ==
    ASSUME NEW s \in Lines
    PROVE  /\ \A i \in 1..Len(s) : RemoveFirst(s, s[i]) = RemoveAt(s, i)
           /\ \A t : t \notin ToSet(s) => RemoveFirst(s, t) = s
  <1>1. ASSUME NEW i \in 1..Len(s) PROVE RemoveFirst(s, s[i]) = RemoveAt(s, i)
    <2> DEFINE I == {j \in 1..Len(s) : s[j] = s[i]}
    <2>1. I = {i}
      BY LineParts
    <2>2. Min({i}) = i
      BY DEF Min
    <2>3. RemoveFirst(s, s[i]) = RemoveAt(s, IF I # {} THEN Min(I) ELSE 0)
      BY DEF RemoveFirst, SelectInSeq
    <2> QED BY <2>1, <2>2, <2>3
  <1>2. ASSUME NEW t, t \notin ToSet(s) PROVE RemoveFirst(s, t) = s
    BY <1>2, LineParts DEF RemoveFirst, ToSet
  <1> QED BY <1>1, <1>2

\* Putting one element in.
LEMMA PutIn ==
    ASSUME NEW s \in Lines, NEW t \in Tasks \ ToSet(s), NEW k \in 1..(Len(s) + 1),
           NEW r, r = InsertAt(s, k, t)
    PROVE  /\ r \in Lines
           /\ Len(r) = Len(s) + 1
           /\ \A j \in 1..Len(r) : r[j] = IF j < k THEN s[j] ELSE IF j = k THEN t ELSE s[j - 1]
           /\ ToSet(r) = ToSet(s) \cup {t}
  <1> DEFINE a == SubSeq(s, 1, k - 1)
             b == SubSeq(s, k, Len(s))
  <1>1. /\ a \in Seq(Tasks) /\ Len(a) = k - 1
        /\ \A j \in 1..(k - 1) : a[j] = s[j]
    BY LineParts, SubSeqProperties
  <1>2. /\ b \in Seq(Tasks) /\ Len(b) = Len(s) - k + 1
        /\ \A j \in 1..(Len(s) - k + 1) : b[j] = s[k + j - 1]
    BY LineParts, SubSeqProperties
  <1>3. r = (a \o <<t>>) \o b
    BY DEF InsertAt
  <1> HIDE DEF a, b
  <1>4. /\ a \o <<t>> \in Seq(Tasks) /\ Len(a \o <<t>>) = k
        /\ \A j \in 1..k : (a \o <<t>>)[j] = IF j < k THEN s[j] ELSE t
    BY <1>1, ConcatProperties
  <1>5. r \in Seq(Tasks) /\ Len(r) = Len(s) + 1
    BY <1>2, <1>3, <1>4, ConcatProperties, LineParts
  <1>6. \A j \in 1..Len(r) : r[j] = IF j < k THEN s[j] ELSE IF j = k THEN t ELSE s[j - 1]
    <2> DEFINE c == a \o <<t>>
    <2>1. \A j \in 1..Len(r) : r[j] = IF j <= Len(c) THEN c[j] ELSE b[j - Len(c)]
      BY <1>2, <1>3, <1>4, ConcatProperties
    <2> HIDE DEF c
    <2>2. Len(c) = k /\ \A j \in 1..k : c[j] = IF j < k THEN s[j] ELSE t
      BY <1>4 DEF c
    <2>3. ASSUME NEW j \in 1..Len(r), j > k PROVE r[j] = s[j - 1]
      <3>1. j - k \in 1..(Len(s) - k + 1) /\ k + (j - k) - 1 = j - 1
        BY <1>5, <2>3, LineParts
      <3> QED BY <1>2, <2>1, <2>2, <2>3, <3>1, LineParts
    <2>4. ASSUME NEW j \in 1..Len(r), j <= k PROVE r[j] = IF j < k THEN s[j] ELSE t
      BY <2>1, <2>2, <2>4, LineParts
    <2> QED BY <2>3, <2>4, LineParts
  <1>7. r \in Lines
    <2>1. \A j \in 1..Len(s) : s[j] # t
      BY LineParts DEF ToSet
    <2>2. ASSUME NEW j \in 1..Len(r), NEW l \in 1..Len(r), r[j] = r[l], j # l PROVE FALSE
      <3> DEFINE at(m) == IF m < k THEN m ELSE m - 1
      <3>1. \A m \in 1..Len(r) : m # k => at(m) \in 1..Len(s) /\ r[m] = s[at(m)]
        BY <1>5, <1>6, LineParts
      <3>2. r[k] = t /\ k \in 1..Len(r)
        BY <1>5, <1>6, LineParts
      <3>3. j # k /\ l # k
        BY <2>1, <2>2, <3>1, <3>2
      <3>4. at(j) # at(l)
        BY <2>2, <3>3
      <3> HIDE DEF at
      <3> QED BY <2>2, <3>1, <3>3, <3>4, LineParts
    <2> QED BY <1>5, <2>2, InLines
  <1>8. ToSet(r) = ToSet(s) \cup {t}
    <2>1. ASSUME NEW u \in ToSet(r) PROVE u \in ToSet(s) \cup {t}
      <3>1. PICK j \in 1..Len(r) : u = r[j]
        BY <1>7, LineParts DEF ToSet
      <3>2. u = t \/ \E l \in 1..Len(s) : u = s[l]
        BY <1>5, <1>6, <3>1, LineParts
      <3> QED BY <3>2, LineParts DEF ToSet
    <2>2. ASSUME NEW u \in ToSet(s) PROVE u \in ToSet(r)
      <3>1. PICK l \in 1..Len(s) : u = s[l]
        BY LineParts DEF ToSet
      <3>2. IF l < k THEN r[l] = u /\ l \in 1..Len(r) ELSE r[l + 1] = u /\ l + 1 \in 1..Len(r)
        BY <1>5, <1>6, <3>1, LineParts
      <3> QED BY <1>7, <3>2, LineParts DEF ToSet
    <2>3. t \in ToSet(r)
      <3>1. k \in 1..Len(r) /\ r[k] = t
        BY <1>5, <1>6, LineParts
      <3> QED BY <1>7, <3>1, LineParts DEF ToSet
    <2> QED BY <2>1, <2>2, <2>3
  <1> QED BY <1>5, <1>6, <1>7, <1>8

\* One line behind another.
LEMMA Joined ==
    ASSUME NEW s \in Lines, NEW u \in Lines, ToSet(s) \cap ToSet(u) = {}, NEW r, r = s \o u
    PROVE  /\ r \in Lines
           /\ ToSet(r) = ToSet(s) \cup ToSet(u)
           /\ Len(r) = Len(s) + Len(u)
           /\ \A j \in 1..Len(r) : r[j] = IF j <= Len(s) THEN s[j] ELSE u[j - Len(s)]
  <1>1. /\ r \in Seq(Tasks) /\ Len(r) = Len(s) + Len(u)
        /\ \A j \in 1..Len(r) : r[j] = IF j <= Len(s) THEN s[j] ELSE u[j - Len(s)]
    BY LineParts, ConcatProperties
  <1>2. ASSUME NEW j \in 1..Len(s), NEW l \in 1..Len(u) PROVE s[j] # u[l]
    <2>1. s[j] \in ToSet(s) /\ u[l] \in ToSet(u)
      BY LineParts DEF ToSet
    <2> QED BY <2>1
  <1>3. r \in Lines
    <2>1. ASSUME NEW j \in 1..Len(r), NEW l \in 1..Len(r), r[j] = r[l] PROVE j = l
      <3>0. Len(s) \in Nat /\ Len(u) \in Nat
        BY LineParts
      <3>1. CASE j <= Len(s) /\ l <= Len(s)
        BY <1>1, <2>1, <3>0, <3>1, LineParts
      <3>2. CASE j <= Len(s) /\ l > Len(s)
        <4>1. l - Len(s) \in 1..Len(u) /\ j \in 1..Len(s)
          BY <1>1, <3>0, <3>2
        <4>2. r[j] = s[j] /\ r[l] = u[l - Len(s)]
          BY <1>1, <3>0, <3>2
        <4> QED BY <1>2, <2>1, <4>1, <4>2
      <3>3. CASE j > Len(s) /\ l <= Len(s)
        <4>1. j - Len(s) \in 1..Len(u) /\ l \in 1..Len(s)
          BY <1>1, <3>0, <3>3
        <4>2. r[l] = s[l] /\ r[j] = u[j - Len(s)]
          BY <1>1, <3>0, <3>3
        <4> QED BY <1>2, <2>1, <4>1, <4>2
      <3>4. CASE j > Len(s) /\ l > Len(s)
        <4>1. j - Len(s) \in 1..Len(u) /\ l - Len(s) \in 1..Len(u)
          BY <1>1, <3>0, <3>4
        <4>2. r[j] = u[j - Len(s)] /\ r[l] = u[l - Len(s)]
          BY <1>1, <3>0, <3>4
        <4>3. j - Len(s) = l - Len(s)
          BY <2>1, <4>1, <4>2, LineParts
        <4> QED BY <3>0, <4>3
      <3> QED BY <3>0, <3>1, <3>2, <3>3, <3>4
    <2> QED BY <1>1, <2>1, InLines
  <1>4. ToSet(r) = ToSet(s) \cup ToSet(u)
    <2>1. ASSUME NEW x \in ToSet(r) PROVE x \in ToSet(s) \cup ToSet(u)
      <3>1. PICK j \in 1..Len(r) : x = r[j]
        BY <1>3, LineParts DEF ToSet
      <3>2. (\E l \in 1..Len(s) : x = s[l]) \/ (\E l \in 1..Len(u) : x = u[l])
        BY <1>1, <3>1, LineParts
      <3> QED BY <3>2, LineParts DEF ToSet
    <2>2. ASSUME NEW x \in ToSet(s) PROVE x \in ToSet(r)
      <3>1. PICK l \in 1..Len(s) : x = s[l]
        BY LineParts DEF ToSet
      <3>2. l \in 1..Len(r) /\ r[l] = x
        BY <1>1, <3>1, LineParts
      <3> QED BY <1>3, <3>2, LineParts DEF ToSet
    <2>3. ASSUME NEW x \in ToSet(u) PROVE x \in ToSet(r)
      <3>1. PICK l \in 1..Len(u) : x = u[l]
        BY LineParts DEF ToSet
      <3>2. l + Len(s) \in 1..Len(r) /\ r[l + Len(s)] = x
        BY <1>1, <3>1, LineParts
      <3> QED BY <1>3, <3>2, LineParts DEF ToSet
    <2> QED BY <2>1, <2>2, <2>3
  <1> QED BY <1>1, <1>3, <1>4

-----------------------------------------------------------------------------
(* Sorting.                                                                *)

\* before[t] holds what comes before t in a linear order of S.
Linear(S, before) ==
    \A t \in S :
        /\ before[t] \subseteq S /\ t \notin before[t]
        /\ \A u \in S : t = u \/ t \in before[u] \/ u \in before[t]
        /\ \A u \in before[t] : before[u] \subseteq before[t]

\* s has the members of S, each once, in that order.
InOrder(s, S, before) ==
    /\ s \in Lines /\ ToSet(s) = S /\ Len(s) = Cardinality(S)
    /\ \A i, j \in 1..Len(s) : i < j <=> s[i] \in before[s[j]]

\* The number of members that come before: within the set, and smaller for
\* what comes earlier.
LEMMA RankGrows ==
    ASSUME NEW S, IsFiniteSet(S), NEW before, Linear(S, before), NEW t \in S
    PROVE  /\ IsFiniteSet(before[t]) /\ Cardinality(before[t]) \in 0..(Cardinality(S) - 1)
           /\ \A u \in before[t] : Cardinality(before[u]) < Cardinality(before[t])
  <1> DEFINE n == Cardinality(S)
  <1>1. n \in Nat
    BY FS_CardinalityType
  <1>2. IsFiniteSet(before[t]) /\ Cardinality(before[t]) \in 0..(n - 1)
    <2>1. before[t] \in SUBSET S /\ before[t] # S
      BY DEF Linear
    <2>2. IsFiniteSet(before[t]) /\ Cardinality(before[t]) <= n /\ n # Cardinality(before[t])
      BY <2>1, FS_Subset
    <2> QED BY <1>1, <2>2, FS_CardinalityType
  <1>3. ASSUME NEW u \in before[t] PROVE Cardinality(before[u]) < Cardinality(before[t])
    <2>1. u \in S /\ before[u] \in SUBSET before[t] /\ before[u] # before[t]
      BY DEF Linear
    <2>2. /\ IsFiniteSet(before[u])
          /\ Cardinality(before[u]) <= Cardinality(before[t]) /\ Cardinality(before[t]) # Cardinality(before[u])
      BY <1>2, <2>1, FS_Subset
    <2> QED BY <1>2, <2>2, FS_CardinalityType
  <1> QED BY <1>2, <1>3

LEMMA OneOfEachRank ==
    ASSUME NEW S, IsFiniteSet(S), NEW before, Linear(S, before)
    PROVE  /\ \A t, u \in S : Cardinality(before[t]) = Cardinality(before[u]) => t = u
           /\ \A i \in 1..Cardinality(S) : \E t \in S : Cardinality(before[t]) = i - 1
  <1> DEFINE n == Cardinality(S)
             place == [t \in S |-> Cardinality(before[t]) + 1]
  <1>1. n \in Nat
    BY FS_CardinalityType
  <1>2. \A t \in S : /\ Cardinality(before[t]) \in 0..(n - 1)
                     /\ \A u \in before[t] : Cardinality(before[u]) < Cardinality(before[t])
    BY RankGrows
  <1>3. ASSUME NEW t \in S, NEW u \in S, Cardinality(before[t]) = Cardinality(before[u]) PROVE t = u
    <2>1. t \notin before[u] /\ u \notin before[t]
      BY <1>2, <1>3
    <2> QED BY <2>1 DEF Linear
  <1>4. place \in Injection(S, 1..n)
    <2>1. place \in [S -> 1..n]
      BY <1>1, <1>2
    <2>2. ASSUME NEW t \in S, NEW u \in S, place[t] = place[u] PROVE t = u
      <3>1. Cardinality(before[t]) = Cardinality(before[u])
        BY <1>2, <2>2
      <3> QED BY <1>3, <3>1
    <2> HIDE DEF place
    <2>3. DOMAIN place = S
      BY <2>1
    <2> QED BY <2>1, <2>2, <2>3 DEF Injection, IsInjective
  <1>5. \A i \in 1..n : \E t \in S : Cardinality(before[t]) = i - 1
    <2>1. IsFiniteSet(1..n) /\ Cardinality(1..n) = n
      BY <1>1, FS_Interval
    <2>2. place \in Surjection(S, 1..n)
      BY <1>4, <2>1, FS_Injection
    <2>3. \A i \in 1..n : \E t \in S : place[t] = i
      BY <2>2 DEF Surjection
    <2> QED BY <1>2, <2>3
  <1> QED BY <1>3, <1>5

LEMMA LastExists ==
    ASSUME NEW S, IsFiniteSet(S), S # {}, NEW before, Linear(S, before)
    PROVE  \E t \in S : Cardinality(before[t]) = Cardinality(S) - 1
  <1>1. Cardinality(S) \in 1..Cardinality(S)
    BY FS_CardinalityType, FS_EmptySet
  <1>2. \A i \in 1..Cardinality(S) : \E t \in S : Cardinality(before[t]) = i - 1
    BY OneOfEachRank
  <1> QED BY <1>1, <1>2

\* The largest and the smallest of a few numbers.
LEMMA MaxIs ==
    ASSUME NEW S \in SUBSET Int, IsFiniteSet(S), S # {}
    PROVE  Max(S) \in S /\ \A x \in S : x <= Max(S)
  <1> DEFINE before == [x \in S |-> {y \in S : y < x}]
             n == Cardinality(S)
  <1>0. \A x \in S : \A y : y \in before[x] <=> y \in S /\ y < x
    OBVIOUS
  <1>1. Linear(S, before)
    <2> HIDE DEF before
    <2>1. ASSUME NEW t \in S
          PROVE  /\ before[t] \subseteq S /\ t \notin before[t]
                 /\ \A u \in S : t = u \/ t \in before[u] \/ u \in before[t]
      BY <1>0
    <2>2. ASSUME NEW t \in S, NEW u \in before[t], NEW v \in before[u] PROVE v \in before[t]
      <3>1. u \in S /\ u < t
        BY <1>0
      <3>2. v \in S /\ v < u
        BY <1>0, <3>1
      <3> QED BY <1>0, <3>1, <3>2
    <2> QED BY <2>1, <2>2 DEF Linear
  <1>2. n \in Nat /\ n # 0
    BY FS_CardinalityType, FS_EmptySet
  <1>3. PICK x \in S : Cardinality(before[x]) = n - 1
    <2> HIDE DEF before
    <2> QED BY <1>1, LastExists
  <1>4. IsFiniteSet(S \ {x}) /\ Cardinality(S \ {x}) = n - 1
    BY FS_RemoveElement
  <1>5. before[x] \in SUBSET (S \ {x})
    OBVIOUS
  <1>6. S \ {x} = before[x]
    BY <1>3, <1>4, <1>5, FS_Subset
  <1>7. \A y \in S : x >= y
    BY <1>6
  <1> QED BY <1>7 DEF Max

LEMMA MinMaxOfTwo ==
    ASSUME NEW a \in Int, NEW b \in Int
    PROVE  /\ Min({a, b}) = IF a <= b THEN a ELSE b
           /\ Max({a, b}) = IF a <= b THEN b ELSE a
  BY DEF Min, Max

LEMMA SortedInOrder ==
    ASSUME NEW S \in SUBSET Tasks, NEW before, Linear(S, before)
    PROVE  InOrder(Sorted(S, before), S, before)
  <1> DEFINE n == Cardinality(S)
             s == Sorted(S, before)
  <1>1. IsFiniteSet(S) /\ n \in Nat
    BY QueueAssumption, FS_Subset, FS_CardinalityType
  <1>2. ASSUME NEW t \in S PROVE IsFiniteSet(before[t]) /\ Cardinality(before[t]) \in 0..(n - 1)
    BY <1>1, RankGrows
  <1>3. ASSUME NEW t \in S, NEW u \in before[t] PROVE Cardinality(before[u]) < Cardinality(before[t])
    BY <1>1, RankGrows
  <1>5. \A i \in 1..n : \E t \in S : Cardinality(before[t]) = i - 1
    BY <1>1, OneOfEachRank
  <1>6. s \in [1..n -> S] /\ \A i \in 1..n : s[i] \in S /\ Cardinality(before[s[i]]) = i - 1
    BY <1>5 DEF Sorted
  <1>7. s \in Seq(S) /\ Len(s) = n
    BY <1>1, <1>6
  <1> HIDE DEF s, n
  <1>8. s \in Lines
    <2>1. s \in Seq(Tasks)
      BY <1>7, SeqMonotonic
    <2>2. \A i, j \in 1..Len(s) : s[i] = s[j] => i = j
      BY <1>1, <1>6, <1>7
    <2> QED BY <2>1, <2>2, InLines
  <1>9. ToSet(s) = S
    <2>1. ASSUME NEW t \in S PROVE t \in ToSet(s)
      <3>1. Cardinality(before[t]) + 1 \in 1..n
        BY <1>1, <1>2 DEF n
      <3>2. PICK i \in 1..n : i = Cardinality(before[t]) + 1
        BY <3>1
      <3>3. Cardinality(before[s[i]]) = Cardinality(before[t]) /\ s[i] \in S
        BY <1>2, <1>6, <3>2
      <3>4. s[i] = t
        BY <1>2, <1>3, <3>3 DEF Linear
      <3> QED BY <1>6, <3>4 DEF ToSet
    <2>2. ASSUME NEW t \in ToSet(s) PROVE t \in S
      BY <1>6, <2>2 DEF ToSet
    <2> QED BY <2>1, <2>2
  <1>10. ASSUME NEW i \in 1..Len(s), NEW j \in 1..Len(s) PROVE i < j <=> s[i] \in before[s[j]]
    <2>1. s[i] \in S /\ s[j] \in S /\ Cardinality(before[s[i]]) = i - 1 /\ Cardinality(before[s[j]]) = j - 1
      BY <1>6, <1>7
    <2>2. ASSUME s[i] \in before[s[j]] PROVE i < j
      BY <1>1, <1>3, <1>7, <2>1, <2>2
    <2>3. ASSUME i < j PROVE s[i] \in before[s[j]]
      <3>1. s[j] \notin before[s[i]]
        BY <1>1, <1>3, <1>7, <2>1, <2>3
      <3>2. s[i] # s[j]
        BY <1>1, <1>7, <1>8, <2>3, LineParts
      <3> QED BY <2>1, <3>1, <3>2 DEF Linear
    <2> QED BY <2>2, <2>3
  <1>11. Len(s) = Cardinality(S)
    BY <1>7 DEF n
  <1>12. InOrder(s, S, before)
    BY <1>8, <1>9, <1>10, <1>11 DEF InOrder
  <1> QED BY <1>12 DEF s

\* There is one way to list a set in a given order.
LEMMA OneOrder ==
    ASSUME NEW S \in SUBSET Tasks, NEW before, Linear(S, before),
           NEW s \in Lines, ToSet(s) = S,
           \A i, j \in 1..Len(s) : i < j => s[i] \in before[s[j]]
    PROVE  s = Sorted(S, before)
  <1> DEFINE n == Len(s)
  <1>0. n \in Nat /\ s \in Seq(Tasks) /\ DOMAIN s = 1..n
    BY LineParts
  <1>1. ASSUME NEW i \in 1..n PROVE s[i] \in S /\ before[s[i]] = {s[j] : j \in 1..(i - 1)}
    <2>0. s[i] \in S
      BY <1>0 DEF ToSet
    <2>1. ASSUME NEW t \in before[s[i]] PROVE t \in {s[j] : j \in 1..(i - 1)}
      <3>1. t \in S
        BY <2>0 DEF Linear
      <3>2. PICK j \in 1..n : t = s[j]
        BY <1>0, <3>1 DEF ToSet
      <3>3. j # i
        BY <2>0, <3>2 DEF Linear
      <3>4. ~(i < j)
        <4> SUFFICES ASSUME i < j PROVE FALSE
          OBVIOUS
        <4>1. s[i] \in before[t]
          BY <3>2
        <4>2. s[i] \in before[s[i]]
          BY <2>0, <4>1, <3>1 DEF Linear
        <4> QED BY <2>0, <4>2 DEF Linear
      <3> QED BY <1>0, <3>2, <3>3, <3>4
    <2>2. ASSUME NEW t \in {s[j] : j \in 1..(i - 1)} PROVE t \in before[s[i]]
      BY <1>0
    <2> QED BY <2>0, <2>1, <2>2
  <1>2. ASSUME NEW i \in 0..n PROVE Cardinality({s[j] : j \in 1..i}) = i
    <2> DEFINE f == [j \in 1..i |-> s[j]]
               T == {s[j] : j \in 1..i}
    <2>1. f \in Surjection(1..i, T)
      BY DEF Surjection
    <2>2. f \in Injection(1..i, T)
      <3>1. \A j, k \in 1..i : f[j] = f[k] => j = k
        BY <1>0, LineParts
      <3> QED BY <3>1 DEF Injection, IsInjective
    <2>3. IsFiniteSet(1..i) /\ Cardinality(1..i) = i
      BY FS_Interval, <1>0
    <2> HIDE DEF f, T
    <2>4. Cardinality(T) = Cardinality(1..i)
      BY <2>1, <2>2, <2>3, FS_Surjection
    <2> QED BY <2>3, <2>4 DEF T
  <1>3. \A i \in 1..n : s[i] \in S /\ Cardinality(before[s[i]]) = i - 1
    <2> SUFFICES ASSUME NEW i \in 1..n PROVE s[i] \in S /\ Cardinality(before[s[i]]) = i - 1
      OBVIOUS
    <2>1. i - 1 \in 0..n
      BY <1>0
    <2>2. Cardinality({s[j] : j \in 1..(i - 1)}) = i - 1
      BY <1>2, <2>1
    <2> QED BY <1>1, <2>2
  <1>4. Cardinality(S) = n
    <2>1. \A t : t \in S <=> t \in {s[j] : j \in 1..n}
      BY <1>0 DEF ToSet
    <2>2. S = {s[j] : j \in 1..n}
      BY <2>1
    <2> QED BY <1>0, <1>2, <2>2
  <1> DEFINE r == Sorted(S, before)
  <1>5. r \in Lines /\ Len(r) = n /\ ToSet(r) = S
    BY <1>4, SortedInOrder DEF InOrder
  <1>6. \A i \in 1..n : r[i] \in S /\ Cardinality(before[r[i]]) = i - 1
    BY <1>3, <1>4 DEF Sorted
  <1>7. ASSUME NEW i \in 1..n PROVE s[i] = r[i]
    <2>1. PICK j \in 1..n : r[i] = s[j]
      BY <1>0, <1>6 DEF ToSet
    <2>2. i - 1 = j - 1
      BY <1>3, <1>6, <2>1
    <2> QED BY <1>0, <2>1, <2>2
  <1> HIDE DEF r
  <1>8. r \in Seq(Tasks)
    BY <1>5, LineParts
  <1>9. s = r
    BY <1>0, <1>5, <1>7, <1>8, SeqEqual
  <1> QED BY <1>9 DEF r

-----------------------------------------------------------------------------
(* Places in a line.                                                       *)

LEMMA LineLength ==
    ASSUME NEW s \in Lines
    PROVE  Len(s) = Cardinality(ToSet(s)) /\ Len(s) <= N /\ N \in Nat
  <1>1. s \in Surjection(1..Len(s), ToSet(s)) /\ s \in Injection(1..Len(s), ToSet(s))
    <2>1. s \in [1..Len(s) -> ToSet(s)]
      BY LineParts DEF ToSet
    <2>2. \A x \in ToSet(s) : \E i \in 1..Len(s) : s[i] = x
      BY LineParts DEF ToSet
    <2>3. IsInjective(s)
      BY DEF Lines
    <2> QED BY <2>1, <2>2, <2>3 DEF Surjection, Injection
  <1>2. IsFiniteSet(1..Len(s)) /\ Cardinality(1..Len(s)) = Len(s)
    BY LineParts, FS_Interval
  <1>3. Cardinality(ToSet(s)) = Len(s)
    BY <1>1, <1>2, FS_Surjection
  <1>4. Cardinality(ToSet(s)) <= N /\ N \in Nat
    BY LineParts, QueueAssumption, FS_Subset, FS_CardinalityType DEF N
  <1> QED BY <1>3, <1>4

\* Two lines that give their members the same places are the same.
LEMMA SameLine ==
    ASSUME NEW r \in Lines, NEW s \in Lines, ToSet(r) = ToSet(s),
           \A t \in ToSet(s) : IndexIn(r, t) = IndexIn(s, t)
    PROVE  r = s
  <1>1. Len(r) = Len(s)
    BY LineLength
  <1>2. ASSUME NEW i \in 1..Len(s) PROVE r[i] = s[i]
    <2>1. s[i] \in ToSet(s) /\ IndexIn(s, s[i]) = i - 1
      BY LineParts, IndexOfMember DEF ToSet
    <2>2. IndexIn(r, s[i]) + 1 = i
      BY <2>1
    <2> QED BY <2>1, <2>2, IndexRange
  <1> QED BY <1>1, <1>2, LineParts, SeqEqual

\* Members have places of their own.
LEMMA OwnPlace ==
    ASSUME NEW s \in Lines, NEW t \in ToSet(s), NEW u \in ToSet(s), IndexIn(s, t) = IndexIn(s, u)
    PROVE  t = u
  <1>1. s[IndexIn(s, t) + 1] = t /\ s[IndexIn(s, u) + 1] = u
    BY IndexRange
  <1> QED BY <1>1

\* Where the others are once one was taken out.
LEMMA PlacesAfterTaking ==
    ASSUME NEW s \in Lines, NEW t \in ToSet(s), NEW r, r = RemoveFirst(s, t)
    PROVE  /\ r \in Lines /\ ToSet(r) = ToSet(s) \ {t} /\ Len(r) = Len(s) - 1
           /\ r = RemoveAt(s, IndexIn(s, t) + 1)
           /\ \A u \in ToSet(r) : IndexIn(r, u) = IF IndexIn(s, u) < IndexIn(s, t)
                                                 THEN IndexIn(s, u) ELSE IndexIn(s, u) - 1
  <1>0. PICK i \in 1..Len(s) : s[i] = t
    BY LineParts DEF ToSet
  <1>1. IndexIn(s, t) = i - 1 /\ i = IndexIn(s, t) + 1
    BY <1>0, IndexOfMember, LineParts
  <1>2. r = RemoveAt(s, i)
    BY <1>0, RemovedIs
  <1>3. /\ r \in Lines /\ ToSet(r) = ToSet(s) \ {t} /\ Len(r) = Len(s) - 1
        /\ \A j \in 1..Len(r) : r[j] = IF j < i THEN s[j] ELSE s[j + 1]
    BY <1>0, <1>2, TakenOut
  <1>4. ASSUME NEW u \in ToSet(r)
        PROVE  IndexIn(r, u) = IF IndexIn(s, u) < IndexIn(s, t) THEN IndexIn(s, u) ELSE IndexIn(s, u) - 1
    <2>1. PICK j \in 1..Len(r) : u = r[j]
      BY <1>3, LineParts DEF ToSet
    <2>2. IndexIn(r, u) = j - 1
      BY <1>3, <2>1, IndexOfMember
    <2>3. CASE j < i
      <3>1. u = s[j] /\ j \in 1..Len(s)
        BY <1>3, <2>1, <2>3, LineParts
      <3>2. IndexIn(s, u) = j - 1
        BY <3>1, IndexOfMember
      <3> QED BY <1>1, <2>2, <2>3, <3>2
    <2>4. CASE ~(j < i)
      <3>1. u = s[j + 1] /\ j + 1 \in 1..Len(s)
        BY <1>3, <2>1, <2>4, LineParts
      <3>2. IndexIn(s, u) = j
        BY <3>1, IndexOfMember
      <3> QED BY <1>1, <2>2, <2>4, <3>2
    <2> QED BY <2>3, <2>4
  <1> QED BY <1>1, <1>2, <1>3, <1>4

\* Where everybody is once t was put in at place k (counted from 0).
LEMMA PlacesAfterPutting ==
    ASSUME NEW s \in Lines, NEW t \in Tasks \ ToSet(s), NEW k \in 0..Len(s),
           NEW r, r = InsertAt(s, k + 1, t)
    PROVE  /\ r \in Lines /\ ToSet(r) = ToSet(s) \cup {t} /\ Len(r) = Len(s) + 1
           /\ IndexIn(r, t) = k
           /\ \A u \in ToSet(s) : IndexIn(r, u) = IF IndexIn(s, u) < k THEN IndexIn(s, u)
                                                 ELSE IndexIn(s, u) + 1
  <1>0. k + 1 \in 1..(Len(s) + 1)
    BY LineParts
  <1>1. /\ r \in Lines /\ ToSet(r) = ToSet(s) \cup {t} /\ Len(r) = Len(s) + 1
        /\ \A j \in 1..Len(r) : r[j] = IF j < k + 1 THEN s[j] ELSE IF j = k + 1 THEN t ELSE s[j - 1]
    BY <1>0, PutIn
  <1>2. IndexIn(r, t) = k
    <2>1. k + 1 \in 1..Len(r) /\ r[k + 1] = t
      BY <1>0, <1>1, LineParts
    <2>2. IndexIn(r, t) = (k + 1) - 1
      BY <1>1, <2>1, IndexOfMember
    <2> QED BY <2>2
  <1>3. ASSUME NEW u \in ToSet(s)
        PROVE  IndexIn(r, u) = IF IndexIn(s, u) < k THEN IndexIn(s, u) ELSE IndexIn(s, u) + 1
    <2>1. PICK j \in 1..Len(s) : u = s[j]
      BY LineParts DEF ToSet
    <2>2. IndexIn(s, u) = j - 1
      BY <2>1, IndexOfMember
    <2>3. CASE j <= k
      <3>1. r[j] = u /\ j \in 1..Len(r)
        BY <1>1, <2>1, <2>3, LineParts
      <3>2. IndexIn(r, u) = j - 1
        BY <1>1, <3>1, IndexOfMember
      <3> QED BY <2>2, <2>3, <3>2
    <2>4. CASE ~(j <= k)
      <3>1. r[j + 1] = u /\ j + 1 \in 1..Len(r)
        BY <1>1, <2>1, <2>4, LineParts
      <3>2. IndexIn(r, u) = j
        BY <1>1, <3>1, IndexOfMember
      <3> QED BY <2>2, <2>4, <3>2
    <2> QED BY <2>3, <2>4
  <1> QED BY <1>1, <1>2, <1>3

\* Where everybody is once u was put behind s.
LEMMA PlacesAfterJoining ==
    ASSUME NEW s \in Lines, NEW u \in Lines, ToSet(s) \cap ToSet(u) = {}, NEW r, r = s \o u
    PROVE  /\ r \in Lines /\ ToSet(r) = ToSet(s) \cup ToSet(u)
           /\ \A t \in ToSet(s) : IndexIn(r, t) = IndexIn(s, t)
  <1>1. /\ r \in Lines /\ ToSet(r) = ToSet(s) \cup ToSet(u) /\ Len(r) = Len(s) + Len(u)
        /\ \A j \in 1..Len(r) : r[j] = IF j <= Len(s) THEN s[j] ELSE u[j - Len(s)]
    <2>1. r \in Lines /\ ToSet(r) = ToSet(s) \cup ToSet(u) /\ Len(r) = Len(s) + Len(u)
      BY Joined
    <2>2. \A j \in 1..Len(r) : r[j] = IF j <= Len(s) THEN s[j] ELSE u[j - Len(s)]
      BY Joined
    <2> QED BY <2>1, <2>2
  <1>2. ASSUME NEW t \in ToSet(s) PROVE IndexIn(r, t) = IndexIn(s, t)
    <2>1. PICK j \in 1..Len(s) : t = s[j]
      BY LineParts DEF ToSet
    <2>2. j \in 1..Len(r) /\ r[j] = t
      BY <1>1, <2>1, LineParts
    <2> QED BY <1>1, <2>1, <2>2, IndexOfMember
  <1> QED BY <1>1, <1>2

\* A line of one, and none.
LEMMA ShortLines ==
    /\ <<>> \in Lines /\ ToSet(<<>>) = {}
    /\ \A t \in Tasks : <<t>> \in Lines /\ ToSet(<<t>>) = {t}
  <1>1. <<>> \in Lines /\ ToSet(<<>>) = {}
    BY DEF Lines, IsInjective, ToSet
  <1>2. ASSUME NEW t \in Tasks PROVE <<t>> \in Lines /\ ToSet(<<t>>) = {t}
    <2>1. <<t>> \in Seq(Tasks) /\ Len(<<t>>) = 1 /\ <<t>>[1] = t
      OBVIOUS
    <2>2. \A i, j \in 1..Len(<<t>>) : <<t>>[i] = <<t>>[j] => i = j
      BY <2>1
    <2>3. <<t>> \in Lines
      BY <2>1, <2>2, InLines
    <2>4. DOMAIN <<t>> = {1}
      BY <2>1
    <2>5. ToSet(<<t>>) = {t}
      BY <2>1, <2>4 DEF ToSet
    <2> QED BY <2>3, <2>5
  <1> QED BY <1>1, <1>2

-----------------------------------------------------------------------------
(* The lists the model reads.                                              *)

\* What list_tasks puts before t: p the positions, b the ranks of created_at.
Earlier(S, p, b) ==
    [t \in S |-> {u \in S : p[u] < p[t] \/ (p[u] = p[t] /\ b[u] < b[t])}]

LEMMA EarlierIsLinear ==
    ASSUME NEW S \in SUBSET Tasks, NEW p \in [Tasks -> Int], NEW b \in [Tasks -> Int],
           \A t, u \in S : b[t] = b[u] => t = u
    PROVE  Linear(S, Earlier(S, p, b))
  <1> DEFINE e == Earlier(S, p, b)
  <1>1. ASSUME NEW t \in S
        PROVE  \A u : u \in e[t] <=> u \in S /\ (p[u] < p[t] \/ (p[u] = p[t] /\ b[u] < b[t]))
    BY DEF Earlier
  <1>2. \A t \in S : t \in Tasks /\ p[t] \in Int /\ b[t] \in Int
    OBVIOUS
  <1> HIDE DEF e
  <1>3. ASSUME NEW t \in S
        PROVE  /\ e[t] \subseteq S /\ t \notin e[t]
               /\ \A u \in S : t = u \/ t \in e[u] \/ u \in e[t]
    <2>1. e[t] \subseteq S /\ t \notin e[t]
      BY <1>1, <1>2
    <2>2. ASSUME NEW u \in S, t # u, u \notin e[t] PROVE t \in e[u]
      <3>1. b[t] # b[u]
        BY <2>2
      <3>2. p[t] < p[u] \/ (p[t] = p[u] /\ b[t] < b[u])
        BY <1>1, <1>2, <2>2, <3>1
      <3> QED BY <1>1, <3>2
    <2> QED BY <2>1, <2>2
  <1>4. ASSUME NEW t \in S, NEW u \in e[t], NEW v \in e[u] PROVE v \in e[t]
    <2>1. u \in S /\ (p[u] < p[t] \/ (p[u] = p[t] /\ b[u] < b[t]))
      BY <1>1
    <2>2. v \in S /\ (p[v] < p[u] \/ (p[v] = p[u] /\ b[v] < b[u]))
      BY <1>1, <2>1
    <2>3. p[v] < p[t] \/ (p[v] = p[t] /\ b[v] < b[t])
      BY <1>2, <2>1, <2>2
    <2> QED BY <1>1, <2>2, <2>3
  <1>5. Linear(S, e)
    BY <1>3, <1>4 DEF Linear
  <1> QED BY <1>5 DEF e

\* A line that follows the positions is the list.
LEMMA ListedIs ==
    ASSUME NEW S \in SUBSET Tasks, NEW p \in [Tasks -> Int], NEW b \in [Tasks -> Int],
           \A t, u \in S : b[t] = b[u] => t = u,
           NEW s \in Lines, ToSet(s) = S,
           \A t \in S : p[t] = IndexIn(s, t)
    PROVE  s = Sorted(S, Earlier(S, p, b))
  <1> DEFINE e == Earlier(S, p, b)
  <1>1. Linear(S, e)
    BY EarlierIsLinear
  <1>2. ASSUME NEW i \in 1..Len(s), NEW j \in 1..Len(s), i < j PROVE s[i] \in e[s[j]]
    <2>1. s[i] \in S /\ s[j] \in S /\ IndexIn(s, s[i]) = i - 1 /\ IndexIn(s, s[j]) = j - 1
      BY LineParts, IndexOfMember DEF ToSet
    <2>2. p[s[i]] < p[s[j]]
      BY <1>2, <2>1, LineParts
    <2>3. \A u : u \in e[s[j]] <=> u \in S /\ (p[u] < p[s[j]] \/ (p[u] = p[s[j]] /\ b[u] < b[s[j]]))
      BY <2>1 DEF Earlier
    <2> HIDE DEF e
    <2> QED BY <2>1, <2>2, <2>3
  <1> HIDE DEF e
  <1>3. s = Sorted(S, e)
    BY <1>1, <1>2, OneOrder
  <1> QED BY <1>3 DEF e

\* Picked keeps the order.
LEMMA PickedParts ==
    ASSUME NEW s \in Lines, NEW S, NEW r, r = Picked(s, S)
    PROVE  /\ r \in Lines /\ ToSet(r) = ToSet(s) \cap S
           /\ \A i, j \in 1..Len(r) : i < j => IndexIn(s, r[i]) < IndexIn(s, r[j])
  <1> DEFINE T == ToSet(s) \cap S
             e == [t \in T |-> {u \in T : IndexIn(s, u) < IndexIn(s, t)}]
  <1>0. \A t \in T : t \in ToSet(s) /\ IndexIn(s, t) \in Int
    BY IndexRange, LineParts
  <1>1. ASSUME NEW t \in T PROVE \A u : u \in e[t] <=> u \in T /\ IndexIn(s, u) < IndexIn(s, t)
    OBVIOUS
  <1>2. T \in SUBSET Tasks
    BY LineParts
  <1>3. r = Sorted(T, e)
    BY DEF Picked
  <1> HIDE DEF e, T
  <1>4. ASSUME NEW t \in T
        PROVE  /\ e[t] \subseteq T /\ t \notin e[t]
               /\ \A u \in T : t = u \/ t \in e[u] \/ u \in e[t]
    BY <1>0, <1>1, OwnPlace
  <1>5. ASSUME NEW t \in T, NEW u \in e[t], NEW v \in e[u] PROVE v \in e[t]
    <2>1. u \in T /\ IndexIn(s, u) < IndexIn(s, t)
      BY <1>1
    <2>2. v \in T /\ IndexIn(s, v) < IndexIn(s, u)
      BY <1>1, <2>1
    <2> QED BY <1>0, <1>1, <2>1, <2>2
  <1>6. Linear(T, e)
    BY <1>4, <1>5 DEF Linear
  <1>7. InOrder(r, T, e)
    BY <1>2, <1>3, <1>6, SortedInOrder
  <1>8. r \in Lines /\ ToSet(r) = T
    BY <1>7 DEF InOrder
  <1>9. ASSUME NEW i \in 1..Len(r), NEW j \in 1..Len(r), i < j
        PROVE  IndexIn(s, r[i]) < IndexIn(s, r[j])
    <2>1. r[j] \in T
      BY <1>8, LineParts DEF ToSet
    <2>2. r[i] \in e[r[j]]
      BY <1>7, <1>9 DEF InOrder
    <2> QED BY <1>1, <2>1, <2>2
  <1> QED BY <1>8, <1>9 DEF T

-----------------------------------------------------------------------------
(* Moving one task of a line.                                              *)

\* The place Moved gives to the task at place i of n.
Target(i, n, direction) ==
    CASE direction = "up" -> IF i = 0 THEN 0 ELSE i - 1
      [] direction = "down" -> IF i = n - 1 THEN i ELSE i + 1
      [] direction = "top" -> 0
      [] direction = "bottom" -> n - 1

LEMMA MovedParts ==
    ASSUME NEW s \in Lines, NEW t \in ToSet(s), NEW d \in Direction, NEW r, r = Moved(s, t, d)
    PROVE  /\ r \in Lines /\ ToSet(r) = ToSet(s) /\ Len(r) = Len(s)
           /\ IndexIn(r, t) = Target(IndexIn(s, t), Len(s), d)
           /\ RemoveFirst(r, t) = RemoveFirst(s, t)
           /\ \A u \in ToSet(s) \ {t} :
                LET x == IndexIn(s, u)
                    y == IF x < IndexIn(s, t) THEN x ELSE x - 1
                IN  IndexIn(r, u) = IF y < IndexIn(r, t) THEN y ELSE y + 1
  <1> DEFINE i == IndexIn(s, t)
             rest == RemoveFirst(s, t)
             k == Target(i, Len(s), d)
  <1>1. i \in 0..(Len(s) - 1) /\ Len(s) \in Nat
    BY IndexRange, LineParts
  <1>2. /\ rest \in Lines /\ ToSet(rest) = ToSet(s) \ {t} /\ Len(rest) = Len(s) - 1
        /\ \A u \in ToSet(rest) : IndexIn(rest, u) = IF IndexIn(s, u) < i THEN IndexIn(s, u)
                                                    ELSE IndexIn(s, u) - 1
    BY PlacesAfterTaking
  <1>3. k \in 0..Len(rest)
    BY <1>1, <1>2 DEF Target, Direction
  <1>4. r = InsertAt(rest, k + 1, t)
    <2>1. Max({i - 1, 0}) = IF i - 1 <= 0 THEN 0 ELSE i - 1
      <3>1. i - 1 \in Int
        BY <1>1
      <3> HIDE DEF i
      <3> QED BY <3>1 DEF Max
    <2>2. Min({i + 1, Len(rest)}) = IF i + 1 <= Len(rest) THEN i + 1 ELSE Len(rest)
      BY <1>1, <1>2, MinMaxOfTwo
    <2> DEFINE to == CASE d = "up" -> Max({i - 1, 0})
                       [] d = "down" -> Min({i + 1, Len(rest)})
                       [] d = "top" -> 0
                       [] d = "bottom" -> Len(rest)
    <2>3. r = InsertAt(rest, to + 1, t)
      BY DEF Moved
    <2> HIDE DEF i, rest
    <2>4. to = k
      BY <1>1, <1>2, <2>1, <2>2 DEF Target, Direction
    <2> QED BY <2>3, <2>4
  <1> HIDE DEF k, rest
  <1>5. t \in Tasks \ ToSet(rest)
    BY <1>2, LineParts
  <1>6. /\ r \in Lines /\ ToSet(r) = ToSet(rest) \cup {t} /\ Len(r) = Len(rest) + 1
        /\ IndexIn(r, t) = k
        /\ \A u \in ToSet(rest) : IndexIn(r, u) = IF IndexIn(rest, u) < k THEN IndexIn(rest, u)
                                                 ELSE IndexIn(rest, u) + 1
    BY <1>2, <1>3, <1>4, <1>5, PlacesAfterPutting
  <1>7. ToSet(r) = ToSet(s) /\ Len(r) = Len(s)
    BY <1>1, <1>2, <1>6
  <1>8. RemoveFirst(r, t) = rest
    <2> DEFINE q == RemoveFirst(r, t)
    <2>1. /\ q \in Lines /\ ToSet(q) = ToSet(r) \ {t}
          /\ \A u \in ToSet(q) : IndexIn(q, u) = IF IndexIn(r, u) < IndexIn(r, t) THEN IndexIn(r, u)
                                                ELSE IndexIn(r, u) - 1
      BY <1>6, PlacesAfterTaking
    <2> HIDE DEF q
    <2>2. ToSet(q) = ToSet(rest)
      BY <1>5, <1>6, <2>1
    <2>3. ASSUME NEW u \in ToSet(rest) PROVE IndexIn(q, u) = IndexIn(rest, u)
      <3>1. IndexIn(rest, u) \in Int
        BY <1>2, IndexRange, LineParts
      <3> QED BY <1>2, <1>3, <1>6, <2>1, <2>2, <3>1
    <2>4. q = rest
      BY <1>2, <2>1, <2>2, <2>3, SameLine
    <2> QED BY <2>4 DEF q
  <1>9. ASSUME NEW u \in ToSet(s) \ {t}
        PROVE  LET x == IndexIn(s, u)
                   y == IF x < i THEN x ELSE x - 1
               IN  IndexIn(r, u) = IF y < IndexIn(r, t) THEN y ELSE y + 1
    <2>1. u \in ToSet(rest)
      BY <1>2
    <2> HIDE DEF i
    <2> QED BY <1>2, <1>6, <2>1
  <1>10. RemoveFirst(r, t) = RemoveFirst(s, t)
    BY <1>8 DEF rest
  <1>11. IndexIn(r, t) = Target(IndexIn(s, t), Len(s), d)
    BY <1>6 DEF k
  <1> QED BY <1>6, <1>7, <1>9, <1>10, <1>11

\* changePosition to place p: what was before p stays, in the same order,
\* before the task that is put there.
LEMMA RepositionedParts ==
    ASSUME queue \in Lines, NEW t \in ToSet(queue), NEW p \in Nat, NEW r, r = Repositioned(t, p)
    PROVE  /\ r \in Lines /\ ToSet(r) = ToSet(queue)
           /\ IndexIn(r, t) <= p
           /\ \A u \in ToSet(queue) \ {t} : IndexIn(queue, u) < p
                => IndexIn(r, u) <= IndexIn(queue, u) /\ IndexIn(r, u) < IndexIn(r, t)
           /\ \A u, v \in ToSet(queue) \ {t} :
                IndexIn(queue, u) < IndexIn(queue, v) => IndexIn(r, u) < IndexIn(r, v)
  <1> DEFINE i == IndexIn(queue, t)
             rest == RemoveFirst(queue, t)
             k == Min({p, Len(rest)})
  <1>1. /\ rest \in Lines /\ ToSet(rest) = ToSet(queue) \ {t} /\ Len(rest) = Len(queue) - 1
        /\ \A u \in ToSet(rest) : IndexIn(rest, u) = IF IndexIn(queue, u) < i THEN IndexIn(queue, u)
                                                    ELSE IndexIn(queue, u) - 1
    BY PlacesAfterTaking
  <1>2. i \in Int /\ Len(rest) \in Nat
    BY <1>1, IndexRange, LineParts
  <1>3. k = IF p <= Len(rest) THEN p ELSE Len(rest)
    BY <1>2, MinMaxOfTwo
  <1>4. r = InsertAt(rest, k + 1, t)
    BY DEF Repositioned
  <1> HIDE DEF i, k, rest
  <1>5. k \in 0..Len(rest) /\ k <= p
    BY <1>2, <1>3
  <1>6. t \in Tasks \ ToSet(rest)
    BY <1>1, LineParts
  <1>7. /\ r \in Lines /\ ToSet(r) = ToSet(rest) \cup {t}
        /\ IndexIn(r, t) = k
        /\ \A u \in ToSet(rest) : IndexIn(r, u) = IF IndexIn(rest, u) < k THEN IndexIn(rest, u)
                                                 ELSE IndexIn(rest, u) + 1
    <2>1. rest \in Lines
      BY <1>1
    <2> QED BY <1>4, <1>5, <1>6, <2>1, PlacesAfterPutting
  <1>8. ASSUME NEW u \in ToSet(queue) \ {t}
        PROVE  /\ u \in ToSet(rest) /\ IndexIn(queue, u) \in Int
               /\ IndexIn(queue, u) # i
               /\ IndexIn(rest, u) \in 0..(Len(rest) - 1)
    BY <1>1, IndexRange, LineParts, OwnPlace DEF i
  <1>9. ASSUME NEW u \in ToSet(queue) \ {t}, IndexIn(queue, u) < p
        PROVE  IndexIn(r, u) <= IndexIn(queue, u) /\ IndexIn(r, u) < IndexIn(r, t)
    <2>1. u \in ToSet(rest) /\ IndexIn(queue, u) \in Int /\ IndexIn(rest, u) \in 0..(Len(rest) - 1)
      BY <1>8
    <2>2. IndexIn(rest, u) <= IndexIn(queue, u)
      BY <1>1, <2>1
    <2>3. IndexIn(rest, u) < k
      BY <1>2, <1>3, <1>9, <2>1, <2>2
    <2>4. IndexIn(r, u) = IndexIn(rest, u) /\ IndexIn(r, t) = k
      BY <1>7, <2>1, <2>3
    <2> QED BY <2>2, <2>3, <2>4
  <1>10. ASSUME NEW u \in ToSet(queue) \ {t}, NEW v \in ToSet(queue) \ {t},
                IndexIn(queue, u) < IndexIn(queue, v)
         PROVE  IndexIn(r, u) < IndexIn(r, v)
    <2>1. /\ u \in ToSet(rest) /\ IndexIn(queue, u) \in Int /\ IndexIn(queue, u) # i
          /\ v \in ToSet(rest) /\ IndexIn(queue, v) \in Int /\ IndexIn(queue, v) # i
      BY <1>8
    <2>2. IndexIn(rest, u) < IndexIn(rest, v) /\ IndexIn(rest, u) \in Int /\ IndexIn(rest, v) \in Int
      BY <1>1, <1>2, <1>10, <2>1
    <2> QED BY <1>5, <1>7, <2>1, <2>2
  <1>11. ToSet(r) = ToSet(queue)
    BY <1>1, <1>7
  <1> QED BY <1>5, <1>7, <1>9, <1>10, <1>11

-----------------------------------------------------------------------------
(* The inductive invariant.                                                *)

Added == {t \in Tasks : row[t] # "novo"}

\* created_at tells rows apart, and no number is larger than the number of
\* tasks that were ever added.
Numbered ==
    /\ \A t, u \in Rows : born[t] = born[u] => t = u
    /\ \A t \in Tasks : born[t] <= Cardinality(Added) /\ pos[t] <= Cardinality(Added)

RowsOK ==
    /\ row \in [Tasks -> RowState]
    /\ pos \in [Tasks -> 0..N]
    /\ born \in [Tasks -> 0..N]
    /\ Numbered

\* aria2 has nothing but downloads whose rows are alive.
EngineOK ==
    /\ queue \in Lines
    /\ held \subseteq ToSet(queue)
    /\ halting \subseteq active /\ active \subseteq Tasks \ ToSet(queue)
    /\ Cardinality(active) <= MaxActive
    /\ ended \subseteq Tasks \ Engine
    /\ reconcile \in BOOLEAN
    /\ \A t \in Engine \cup ended : row[t] \in Live

\* A download that was placed is no further back than its turn put it.
MirrorOK ==
    /\ asked \in [id : Tasks \cup {Nobody}, direction : Direction]
    /\ order \in Lines
    /\ turn \in 0..(N + 1)
    /\ placed \subseteq ToSet(order)
    /\ turn = 0 => order = <<>> /\ placed = {}
    /\ \A i \in DOMAIN order :
         order[i] \in placed \cap ToSet(queue) => i < turn /\ IndexIn(queue, order[i]) < i
    /\ MoveIsMirrored

DragType ==
    [step : {"none", "held", "moving"}, id : Tasks \cup {Nobody}, drawn : SUBSET Tasks,
     seen : Lines, target : Tasks \cup {Nobody}, direction : Direction, left : 0..N, calm : BOOLEAN]

\* Where the row stands that the drag is to land on, while moves are left.
Ahead(list) ==
    IndexIn(list, drag.target) =
        IF drag.direction = "up" /\ drag.left > 0 THEN IndexIn(list, drag.id) - drag.left
        ELSE IndexIn(list, drag.id) + drag.left + 1

PageOK ==
    /\ drag \in DragType
    /\ drag.step = "held" => drag.id \in Tasks
    /\ drag.step = "moving" =>
         /\ drag.id \in Tasks /\ drag.target \in Tasks \ {drag.id}
         /\ drag.direction \in {"up", "down"}
         /\ drag.calm => {drag.id, drag.target} \subseteq Waiting /\ Ahead(Listed(Waiting))

Inductive == RowsOK /\ EngineOK /\ MirrorOK /\ PageOK /\ acts \in 0..MaxActs

LEMMA InductiveTyped == Inductive => TypeOK
  BY DEF Inductive, RowsOK, EngineOK, MirrorOK, PageOK, DragType, TypeOK

-----------------------------------------------------------------------------
(* The rows.                                                               *)

LEMMA NIsNat == N \in Nat /\ IsFiniteSet(Tasks)
  BY QueueAssumption, FS_CardinalityType DEF N

LEMMA AddedBound ==
    /\ IsFiniteSet(Added) /\ Cardinality(Added) \in 0..N
    /\ \A S \in SUBSET Added : IsFiniteSet(S) /\ Cardinality(S) <= Cardinality(Added)
  <1>1. Added \in SUBSET Tasks
    BY DEF Added
  <1>2. IsFiniteSet(Added) /\ Cardinality(Added) \in 0..N
    BY <1>1, NIsNat, FS_Subset, FS_CardinalityType DEF N
  <1> QED BY <1>2, FS_Subset

LEMMA ListedParts ==
    ASSUME RowsOK, NEW S \in SUBSET Rows
    PROVE  /\ Listed(S) = Sorted(S, Earlier(S, pos, born))
           /\ Listed(S) \in Lines /\ ToSet(Listed(S)) = S
  <1>1. S \in SUBSET Tasks /\ \A t, u \in S : born[t] = born[u] => t = u
    BY DEF RowsOK, Numbered, Rows
  <1>2. pos \in [Tasks -> Int] /\ born \in [Tasks -> Int]
    BY NIsNat DEF RowsOK
  <1>3. Listed(S) = Sorted(S, Earlier(S, pos, born))
    BY DEF Listed, Earlier
  <1>4. Linear(S, Earlier(S, pos, born))
    BY <1>1, <1>2, EarlierIsLinear
  <1>5. InOrder(Listed(S), S, Earlier(S, pos, born))
    BY <1>1, <1>3, <1>4, SortedInOrder
  <1> QED BY <1>3, <1>5 DEF InOrder

LEMMA WaitingListed ==
    ASSUME RowsOK
    PROVE  /\ Waiting \subseteq Rows /\ Waiting \subseteq Tasks
           /\ Listed(Waiting) \in Lines /\ ToSet(Listed(Waiting)) = Waiting
  <1>1. Waiting \in SUBSET Rows /\ Waiting \subseteq Tasks
    BY DEF Waiting, Rows
  <1> QED BY <1>1, ListedParts

\* Rows that change their state, and no row that is new.
LEMMA RowsKept ==
    ASSUME RowsOK, UNCHANGED <<pos, born>>, row' \in [Tasks -> RowState],
           \A t \in Tasks : /\ row'[t] = "novo" <=> row[t] = "novo"
                            /\ row[t] = "apagado" => row'[t] = "apagado"
    PROVE  RowsOK'
  <1>1. Rows' \subseteq Rows /\ Added' = Added
    BY DEF Rows, Added
  <1> QED BY <1>1 DEF RowsOK, Numbered

LEMMA RowsUntouched ==
    ASSUME RowsOK, UNCHANGED <<row, pos, born>>
    PROVE  RowsOK'
  BY DEF RowsOK, Numbered, Rows, Added

LEMMA RowsAfterAdd ==
    ASSUME RowsOK, NEW t \in Tasks, Add(t)
    PROVE  RowsOK'
  <1> DEFINE k == Cardinality(Added)
             P == {0} \cup {pos[u] : u \in Rows}
             B == {born[u] : u \in Tasks}
  <1>1. /\ row[t] = "novo" /\ row' = [row EXCEPT ![t] = "aguardando"]
        /\ pos' = [pos EXCEPT ![t] = 1 + Max(P)]
        /\ born' = [born EXCEPT ![t] = 1 + Max(B)]
    BY DEF Add, NextPosition
  <1>2. k \in 0..N /\ IsFiniteSet(Added)
    BY AddedBound
  <1>3. \A u \in Tasks : pos[u] \in 0..k /\ born[u] \in 0..k
    BY <1>2, NIsNat DEF RowsOK, Numbered
  <1>4. IsFiniteSet(0..k)
    BY <1>2, FS_Interval
  <1>5. Max(P) \in 0..k
    <2>1. P \in SUBSET (0..k) /\ P \in SUBSET Int /\ P # {}
      BY <1>2, <1>3, NIsNat DEF Rows
    <2>2. IsFiniteSet(P)
      BY <1>4, <2>1, FS_Subset
    <2> HIDE DEF P
    <2> QED BY <2>1, <2>2, MaxIs
  <1>6. Max(B) \in 0..k /\ \A u \in Tasks : born[u] <= Max(B)
    <2>1. B \in SUBSET (0..k) /\ B \in SUBSET Int /\ B # {} /\ \A u \in Tasks : born[u] \in B
      BY <1>2, <1>3, NIsNat
    <2>2. IsFiniteSet(B)
      BY <1>4, <2>1, FS_Subset
    <2> HIDE DEF B
    <2> QED BY <2>1, <2>2, MaxIs
  <1> HIDE DEF P, B
  <1>7. Added' = Added \cup {t} /\ t \notin Added /\ Rows' \subseteq Rows \cup {t} /\ t \notin Rows
    BY <1>1 DEF RowsOK, Added, Rows
  <1>8. Cardinality(Added') = k + 1 /\ k + 1 <= N
    <2>1. Cardinality(Added \cup {t}) = k + 1
      BY <1>2, <1>7, FS_AddElement
    <2>2. Added \cup {t} \in SUBSET Tasks
      BY DEF Added
    <2>3. Cardinality(Added \cup {t}) <= N
      BY <2>2, NIsNat, FS_Subset DEF N
    <2> QED BY <1>7, <2>1, <2>3
  <1>9. row' \in [Tasks -> RowState]
    BY <1>1 DEF RowsOK, RowState, Live
  <1>10. pos' \in [Tasks -> 0..N] /\ born' \in [Tasks -> 0..N]
    BY <1>1, <1>2, <1>5, <1>6, <1>8, NIsNat DEF RowsOK
  <1>11. ASSUME NEW u \in Rows', NEW v \in Rows', born'[u] = born'[v] PROVE u = v
    <2>1. u \in Tasks /\ v \in Tasks /\ (u # t => u \in Rows) /\ (v # t => v \in Rows)
      BY <1>7 DEF Rows
    <2>2. born'[t] = 1 + Max(B) /\ \A x \in Tasks : x # t => born'[x] = born[x]
      BY <1>1 DEF RowsOK
    <2>3. CASE u # t /\ v # t
      BY <1>11, <2>1, <2>2, <2>3 DEF RowsOK, Numbered
    <2>4. CASE u # t /\ v = t
      BY <1>3, <1>6, <1>11, <2>1, <2>2, <2>4
    <2>5. CASE u = t /\ v # t
      BY <1>3, <1>6, <1>11, <2>1, <2>2, <2>5
    <2> QED BY <2>3, <2>4, <2>5
  <1>12. ASSUME NEW u \in Tasks
         PROVE  born'[u] <= Cardinality(Added') /\ pos'[u] <= Cardinality(Added')
    BY <1>1, <1>2, <1>3, <1>5, <1>6, <1>8 DEF RowsOK
  <1> QED BY <1>9, <1>10, <1>11, <1>12 DEF RowsOK, Numbered

\* What StartMove makes of the positions.
LEMMA MoveRenumbers ==
    ASSUME RowsOK, NEW t \in Tasks, NEW d \in Direction, StartMove(t, d)
    PROVE  /\ RowsOK'
           /\ Waiting' = Waiting /\ t \in Waiting
           /\ Listed(Waiting)' = Moved(Listed(Waiting), t, d)
  <1> DEFINE before == Listed(Waiting)
             list == Moved(before, t, d)
  <1>1. /\ row[t] = "aguardando" /\ UNCHANGED <<row, born>>
        /\ pos' = [u \in Tasks |-> IF u \in ToSet(list) THEN IndexIn(list, u) ELSE pos[u]]
    BY DEF StartMove, Renumber
  <1>2. t \in Waiting /\ Waiting' = Waiting /\ Rows' = Rows /\ Added' = Added
    BY <1>1 DEF Waiting, Rows, Added
  <1>3. before \in Lines /\ ToSet(before) = Waiting
    BY WaitingListed
  <1> HIDE DEF before
  <1>4. list \in Lines /\ ToSet(list) = Waiting
    BY <1>2, <1>3, MovedParts
  <1> HIDE DEF list
  <1>5. Waiting \subseteq Added /\ Waiting \subseteq Tasks
    BY DEF Waiting, Added
  <1>6. Len(list) <= Cardinality(Added) /\ Cardinality(Added) \in 0..N
    BY <1>4, <1>5, LineLength, AddedBound
  <1>7. \A u \in Waiting : pos'[u] = IndexIn(list, u) /\ IndexIn(list, u) \in 0..(Len(list) - 1)
    BY <1>1, <1>4, <1>5, IndexRange
  <1>8. \A u \in Tasks \ Waiting : pos'[u] = pos[u]
    BY <1>1, <1>4
  <1>9. \A u \in Tasks : pos'[u] \in 0..N /\ pos'[u] <= Cardinality(Added)
    <2>1. ASSUME NEW u \in Waiting PROVE pos'[u] \in 0..N /\ pos'[u] <= Cardinality(Added)
      BY <1>4, <1>6, <1>7, LineParts, NIsNat
    <2> QED BY <1>8, <2>1 DEF RowsOK, Numbered
  <1>10. pos' \in [Tasks -> 0..N]
    BY <1>1, <1>9
  <1>11. RowsOK'
    BY <1>1, <1>2, <1>9, <1>10 DEF RowsOK, Numbered
  <1>12. Listed(Waiting)' = Sorted(Waiting, Earlier(Waiting, pos', born'))
    BY <1>2 DEF Listed, Earlier
  <1>13. list = Sorted(Waiting, Earlier(Waiting, pos', born'))
    <2>1. pos' \in [Tasks -> Int] /\ born' \in [Tasks -> Int]
      BY <1>1, <1>10, NIsNat DEF RowsOK
    <2>2. \A u, v \in Waiting : born'[u] = born'[v] => u = v
      BY <1>1, WaitingListed DEF RowsOK, Numbered
    <2>3. \A u \in Waiting : pos'[u] = IndexIn(list, u)
      BY <1>7
    <2>4. Waiting \in SUBSET Tasks
      BY <1>5
    <2> QED BY <1>4, <2>1, <2>2, <2>3, <2>4, ListedIs
  <1> QED BY <1>2, <1>11, <1>12, <1>13 DEF list, before

-----------------------------------------------------------------------------
(* aria2.                                                                  *)

LEMMA Appended ==
    ASSUME NEW s \in Lines, NEW t \in Tasks \ ToSet(s)
    PROVE  Append(s, t) \in Lines /\ ToSet(Append(s, t)) = ToSet(s) \cup {t}
  <1>1. Append(s, t) = s \o <<t>>
    BY LineParts, AppendIsConcat
  <1>2. <<t>> \in Lines /\ ToSet(<<t>>) = {t} /\ ToSet(s) \cap ToSet(<<t>>) = {}
    BY ShortLines
  <1> QED BY <1>1, <1>2, Joined

LEMMA EngineParts ==
    ASSUME EngineOK
    PROVE  /\ IsFiniteSet(active) /\ Cardinality(active) \in Nat /\ MaxActive \in Nat \ {0}
           /\ \A S \in SUBSET active : IsFiniteSet(S) /\ Cardinality(S) <= MaxActive
  <1>1. IsFiniteSet(active) /\ Cardinality(active) \in Nat /\ MaxActive \in Nat \ {0}
    BY QueueAssumption, FS_Subset, FS_CardinalityType DEF EngineOK
  <1>2. ASSUME NEW S \in SUBSET active PROVE IsFiniteSet(S) /\ Cardinality(S) <= MaxActive
    <2>1. IsFiniteSet(S) /\ Cardinality(S) <= Cardinality(active)
      BY <1>1, FS_Subset
    <2> QED BY <1>1, <2>1, FS_CardinalityType DEF EngineOK
  <1> QED BY <1>1, <1>2

LEMMA EngineAfterPromote ==
    ASSUME EngineOK, Promote
    PROVE  /\ EngineOK'
           /\ ToSet(queue') \subseteq ToSet(queue)
           /\ \A u, v \in ToSet(queue') :
                /\ IndexIn(queue', u) <= IndexIn(queue, u)
                /\ IndexIn(queue, u) < IndexIn(queue, v) => IndexIn(queue', u) < IndexIn(queue', v)
  <1>0. queue \in Lines
    BY DEF EngineOK
  <1>1. PICK i \in 1..Len(queue) :
            /\ queue[i] \notin held
            /\ active' = active \cup {queue[i]}
            /\ queue' = RemoveAt(queue, i)
    BY <1>0, LineParts DEF Promote
  <1> DEFINE t == queue[i]
  <1>2. t \in ToSet(queue) /\ queue' = RemoveFirst(queue, t) /\ IndexIn(queue, t) \in Int
    BY <1>0, <1>1, LineParts, RemovedIs, IndexRange DEF ToSet
  <1> HIDE DEF t
  <1>3. /\ queue' \in Lines /\ ToSet(queue') = ToSet(queue) \ {t}
        /\ \A u \in ToSet(queue') : IndexIn(queue', u) = IF IndexIn(queue, u) < IndexIn(queue, t)
                                                        THEN IndexIn(queue, u) ELSE IndexIn(queue, u) - 1
    BY <1>0, <1>2, PlacesAfterTaking
  <1>4. \A u \in ToSet(queue) : IndexIn(queue, u) \in Int /\ (u # t => IndexIn(queue, u) # IndexIn(queue, t))
    BY <1>0, <1>2, IndexRange, LineParts, OwnPlace
  <1>5. Cardinality(active') <= MaxActive
    <2>1. Cardinality(active \cup {t}) = IF t \in active THEN Cardinality(active) ELSE Cardinality(active) + 1
      BY EngineParts, FS_AddElement
    <2>2. Cardinality(active) < MaxActive
      BY DEF Promote
    <2>3. active' = active \cup {t}
      BY <1>1 DEF t
    <2> QED BY <2>1, <2>2, <2>3, EngineParts
  <1>6. EngineOK'
    <2>1. t \in Tasks /\ t \notin held /\ active' = active \cup {t}
      BY <1>0, <1>1, <1>2, LineParts DEF t
    <2>2. UNCHANGED <<row, held, halting, ended, reconcile>>
      BY DEF Promote
    <2> QED BY <1>2, <1>3, <1>5, <2>1, <2>2 DEF EngineOK, Engine
  <1>7. ToSet(queue') \subseteq ToSet(queue)
    BY <1>3
  <1>8. ASSUME NEW u \in ToSet(queue'), NEW v \in ToSet(queue')
        PROVE  /\ IndexIn(queue', u) <= IndexIn(queue, u)
               /\ IndexIn(queue, u) < IndexIn(queue, v) => IndexIn(queue', u) < IndexIn(queue', v)
    BY <1>2, <1>3, <1>4
  <1> QED BY <1>6, <1>7, <1>8

LEMMA EngineAfterFinish ==
    ASSUME EngineOK, Finish
    PROVE  EngineOK' /\ UNCHANGED queue
  <1>1. PICK t \in active : /\ active' = active \ {t} /\ halting' = halting \ {t}
                            /\ ended' = ended \cup {t}
    BY DEF Finish
  <1>2. UNCHANGED <<row, queue, held, reconcile>>
    BY DEF Finish
  <1>3. Cardinality(active') <= MaxActive
    BY <1>1, EngineParts
  <1> QED BY <1>1, <1>2, <1>3 DEF EngineOK, Engine

LEMMA EngineAfterHalt ==
    ASSUME EngineOK, Halt
    PROVE  EngineOK'
  <1>1. PICK t \in halting : /\ active' = active \ {t} /\ halting' = halting \ {t}
                             /\ queue' = <<t>> \o queue /\ held' = held \cup {t}
    BY DEF Halt
  <1>2. UNCHANGED <<row, ended, reconcile>>
    BY DEF Halt
  <1>3. Cardinality(active') <= MaxActive
    BY <1>1, EngineParts
  <1>4. t \in Tasks /\ t \in active /\ t \notin ToSet(queue) /\ queue \in Lines
    BY DEF EngineOK
  <1>5. <<t>> \in Lines /\ ToSet(<<t>>) = {t} /\ ToSet(<<t>>) \cap ToSet(queue) = {}
    BY <1>4, ShortLines
  <1>6. queue' \in Lines /\ ToSet(queue') = ToSet(queue) \cup {t}
    <2>1. <<t>> \o queue \in Lines /\ ToSet(<<t>> \o queue) = ToSet(<<t>>) \cup ToSet(queue)
      BY <1>4, <1>5, Joined
    <2> QED BY <1>1, <1>5, <2>1
  <1> QED BY <1>1, <1>2, <1>3, <1>4, <1>6 DEF EngineOK, Engine

LEMMA EngineAfterAdd ==
    ASSUME RowsOK, EngineOK, NEW t \in Tasks, Add(t)
    PROVE  EngineOK'
  <1>1. /\ row[t] = "novo" /\ row' = [row EXCEPT ![t] = "aguardando"]
        /\ queue' = Append(queue, t) \/ queue' = queue
        /\ UNCHANGED <<held, active, halting, ended, reconcile>>
    BY DEF Add, Submitted
  <1>2. t \notin Engine \cup ended
    BY <1>1 DEF EngineOK, Live
  <1>3. queue' \in Lines /\ ToSet(queue) \subseteq ToSet(queue') /\ ToSet(queue') \subseteq ToSet(queue) \cup {t}
    <2>1. t \in Tasks \ ToSet(queue) /\ queue \in Lines
      BY <1>2 DEF EngineOK, Engine
    <2>2. Append(queue, t) \in Lines /\ ToSet(Append(queue, t)) = ToSet(queue) \cup {t}
      BY <2>1, Appended
    <2> QED BY <1>1, <2>1, <2>2
  <1>4. \A u \in Tasks : row'[u] = IF u = t THEN "aguardando" ELSE row[u]
    BY <1>1 DEF RowsOK
  <1>5. Engine' \subseteq Engine \cup {t} /\ Engine \subseteq Tasks
    BY <1>1, <1>3, LineParts DEF Engine, EngineOK
  <1>6. \A u \in Engine' \cup ended' : row'[u] \in Live
    BY <1>1, <1>4, <1>5 DEF EngineOK, Live
  <1>7. ended' \subseteq Tasks \ Engine'
    BY <1>1, <1>2, <1>5 DEF EngineOK
  <1> QED BY <1>1, <1>2, <1>3, <1>6, <1>7 DEF EngineOK, Engine

LEMMA EngineAfterPause ==
    ASSUME RowsOK, EngineOK, NEW t \in Tasks, Pause(t)
    PROVE  EngineOK'
  <1>0. queue \o <<>> = queue
    BY LineParts, ConcatEmptySeq DEF EngineOK
  <1>1. /\ row' = [row EXCEPT ![t] = "pausado"]
        /\ queue' = queue
        /\ held' = held \cup ({t} \cap ToSet(queue))
        /\ halting' = halting \cup ({t} \cap active)
        /\ UNCHANGED <<active, ended, reconcile>>
    BY <1>0 DEF Pause, Rearranged
  <1>2. \A u \in Tasks : row'[u] = row[u] \/ row'[u] = "pausado"
    BY <1>1 DEF RowsOK
  <1>3. Engine' = Engine /\ Engine \cup ended \subseteq Tasks
    BY <1>1, LineParts DEF Engine, EngineOK
  <1>4. \A u \in Engine' \cup ended' : row'[u] \in Live
    BY <1>1, <1>2, <1>3 DEF EngineOK, Live
  <1> QED BY <1>1, <1>3, <1>4 DEF EngineOK

LEMMA EngineAfterResume ==
    ASSUME RowsOK, EngineOK, NEW t \in Tasks, Resume(t)
    PROVE  EngineOK'
  <1>1. /\ row' = [row EXCEPT ![t] = "aguardando"]
        /\ IF t \in Engine THEN queue' = queue ELSE queue' = Append(queue, t)
        /\ held' = held \ {t} /\ ended' = ended \ {t}
        /\ UNCHANGED <<active, halting, reconcile>>
    BY DEF Resume
  <1>2. \A u \in Tasks : row'[u] = row[u] \/ row'[u] = "aguardando"
    BY <1>1 DEF RowsOK
  <1>3. /\ queue' \in Lines /\ ToSet(queue) \subseteq ToSet(queue')
        /\ ToSet(queue') \subseteq ToSet(queue) \cup {t}
        /\ t \in active => queue' = queue
    <2>1. CASE t \in Engine
      BY <1>1, <2>1 DEF EngineOK
    <2>2. CASE t \notin Engine
      <3>1. t \in Tasks \ ToSet(queue) /\ t \notin active /\ queue \in Lines
        BY <2>2 DEF EngineOK, Engine
      <3>2. Append(queue, t) \in Lines /\ ToSet(Append(queue, t)) = ToSet(queue) \cup {t}
        BY <3>1, Appended
      <3> QED BY <1>1, <2>2, <3>1, <3>2
    <2> QED BY <2>1, <2>2
  <1>4. Engine' \subseteq Engine \cup {t} /\ Engine \cup ended \subseteq Tasks
    BY <1>1, <1>3, LineParts DEF Engine, EngineOK
  <1>5. row'[t] = "aguardando"
    BY <1>1 DEF RowsOK
  <1>6. \A u \in Engine' \cup ended' : row'[u] \in Live
    BY <1>1, <1>2, <1>4, <1>5 DEF EngineOK, Live
  <1>7. ended' \subseteq Tasks \ Engine'
    BY <1>1, <1>4 DEF EngineOK
  <1>8. active' \subseteq Tasks \ ToSet(queue')
    BY <1>1, <1>3 DEF EngineOK
  <1> QED BY <1>1, <1>3, <1>6, <1>7, <1>8 DEF EngineOK

LEMMA EngineAfterRetry ==
    ASSUME RowsOK, EngineOK, NEW t \in Tasks, Retry(t)
    PROVE  EngineOK'
  <1>1. /\ row[t] = "fim" /\ row' = [row EXCEPT ![t] = "aguardando"]
        /\ queue' = Append(queue, t) /\ ended' = ended \ {t}
        /\ UNCHANGED <<held, active, halting, reconcile>>
    BY DEF Retry
  <1>2. t \notin Engine
    BY <1>1 DEF EngineOK, Live
  <1>3. queue' \in Lines /\ ToSet(queue') = ToSet(queue) \cup {t}
    BY <1>1, <1>2, Appended DEF EngineOK, Engine
  <1>4. \A u \in Tasks : row'[u] = row[u] \/ row'[u] = "aguardando"
    BY <1>1 DEF RowsOK
  <1>5. Engine' = Engine \cup {t} /\ Engine \cup ended \subseteq Tasks /\ row'[t] = "aguardando"
    BY <1>1, <1>3, LineParts DEF Engine, EngineOK, RowsOK
  <1>6. \A u \in Engine' \cup ended' : row'[u] \in Live
    BY <1>1, <1>4, <1>5 DEF EngineOK, Live
  <1>7. ended' \subseteq Tasks \ Engine'
    BY <1>1, <1>5 DEF EngineOK
  <1> QED BY <1>1, <1>2, <1>3, <1>6, <1>7 DEF EngineOK, Engine

LEMMA EngineAfterCancel ==
    ASSUME RowsOK, EngineOK, NEW t \in Tasks, Cancel(t)
    PROVE  EngineOK'
  <1>1. /\ row' = [row EXCEPT ![t] = "fim"]
        /\ queue' = RemoveFirst(queue, t)
        /\ held' = held \ {t} /\ active' = active \ {t}
        /\ halting' = halting \ {t} /\ ended' = ended \ {t}
        /\ UNCHANGED reconcile
    BY DEF Cancel
  <1>2. queue' \in Lines /\ ToSet(queue') = ToSet(queue) \ {t}
    <2>1. CASE t \in ToSet(queue)
      BY <1>1, <2>1, PlacesAfterTaking DEF EngineOK
    <2>2. CASE t \notin ToSet(queue)
      BY <1>1, <2>2, RemovedIs DEF EngineOK
    <2> QED BY <2>1, <2>2
  <1>3. \A u \in Tasks : u # t => row'[u] = row[u]
    BY <1>1 DEF RowsOK
  <1>4. Engine' = Engine \ {t} /\ Engine \cup ended \subseteq Tasks
    BY <1>1, <1>2, LineParts DEF Engine, EngineOK
  <1>5. \A u \in Engine' \cup ended' : row'[u] \in Live
    BY <1>1, <1>3, <1>4 DEF EngineOK
  <1>6. Cardinality(active') <= MaxActive
    BY <1>1, EngineParts
  <1> QED BY <1>1, <1>2, <1>4, <1>5, <1>6 DEF EngineOK

LEMMA EngineAfterRemoval ==
    ASSUME RowsOK, EngineOK, NEW t \in Tasks, RemoveFromHistory(t)
    PROVE  EngineOK'
  <1>1. row[t] = "fim" /\ row' = [row EXCEPT ![t] = "apagado"] /\ UNCHANGED <<engineVars, reconcile>>
    BY DEF RemoveFromHistory
  <1>2. t \notin Engine \cup ended
    BY <1>1 DEF EngineOK, Live
  <1>3. \A u \in Tasks : u # t => row'[u] = row[u]
    BY <1>1 DEF RowsOK
  <1>4. Engine \cup ended \subseteq Tasks
    BY LineParts DEF EngineOK, Engine
  <1>5. Engine' = Engine /\ ended' = ended
    BY <1>1 DEF Engine, engineVars
  <1>6. \A u \in Engine' \cup ended' : row'[u] \in Live
    BY <1>2, <1>3, <1>4, <1>5 DEF EngineOK
  <1> QED BY <1>1, <1>5, <1>6 DEF EngineOK, engineVars

\* One row after the tick.
LEMMA RowAfterTick ==
    ASSUME RowsOK, EngineOK, NEW t \in Tasks, NEW run, NEW missing, NEW sent \in SUBSET missing,
           missing \cap (Engine \cup ended) = {}, missing \subseteq {u \in Tasks : row[u] \in Live}
    PROVE  LET new == Ticked(t, run, sent, missing)
           IN  /\ row[t] \notin Live => new = row[t]
               /\ row[t] \in Live => new \in Live \cup {"fim"}
               /\ t \in Engine \cup sent => new \in Live
  <1> DEFINE new == Ticked(t, run, sent, missing)
  <1>1. row[t] \notin Live => new = row[t] /\ t \notin sent
    BY DEF Ticked
  <1>2. row[t] \in Live => new \in Live \cup {"fim"}
    BY DEF Ticked, Live
  <1>3. t \in sent => new \in Live
    BY DEF Ticked, Live
  <1>4. t \in Engine => new \in Live
    <2>1. t \in Engine => row[t] \in Live /\ t \notin missing /\ t \notin ended
      BY DEF EngineOK
    <2> QED BY <2>1 DEF Ticked, Live
  <1> QED BY <1>1, <1>2, <1>3, <1>4

LEMMA TickParts ==
    ASSUME RowsOK, EngineOK, Tick
    PROVE  RowsOK' /\ EngineOK'
  <1> DEFINE missing == {t \in Tasks : row[t] \in Live} \ (Engine \cup ended)
  <1>1. PICK run \in Wanted, sent \in SUBSET missing :
          /\ row' = [t \in Tasks |-> Ticked(t, run, sent, missing)]
          /\ Rearranged(IF reconcile THEN {t \in Engine : row[t] \in Live \ {"pausado"}} \ run ELSE {},
                        IF reconcile THEN run \cap held ELSE {},
                        Listed(sent), sent \ run)
    <2>1. \A sent : sent \in (IF Lost THEN SUBSET missing ELSE {missing}) => sent \in SUBSET missing
      OBVIOUS
    <2> HIDE DEF missing
    <2> QED BY <2>1 DEF Tick, missing
  <1>2. /\ ended' = {t \in ended : row[t] \notin Live}
        /\ reconcile' = FALSE /\ UNCHANGED <<pos, born>>
    BY DEF Tick
  <1>3. missing \cap (Engine \cup ended) = {} /\ missing \subseteq {u \in Tasks : row[u] \in Live}
    OBVIOUS
  <1> HIDE DEF missing
  <1>4. \A t \in Tasks :
          /\ row'[t] \in RowState
          /\ row[t] \notin Live => row'[t] = row[t]
          /\ row[t] \in Live => row'[t] \in Live \cup {"fim"}
          /\ t \in Engine \cup sent => row'[t] \in Live
    <2> SUFFICES ASSUME NEW t \in Tasks
                 PROVE  /\ row'[t] \in RowState
                        /\ row[t] \notin Live => row'[t] = row[t]
                        /\ row[t] \in Live => row'[t] \in Live \cup {"fim"}
                        /\ t \in Engine \cup sent => row'[t] \in Live
      OBVIOUS
    <2>1. row'[t] = Ticked(t, run, sent, missing)
      BY <1>1
    <2>2. /\ row[t] \notin Live => row'[t] = row[t]
          /\ row[t] \in Live => row'[t] \in Live \cup {"fim"}
          /\ t \in Engine \cup sent => row'[t] \in Live
      BY <1>3, <2>1, RowAfterTick
    <2>3. row[t] \in RowState
      BY DEF RowsOK
    <2> QED BY <2>2, <2>3 DEF RowState
  <1>5. RowsOK'
    <2>1. row' \in [Tasks -> RowState]
      BY <1>1, <1>4
    <2>2. \A t \in Tasks : /\ row'[t] = "novo" <=> row[t] = "novo"
                           /\ row[t] = "apagado" => row'[t] = "apagado"
      BY <1>4 DEF Live
    <2> QED BY <1>2, <2>1, <2>2, RowsKept
  <1>6. sent \in SUBSET Rows /\ sent \subseteq Tasks /\ sent \cap Engine = {}
    BY <1>3 DEF Rows, Live
  <1>7. Listed(sent) \in Lines /\ ToSet(Listed(sent)) = sent
    BY <1>6, ListedParts
  <1>8. queue' \in Lines /\ ToSet(queue') = ToSet(queue) \cup sent
    <2>1. queue \in Lines /\ ToSet(queue) \cap ToSet(Listed(sent)) = {}
      BY <1>6, <1>7 DEF EngineOK, Engine
    <2>2. queue \o Listed(sent) \in Lines /\ ToSet(queue \o Listed(sent)) = ToSet(queue) \cup ToSet(Listed(sent))
      BY <1>7, <2>1, Joined
    <2>3. queue' = queue \o Listed(sent)
      BY <1>1 DEF Rearranged
    <2> QED BY <1>7, <2>2, <2>3
  <1>9. /\ active' = active /\ halting \subseteq halting' /\ halting' \subseteq active'
        /\ held' \subseteq ToSet(queue')
    BY <1>1, <1>8 DEF Rearranged, EngineOK
  <1>10. Engine' = Engine \cup sent
    BY <1>8, <1>9 DEF Engine
  <1>11. ended' = {}
    BY <1>2 DEF EngineOK
  <1>12. \A t \in Engine' \cup ended' : row'[t] \in Live
    <2>1. Engine \subseteq Tasks
      BY LineParts DEF EngineOK, Engine
    <2> QED BY <1>4, <1>6, <1>10, <1>11, <2>1
  <1>13. active' \subseteq Tasks \ ToSet(queue') /\ Cardinality(active') <= MaxActive
    BY <1>6, <1>8, <1>9 DEF EngineOK, Engine
  <1>14. EngineOK'
    BY <1>2, <1>8, <1>9, <1>11, <1>12, <1>13 DEF EngineOK
  <1> QED BY <1>5, <1>14

LEMMA SetToSeqsLines ==
    ASSUME NEW S \in SUBSET Tasks, NEW s \in SetToSeqs(S)
    PROVE  s \in Lines /\ ToSet(s) = S
  <1> DEFINE k == Cardinality(S)
  <1>1. IsFiniteSet(S) /\ k \in Nat
    BY QueueAssumption, FS_Subset, FS_CardinalityType
  <1>2. s \in [1..k -> S] /\ \A i, j \in 1..k : s[i] = s[j] => i = j
    BY DEF SetToSeqs
  <1> HIDE DEF k
  <1>3. ToSet(s) = S
    <2>1. s \in Injection(1..k, S)
      BY <1>2 DEF Injection, IsInjective
    <2>2. IsFiniteSet(1..k) /\ Cardinality(1..k) = k
      BY <1>1, FS_Interval
    <2>3. s \in Surjection(1..k, S)
      BY <1>1, <2>1, <2>2, FS_Injection DEF k
    <2>4. \A t \in S : \E i \in 1..k : s[i] = t
      BY <2>3 DEF Surjection
    <2>5. \A t : t \in ToSet(s) <=> t \in S
      BY <1>2, <2>4 DEF ToSet
    <2> QED BY <2>5
  <1>4. s \in Lines
    <2>1. s \in Seq(S) /\ Len(s) = k
      BY <1>1, <1>2
    <2>2. s \in Seq(Tasks)
      BY <2>1, SeqMonotonic
    <2> QED BY <1>2, <2>1, <2>2, InLines
  <1> QED BY <1>3, <1>4

LEMMA EngineAfterRestart ==
    ASSUME EngineOK, EngineRestarts
    PROVE  EngineOK'
  <1>0. PICK kept \in SUBSET Engine : \E s \in SetToSeqs(active \cap kept) :
            queue' = s \o Picked(queue, kept) /\ held' = kept
    BY DEF EngineRestarts
  <1>1. PICK s \in SetToSeqs(active \cap kept) :
            queue' = s \o Picked(queue, kept) /\ held' = kept
    BY <1>0
  <1>2. active' = {} /\ halting' = {} /\ ended' = {} /\ reconcile' = TRUE /\ UNCHANGED row
    BY DEF EngineRestarts
  <1> DEFINE S == active \cap kept
  <1>5. s \in Lines /\ ToSet(s) = S
    <2>1. S \in SUBSET Tasks
      BY DEF EngineOK
    <2> QED BY <2>1, SetToSeqsLines
  <1> DEFINE u == Picked(queue, kept)
  <1>7. u \in Lines /\ ToSet(u) = ToSet(queue) \cap kept
    BY PickedParts DEF EngineOK
  <1> HIDE DEF u
  <1>8. ToSet(s) \cap ToSet(u) = {}
    BY <1>5, <1>7 DEF EngineOK
  <1>9. s \o u \in Lines /\ ToSet(s \o u) = ToSet(s) \cup ToSet(u)
    BY <1>5, <1>7, <1>8, Joined
  <1>10. queue' = s \o u
    BY <1>1 DEF u
  <1>11. queue' \in Lines /\ ToSet(queue') = kept
    BY <1>5, <1>7, <1>9, <1>10 DEF Engine
  <1>12. Engine' = kept
    BY <1>2, <1>11 DEF Engine
  <1>13. Cardinality(active') <= MaxActive
    BY <1>2, EngineParts, FS_EmptySet
  <1> QED BY <1>1, <1>2, <1>11, <1>12, <1>13 DEF EngineOK

LEMMA EngineUntouched ==
    ASSUME EngineOK, UNCHANGED <<row, engineVars, reconcile>>
    PROVE  EngineOK'
  BY DEF EngineOK, Engine, engineVars

LEMMA MirrorParts ==
    ASSUME MirrorOK, EngineOK, Mirror
    PROVE  EngineOK' /\ MirrorOK'
  <1>1. order \in Lines /\ queue \in Lines /\ turn \in 1..Len(order)
    BY LineParts DEF MirrorOK, EngineOK, Mirror
  <1> DEFINE t == order[turn]
  <1>2. t \in Tasks /\ t \in ToSet(order)
    BY <1>1, LineParts DEF ToSet
  <1>3. UNCHANGED <<row, held, active, halting, ended, reconcile, asked, order>> /\ turn' = turn + 1
    BY DEF Mirror
  <1>4. turn' \in 0..(N + 1) /\ turn' # 0
    BY <1>1, <1>3, LineLength, LineParts
  <1>5. CASE queue' = queue /\ placed' = placed
    <2>1. EngineOK'
      BY <1>3, <1>5 DEF EngineOK, Engine
    <2>2. \A i \in DOMAIN order' :
            order'[i] \in placed' \cap ToSet(queue') => i < turn' /\ IndexIn(queue', order'[i]) < i
      <3> SUFFICES ASSUME NEW i \in DOMAIN order, order[i] \in placed \cap ToSet(queue)
                   PROVE  i < turn + 1 /\ IndexIn(queue, order[i]) < i
        BY <1>3, <1>5
      <3>1. i < turn /\ IndexIn(queue, order[i]) < i
        BY DEF MirrorOK
      <3>2. i \in Int /\ turn \in Int
        BY <1>1, LineParts
      <3> QED BY <3>1, <3>2
    <2>3. MoveIsMirrored'
      BY <1>3, <1>5 DEF MoveIsMirrored, Precedes, MirrorOK
    <2> QED BY <1>3, <1>4, <1>5, <2>1, <2>2, <2>3 DEF MirrorOK
  <1>6. CASE t \in ToSet(queue) /\ queue' = Repositioned(t, turn - 1) /\ placed' = placed \cup {t}
    <2>1. turn - 1 \in Nat
      BY <1>1, LineParts
    <2>2. /\ queue' \in Lines /\ ToSet(queue') = ToSet(queue)
          /\ IndexIn(queue', t) <= turn - 1
          /\ \A u \in ToSet(queue) \ {t} : IndexIn(queue, u) < turn - 1
               => IndexIn(queue', u) <= IndexIn(queue, u) /\ IndexIn(queue', u) < IndexIn(queue', t)
          /\ \A u, v \in ToSet(queue) \ {t} :
               IndexIn(queue, u) < IndexIn(queue, v) => IndexIn(queue', u) < IndexIn(queue', v)
      BY <1>1, <1>6, <2>1, RepositionedParts
    <2> HIDE DEF t
    <2>3. EngineOK'
      BY <1>3, <2>2 DEF EngineOK, Engine
    <2>4. \A u \in ToSet(queue) : IndexIn(queue, u) \in Int /\ IndexIn(queue', u) \in Int
      BY <1>1, <2>2, IndexRange, LineParts
    <2>5. ASSUME NEW i \in 1..Len(order), order[i] \in placed' \cap ToSet(queue')
          PROVE  \/ i = turn /\ order[i] = t
                 \/ /\ i < turn /\ order[i] # t /\ order[i] \in placed \cap ToSet(queue)
                    /\ IndexIn(queue, order[i]) < i
      <3>1. CASE i = turn
        BY <3>1 DEF t
      <3>2. CASE i # turn
        <4>1. order[i] # t
          BY <1>1, <3>2, LineParts DEF t
        <4>2. order[i] \in placed \cap ToSet(queue)
          BY <1>6, <2>2, <2>5, <4>1
        <4>3. i < turn /\ IndexIn(queue, order[i]) < i
          BY <1>1, <4>2, LineParts DEF MirrorOK
        <4> QED BY <4>1, <4>2, <4>3
      <3> QED BY <3>1, <3>2
    <2>6. ASSUME NEW i \in 1..Len(order), order[i] \in placed' \cap ToSet(queue')
          PROVE  i < turn' /\ IndexIn(queue', order[i]) < i
      <3>1. CASE i = turn /\ order[i] = t
        <4>1. IndexIn(queue', t) \in Int
          BY <1>6, <2>4
        <4> QED BY <1>1, <1>3, <2>2, <3>1, <4>1, LineParts
      <3>2. CASE /\ i < turn /\ order[i] # t /\ order[i] \in placed \cap ToSet(queue)
                 /\ IndexIn(queue, order[i]) < i
        <4>1. IndexIn(queue, order[i]) \in Int /\ IndexIn(queue', order[i]) \in Int
          BY <2>4, <3>2
        <4>2. IndexIn(queue, order[i]) < turn - 1
          BY <1>1, <3>2, <4>1, LineParts
        <4>3. IndexIn(queue', order[i]) <= IndexIn(queue, order[i])
          BY <2>2, <3>2, <4>2
        <4> QED BY <1>1, <1>3, <3>2, <4>1, <4>3, LineParts
      <3> QED BY <2>5, <2>6, <3>1, <3>2
    <2>7. ASSUME NEW i \in 1..Len(order), NEW j \in 1..Len(order), i < j,
                 order[i] \in placed' \cap ToSet(queue'), order[j] \in placed' \cap ToSet(queue')
          PROVE  IndexIn(queue', order[i]) < IndexIn(queue', order[j])
      <3>0. turn \in Int /\ i \in Int /\ j \in Int
        BY <1>1, LineParts
      <3>1. j <= turn
        BY <2>5, <2>7, <3>0
      <3>2. /\ i < turn /\ order[i] # t /\ order[i] \in placed \cap ToSet(queue)
            /\ IndexIn(queue, order[i]) < i
        <4>1. ~(i = turn)
          BY <2>7, <3>0, <3>1
        <4> QED BY <2>5, <2>7, <4>1
      <3>3. CASE j = turn
        <4>1. order[j] = t
          BY <3>3 DEF t
        <4>2. IndexIn(queue, order[i]) < turn - 1
          BY <2>4, <3>0, <3>2
        <4> QED BY <2>2, <3>2, <4>1, <4>2
      <3>4. CASE j # turn
        <4>1. order[j] # t /\ order[j] \in placed \cap ToSet(queue)
          BY <2>5, <2>7, <3>4
        <4>2. IndexIn(queue, order[i]) < IndexIn(queue, order[j])
          BY <1>1, <2>7, <3>2, <4>1, LineParts DEF MirrorOK, MoveIsMirrored, Precedes
        <4> QED BY <2>2, <3>2, <4>1, <4>2
      <3> QED BY <3>3, <3>4
    <2>8. DOMAIN order = 1..Len(order) /\ placed' \subseteq ToSet(order)
      BY <1>1, <1>2, <1>6, LineParts DEF MirrorOK
    <2>9. MoveIsMirrored'
      BY <1>3, <2>7, <2>8 DEF MoveIsMirrored, Precedes
    <2> QED BY <1>3, <1>4, <2>3, <2>6, <2>8, <2>9 DEF MirrorOK
  <1>7. \/ queue' = queue /\ placed' = placed
        \/ t \in ToSet(queue) /\ queue' = Repositioned(t, turn - 1) /\ placed' = placed \cup {t}
    BY DEF Mirror
  <1> QED BY <1>5, <1>6, <1>7

-----------------------------------------------------------------------------
(* The mirror between its calls.                                           *)

LEMMA MirrorIdle ==
    ASSUME MirrorOK, Free, UNCHANGED mirrorVars
    PROVE  MirrorOK'
  <1>1. order' = <<>> /\ placed' = {} /\ UNCHANGED <<asked, order, turn, placed>>
    BY DEF MirrorOK, Free, mirrorVars
  <1>2. DOMAIN order' = {}
    BY <1>1
  <1> QED BY <1>1, <1>2 DEF MirrorOK, MoveIsMirrored

LEMMA MirrorAfterPromote ==
    ASSUME EngineOK, MirrorOK, Promote
    PROVE  MirrorOK'
  <1>1. UNCHANGED <<asked, order, turn, placed>>
    BY DEF Promote, mirrorVars
  <1>2. /\ EngineOK' /\ ToSet(queue') \subseteq ToSet(queue)
        /\ \A u, v \in ToSet(queue') :
             /\ IndexIn(queue', u) <= IndexIn(queue, u)
             /\ IndexIn(queue, u) < IndexIn(queue, v) => IndexIn(queue', u) < IndexIn(queue', v)
    BY EngineAfterPromote
  <1>3. queue \in Lines /\ queue' \in Lines /\ order \in Lines
    BY <1>2 DEF EngineOK, MirrorOK
  <1>4. \A u \in ToSet(queue') : IndexIn(queue, u) \in Int /\ IndexIn(queue', u) \in Int
    BY <1>2, <1>3, IndexRange, LineParts
  <1>5. ASSUME NEW i \in DOMAIN order, order[i] \in placed \cap ToSet(queue')
        PROVE  i < turn /\ IndexIn(queue', order[i]) < i
    <2>1. order[i] \in placed \cap ToSet(queue) /\ i \in Int
      BY <1>2, <1>3, <1>5, LineParts
    <2>2. i < turn /\ IndexIn(queue, order[i]) < i
      BY <2>1 DEF MirrorOK
    <2>3. IndexIn(queue', order[i]) <= IndexIn(queue, order[i])
      BY <1>2, <1>5
    <2> QED BY <1>4, <1>5, <2>1, <2>2, <2>3
  <1>6. ASSUME NEW i \in DOMAIN order, NEW j \in DOMAIN order, i < j,
               {order[i], order[j]} \subseteq placed \cap ToSet(queue')
        PROVE  IndexIn(queue', order[i]) < IndexIn(queue', order[j])
    <2>1. IndexIn(queue, order[i]) < IndexIn(queue, order[j])
      BY <1>2, <1>6 DEF MirrorOK, MoveIsMirrored, Precedes
    <2> QED BY <1>2, <1>6, <2>1
  <1>7. MoveIsMirrored'
    BY <1>1, <1>6 DEF MoveIsMirrored, Precedes
  <1> QED BY <1>1, <1>5, <1>7 DEF MirrorOK

LEMMA MirrorUntouched ==
    ASSUME MirrorOK, UNCHANGED <<mirrorVars, queue>>
    PROVE  MirrorOK'
  BY DEF MirrorOK, MoveIsMirrored, Precedes, mirrorVars

LEMMA MirrorAfterHalt ==
    ASSUME MirrorOK, Halt
    PROVE  MirrorOK'
  BY DEF MirrorOK, MoveIsMirrored, Halt

LEMMA MirrorAfterEnd ==
    ASSUME EndMove
    PROVE  MirrorOK'
  <1>1. asked' = NoMove /\ order' = <<>> /\ turn' = 0 /\ placed' = {}
    BY DEF EndMove
  <1>2. DOMAIN order' = {} /\ order' \in Lines /\ NoMove \in [id : Tasks \cup {Nobody}, direction : Direction]
    BY <1>1, ShortLines DEF NoMove, Direction
  <1> QED BY <1>1, <1>2, NIsNat DEF MirrorOK, MoveIsMirrored

LEMMA MirrorAfterStart ==
    ASSUME RowsOK, EngineOK, NEW t \in Tasks, NEW d \in Direction, StartMove(t, d)
    PROVE  MirrorOK' /\ turn = 0 /\ turn' = 1 /\ asked' = [id |-> t, direction |-> d]
  <1> DEFINE list == Moved(Listed(Waiting), t, d)
             known == ToSet(queue) \ held
  <1>1. /\ order' \in {Picked(list, known)} \cup (IF Lost THEN {<<>>} ELSE {})
        /\ asked' = [id |-> t, direction |-> d]
        /\ turn = 0 /\ turn' = 1 /\ placed' = {}
    BY DEF StartMove, Free
  <1>2. list \in Lines
    <2>1. Listed(Waiting) \in Lines /\ t \in ToSet(Listed(Waiting))
      BY WaitingListed, MoveRenumbers
    <2> HIDE DEF list
    <2>2. list = Moved(Listed(Waiting), t, d)
      BY DEF list
    <2> QED BY <2>1, <2>2, MovedParts
  <1> HIDE DEF list, known
  <1>3. order' \in Lines
    <2>1. Picked(list, known) \in Lines
      BY <1>2, PickedParts
    <2> QED BY <1>1, <2>1, ShortLines
  <1> QED BY <1>1, <1>3, NIsNat DEF MirrorOK, MoveIsMirrored

-----------------------------------------------------------------------------
(* The page.                                                               *)

\* The state function the lemma on the list is carried over a step with.
WaitingIsListed ==
    /\ Waiting \subseteq Tasks
    /\ Listed(Waiting) \in Lines
    /\ ToSet(Listed(Waiting)) = Waiting

LEMMA NextWaiting == RowsOK' => WaitingIsListed'
  <1>1. RowsOK => WaitingIsListed
    BY WaitingListed DEF WaitingIsListed
  <1> QED BY <1>1, PTL

LEMMA SameList ==
    ASSUME UNCHANGED <<row, pos, born>>
    PROVE  Waiting' = Waiting /\ Listed(Waiting)' = Listed(Waiting)
  BY DEF Waiting, Listed

LEMMA PageUntouched ==
    ASSUME PageOK, UNCHANGED <<row, pos, born, drag>>
    PROVE  PageOK'
  BY SameList DEF PageOK, Ahead

LEMMA PageWatched ==
    ASSUME RowsOK, RowsOK', PageOK, Watched
    PROVE  PageOK'
  <1> DEFINE same == Listed(Waiting)' = Listed(Waiting)
  <1>1. drag \in DragType
    BY DEF PageOK
  <1>2. /\ drag' \in DragType
        /\ drag'.step = drag.step /\ drag'.id = drag.id /\ drag'.target = drag.target
        /\ drag'.direction = drag.direction /\ drag'.left = drag.left
        /\ drag'.calm <=> drag.calm /\ same
    <2>1. (drag.calm /\ same) \in BOOLEAN
      OBVIOUS
    <2>2. drag' = [drag EXCEPT !.calm = drag.calm /\ same]
      BY DEF Watched
    <2> HIDE DEF same
    <2> QED BY <1>1, <2>1, <2>2 DEF DragType
  <1>3. ASSUME same PROVE Waiting' = Waiting
    BY <1>3, WaitingListed, NextWaiting DEF WaitingIsListed
  <1>4. ASSUME drag.step = "moving", drag'.calm
        PROVE  {drag'.id, drag'.target} \subseteq Waiting' /\ Ahead(Listed(Waiting))'
    <2>1. drag.calm /\ same /\ Waiting' = Waiting
      BY <1>2, <1>3, <1>4
    <2>2. {drag.id, drag.target} \subseteq Waiting /\ Ahead(Listed(Waiting))
      BY <1>4, <2>1 DEF PageOK
    <2> QED BY <1>2, <2>1, <2>2 DEF Ahead
  <1> QED BY <1>2, <1>4 DEF PageOK

LEMMA NoDragTyped == NoDrag \in DragType /\ NoDrag.step = "none"
  BY NIsNat, ShortLines DEF NoDrag, DragType, Direction

LEMMA PageAfterStart ==
    ASSUME RowsOK, NEW t \in Tasks, DragStart(t)
    PROVE  PageOK'
  <1>1. drag' = [NoDrag EXCEPT !.step = "held", !.id = t, !.drawn = Waiting, !.seen = Listed(Waiting)]
    BY DEF DragStart
  <1>2. Waiting \subseteq Tasks /\ Listed(Waiting) \in Lines
    BY WaitingListed
  <1>3. drag' \in DragType /\ drag'.step = "held" /\ drag'.id = t
    BY <1>1, <1>2, NoDragTyped DEF DragType
  <1> QED BY <1>3 DEF PageOK

LEMMA PageAfterRefresh ==
    ASSUME RowsOK, PageOK, PageRefresh
    PROVE  PageOK'
  <1>1. drag.step = "held" /\ drag' = [drag EXCEPT !.seen = Listed(Waiting)]
    BY DEF PageRefresh
  <1>2. Listed(Waiting) \in Lines
    BY WaitingListed
  <1>3. drag' \in DragType /\ drag'.step = "held" /\ drag'.id = drag.id
    BY <1>1, <1>2 DEF PageOK, DragType
  <1> QED BY <1>1, <1>3 DEF PageOK

LEMMA PageAfterDrop ==
    ASSUME RowsOK, PageOK, NEW target \in Tasks, Drop(target)
    PROVE  PageOK'
  <1> DEFINE from == IndexIn(drag.seen, drag.id)
             to == IndexIn(drag.seen, target)
             steps == Steps(from, to)
  <1>1. /\ drag.step = "held" /\ target # drag.id
        /\ drag' = [drag EXCEPT !.step = "moving", !.target = target, !.drawn = {}, !.seen = <<>>,
                                !.direction = IF steps < 0 THEN "up" ELSE "down",
                                !.left = IF steps < 0 THEN -steps ELSE steps,
                                !.calm = /\ drag.seen = Listed(Waiting)
                                         /\ {drag.id, target} \subseteq ToSet(drag.seen)]
        /\ UNCHANGED <<row, pos, born>>
    BY DEF Drop, queueVars
  <1>2. drag \in DragType /\ drag.seen \in Lines /\ drag.id \in Tasks
    BY <1>1 DEF PageOK, DragType
  <1>3. from \in (-1)..(N - 1) /\ to \in (-1)..(N - 1) /\ N \in Nat
    BY <1>2, IndexRange, LineLength, LineParts
  <1> DEFINE calm == drag.seen = Listed(Waiting) /\ {drag.id, target} \subseteq ToSet(drag.seen)
             left == IF steps < 0 THEN -steps ELSE steps
  <1>4. steps = to - from - (IF to > from THEN 1 ELSE 0)
    BY DEF Steps
  <1> HIDE DEF from, to, steps
  <1>5. left \in 0..N /\ steps \in Int
    BY <1>3, <1>4
  <1>6. calm \in BOOLEAN
    OBVIOUS
  <1> HIDE DEF left, calm
  <1>7. drag' = [drag EXCEPT !.step = "moving", !.target = target, !.drawn = {}, !.seen = <<>>,
                             !.direction = IF steps < 0 THEN "up" ELSE "down",
                             !.left = left, !.calm = calm]
    BY <1>1 DEF left, calm
  <1>8. /\ drag' \in DragType
        /\ drag'.step = "moving" /\ drag'.id = drag.id /\ drag'.target = target
        /\ drag'.direction = (IF steps < 0 THEN "up" ELSE "down")
        /\ drag'.left = left /\ drag'.calm = calm
    BY <1>2, <1>5, <1>6, <1>7, ShortLines DEF DragType, Direction
  <1>9. ASSUME drag'.calm
        PROVE  {drag'.id, drag'.target} \subseteq Waiting' /\ Ahead(Listed(Waiting))'
    <2>1. drag.seen = Listed(Waiting) /\ {drag.id, target} \subseteq ToSet(drag.seen)
      BY <1>8, <1>9 DEF calm
    <2>2. Waiting' = Waiting /\ Listed(Waiting)' = drag.seen /\ {drag.id, target} \subseteq Waiting
      BY <1>1, <2>1, SameList, WaitingListed
    <2>3. from # to
      BY <1>1, <1>2, <2>1, OwnPlace DEF from, to
    <2>4. to = IF steps < 0 /\ left > 0 THEN from - left ELSE from + left + 1
      BY <1>3, <1>4, <2>3 DEF left
    <2>5. IndexIn(Listed(Waiting)', drag'.target) = to /\ IndexIn(Listed(Waiting)', drag'.id) = from
      BY <1>8, <2>2 DEF from, to
    <2>6. drag'.direction = "up" <=> steps < 0
      BY <1>8
    <2> QED BY <1>8, <2>2, <2>4, <2>5, <2>6 DEF Ahead
  <1> QED BY <1>1, <1>2, <1>8, <1>9 DEF PageOK

LEMMA PageAfterMove ==
    ASSUME RowsOK, PageOK, DragMove
    PROVE  PageOK'
  <1>1. /\ drag.step = "moving" /\ drag.left > 0
        /\ StartMove(drag.id, drag.direction)
        /\ drag' = [drag EXCEPT !.left = drag.left - 1]
    BY DEF DragMove
  <1>2. /\ drag \in DragType /\ drag.id \in Tasks /\ drag.target \in Tasks \ {drag.id}
        /\ drag.direction \in {"up", "down"} /\ drag.direction \in Direction /\ drag.left \in 0..N /\ N \in Nat
    BY <1>1, NIsNat DEF PageOK, DragType, Direction
  <1>3. /\ drag' \in DragType
        /\ drag'.step = "moving" /\ drag'.id = drag.id /\ drag'.target = drag.target
        /\ drag'.direction = drag.direction /\ drag'.left = drag.left - 1 /\ drag'.calm = drag.calm
    <2>1. drag.left - 1 \in 0..N
      BY <1>1, <1>2
    <2> QED BY <1>1, <1>2, <2>1 DEF DragType
  <1> DEFINE before == Listed(Waiting)
             after == Moved(before, drag.id, drag.direction)
  <1>4. /\ Waiting' = Waiting /\ drag.id \in Waiting /\ Listed(Waiting)' = after
        /\ before \in Lines /\ ToSet(before) = Waiting
    BY <1>1, <1>2, MoveRenumbers, WaitingListed
  <1>5. ASSUME drag.calm
        PROVE  {drag.id, drag.target} \subseteq Waiting /\ Ahead(Listed(Waiting))'
    <2> DEFINE from == IndexIn(before, drag.id)
               to == IndexIn(before, drag.target)
    <2>1. drag.target \in Waiting /\ Ahead(before)
      BY <1>1, <1>5 DEF PageOK
    <2>2. /\ from \in 0..(Len(before) - 1) /\ to \in 0..(Len(before) - 1) /\ Len(before) \in Nat
          /\ to = IF drag.direction = "up" THEN from - drag.left ELSE from + drag.left + 1
      BY <1>1, <1>4, <2>1, IndexRange, LineParts DEF Ahead
    <2> HIDE DEF before
    <2>3. /\ IndexIn(after, drag.id) = Target(from, Len(before), drag.direction)
          /\ LET y == IF to < from THEN to ELSE to - 1
             IN  IndexIn(after, drag.target) = IF y < IndexIn(after, drag.id) THEN y ELSE y + 1
      BY <1>2, <1>4, <2>1, MovedParts
    <2> HIDE DEF after, from, to
    <2>4. IndexIn(after, drag.target) =
            IF drag.direction = "up" /\ drag.left - 1 > 0 THEN IndexIn(after, drag.id) - (drag.left - 1)
            ELSE IndexIn(after, drag.id) + (drag.left - 1) + 1
      <3>1. CASE drag.direction = "up"
        BY <1>1, <1>2, <2>2, <2>3, <3>1 DEF Target
      <3>2. CASE drag.direction = "down"
        BY <1>1, <1>2, <2>2, <2>3, <3>2 DEF Target
      <3> QED BY <1>2, <3>1, <3>2
    <2> QED BY <1>3, <1>4, <2>1, <2>4 DEF Ahead
  <1> QED BY <1>2, <1>3, <1>4, <1>5 DEF PageOK

LEMMA PageAfterEnd ==
    ASSUME DragEnd
    PROVE  PageOK'
  <1>1. drag' = NoDrag
    BY DEF DragEnd
  <1> QED BY <1>1, NoDragTyped DEF PageOK

-----------------------------------------------------------------------------
(* The invariant holds from the first state on.                            *)

LEMMA InitInductive == Init => Inductive
  <1> SUFFICES ASSUME Init PROVE Inductive
    OBVIOUS
  <1>1. queue \in Lines
    <2>1. PICK S \in SUBSET Tasks : queue \in SetToSeqs(S)
      BY DEF Init
    <2> QED BY <2>1, SetToSeqsLines
  <1>2. /\ row = [t \in Tasks |-> IF t \in ToSet(queue) THEN "aguardando" ELSE "novo"]
        /\ pos = [t \in Tasks |-> IndexIn(queue, t) + 1] /\ born = pos
        /\ held = {} /\ active = {} /\ halting = {} /\ ended = {} /\ reconcile = FALSE
        /\ asked = NoMove /\ order = <<>> /\ turn = 0 /\ placed = {} /\ drag = NoDrag /\ acts = 0
    BY DEF Init
  <1>3. RowsOK
    <2>1. row \in [Tasks -> RowState]
      BY <1>2 DEF RowState, Live
    <2>2. \A t \in Tasks : IndexIn(queue, t) + 1 \in 0..Len(queue)
      BY <1>1, IndexRange, LineParts
    <2>3. Added = ToSet(queue) /\ Rows \subseteq ToSet(queue)
      BY <1>1, <1>2, LineParts DEF Added, Rows
    <2>4. Len(queue) = Cardinality(Added) /\ Len(queue) <= N /\ N \in Nat /\ Len(queue) \in Nat
      BY <1>1, <2>3, LineLength, LineParts
    <2>5. \A t \in Tasks : pos[t] \in 0..N /\ pos[t] <= Cardinality(Added)
      BY <1>2, <2>2, <2>4
    <2>6. pos \in [Tasks -> 0..N]
      BY <1>2, <2>5
    <2>7. ASSUME NEW t \in Rows, NEW u \in Rows, born[t] = born[u] PROVE t = u
      <3>1. IndexIn(queue, t) = IndexIn(queue, u)
        <4>1. IndexIn(queue, t) \in Int /\ IndexIn(queue, u) \in Int /\ t \in Tasks /\ u \in Tasks
          BY <1>1, IndexRange, LineParts DEF Rows
        <4> QED BY <1>2, <2>7, <4>1
      <3> QED BY <1>1, <2>3, <3>1, OwnPlace
    <2> QED BY <1>2, <2>1, <2>5, <2>6, <2>7 DEF RowsOK, Numbered
  <1>4. EngineOK
    <2>1. Cardinality({}) = 0 /\ MaxActive \in Nat \ {0}
      BY FS_EmptySet, QueueAssumption
    <2>2. Engine \cup ended = ToSet(queue) /\ ToSet(queue) \subseteq Tasks
      BY <1>1, <1>2, LineParts DEF Engine
    <2>3. \A t \in Engine \cup ended : row[t] \in Live
      BY <1>2, <2>2 DEF Live
    <2>4. Cardinality(active) = 0
      <3>1. active = {}
        BY <1>2
      <3> QED BY <2>1, <3>1
    <2>5. Cardinality(active) <= MaxActive
      BY <2>1, <2>4
    <2> QED BY <1>1, <1>2, <2>3, <2>5 DEF EngineOK
  <1>5. MirrorOK
    <2>1. DOMAIN order = {} /\ order \in Lines /\ NoMove \in [id : Tasks \cup {Nobody}, direction : Direction]
      BY <1>2, ShortLines DEF NoMove, Direction
    <2> QED BY <1>2, <2>1, NIsNat DEF MirrorOK, MoveIsMirrored
  <1>6. PageOK
    BY <1>2, NoDragTyped DEF PageOK
  <1>7. acts \in 0..MaxActs
    BY <1>2, QueueAssumption
  <1> QED BY <1>3, <1>4, <1>5, <1>6, <1>7 DEF Inductive

\* One step per action.
LEMMA InductiveStep == Inductive /\ [Next]_vars => Inductive'
  <1> DEFINE Parts == RowsOK' /\ EngineOK' /\ MirrorOK' /\ PageOK'
  <1> SUFFICES ASSUME Inductive, [Next]_vars PROVE Inductive'
    OBVIOUS
  <1>0. RowsOK /\ EngineOK /\ MirrorOK /\ PageOK /\ acts \in 0..MaxActs
    BY DEF Inductive
  <1> USE <1>0
  <1>1. ASSUME NEW t \in Tasks, Add(t) PROVE Parts
    BY <1>1, RowsAfterAdd, EngineAfterAdd, MirrorIdle, PageWatched DEF Add
  <1>2. ASSUME NEW t \in Tasks, Pause(t) PROVE Parts
    <2>1. RowsOK'
      <3>1. /\ row' = [row EXCEPT ![t] = "pausado"] /\ row[t] \in {"aguardando", "baixando"}
            /\ UNCHANGED <<pos, born>>
        BY <1>2 DEF Pause
      <3> QED BY <3>1, RowsKept DEF RowsOK, RowState, Live
    <2> QED BY <1>2, <2>1, EngineAfterPause, MirrorIdle, PageWatched DEF Pause
  <1>3. ASSUME NEW t \in Tasks, Resume(t) PROVE Parts
    <2>1. RowsOK'
      <3>1. row' = [row EXCEPT ![t] = "aguardando"] /\ row[t] = "pausado" /\ UNCHANGED <<pos, born>>
        BY <1>3 DEF Resume
      <3> QED BY <3>1, RowsKept DEF RowsOK, RowState, Live
    <2> QED BY <1>3, <2>1, EngineAfterResume, MirrorIdle, PageWatched DEF Resume
  <1>4. ASSUME NEW t \in Tasks, Retry(t) PROVE Parts
    <2>1. RowsOK'
      <3>1. row' = [row EXCEPT ![t] = "aguardando"] /\ row[t] = "fim" /\ UNCHANGED <<pos, born>>
        BY <1>4 DEF Retry
      <3> QED BY <3>1, RowsKept DEF RowsOK, RowState, Live
    <2> QED BY <1>4, <2>1, EngineAfterRetry, MirrorIdle, PageWatched DEF Retry
  <1>5. ASSUME NEW t \in Tasks, Cancel(t) PROVE Parts
    <2>1. RowsOK'
      <3>1. row' = [row EXCEPT ![t] = "fim"] /\ row[t] \in Live /\ UNCHANGED <<pos, born>>
        BY <1>5 DEF Cancel
      <3> QED BY <3>1, RowsKept DEF RowsOK, RowState, Live
    <2> QED BY <1>5, <2>1, EngineAfterCancel, MirrorIdle, PageWatched DEF Cancel
  <1>6. ASSUME NEW t \in Tasks, RemoveFromHistory(t) PROVE Parts
    <2>1. RowsOK'
      <3>1. /\ row' = [row EXCEPT ![t] = "apagado"] /\ row[t] = "fim"
            /\ pos' = [pos EXCEPT ![t] = 0] /\ born' = [born EXCEPT ![t] = 0]
        BY <1>6 DEF RemoveFromHistory
      <3>2. /\ row' \in [Tasks -> RowState] /\ Rows' \subseteq Rows /\ t \notin Rows' /\ Added' = Added
        BY <3>1 DEF RowsOK, Rows, Added, RowState, Live
      <3>3. /\ pos' \in [Tasks -> 0..N] /\ born' \in [Tasks -> 0..N]
            /\ \A u \in Tasks : /\ u # t => born'[u] = born[u] /\ pos'[u] = pos[u]
                                /\ u = t => born'[u] = 0 /\ pos'[u] = 0
        BY <3>1, NIsNat DEF RowsOK
      <3>4. ASSUME NEW u \in Rows', NEW v \in Rows', born'[u] = born'[v] PROVE u = v
        <4>1. u \in Rows /\ v \in Rows /\ born[u] = born[v]
          BY <3>2, <3>3, <3>4 DEF Rows
        <4> QED BY <4>1 DEF RowsOK, Numbered
      <3>5. \A u \in Tasks : born'[u] <= Cardinality(Added) /\ pos'[u] <= Cardinality(Added)
        BY <3>3, AddedBound, NIsNat DEF RowsOK, Numbered
      <3> QED BY <3>2, <3>3, <3>4, <3>5 DEF RowsOK, Numbered
    <2> QED BY <1>6, <2>1, EngineAfterRemoval, MirrorIdle, PageWatched DEF RemoveFromHistory
  <1>7. ASSUME NEW t \in Tasks, NEW d \in Direction, MoveTask(t, d) PROVE Parts
    <2>1. StartMove(t, d) /\ Watched
      BY <1>7 DEF MoveTask
    <2>2. UNCHANGED <<row, engineVars, reconcile>>
      BY <2>1 DEF StartMove
    <2> QED BY <2>1, <2>2, MoveRenumbers, EngineUntouched, MirrorAfterStart, PageWatched
  <1>8. ASSUME NEW t \in Tasks, DragStart(t) PROVE Parts
    <2>1. UNCHANGED <<row, pos, born, engineVars, reconcile, mirrorVars, queue>>
      BY <1>8 DEF DragStart, queueVars, engineVars
    <2> QED BY <1>8, <2>1, RowsUntouched, EngineUntouched, MirrorUntouched, PageAfterStart
  <1>9. ASSUME EngineRestarts PROVE Parts
    <2>1. UNCHANGED <<row, pos, born, mirrorVars, drag>> /\ Free
      BY <1>9 DEF EngineRestarts
    <2> QED BY <1>9, <2>1, RowsUntouched, EngineAfterRestart, MirrorIdle, PageUntouched
  <1>10. ASSUME Promote PROVE Parts
    <2>1. UNCHANGED <<row, pos, born, drag>>
      BY <1>10 DEF Promote
    <2> QED BY <1>10, <2>1, RowsUntouched, EngineAfterPromote, MirrorAfterPromote, PageUntouched
  <1>11. ASSUME Finish PROVE Parts
    <2>1. UNCHANGED <<row, pos, born, mirrorVars, queue, drag>>
      BY <1>11 DEF Finish
    <2> QED BY <1>11, <2>1, RowsUntouched, EngineAfterFinish, MirrorUntouched, PageUntouched
  <1>12. ASSUME Halt PROVE Parts
    <2>1. UNCHANGED <<row, pos, born, drag>>
      BY <1>12 DEF Halt
    <2> QED BY <1>12, <2>1, RowsUntouched, EngineAfterHalt, MirrorAfterHalt, PageUntouched
  <1>13. ASSUME Tick PROVE Parts
    BY <1>13, TickParts, MirrorIdle, PageWatched DEF Tick
  <1>14. ASSUME Mirror PROVE Parts
    <2>1. UNCHANGED <<row, pos, born, drag>>
      BY <1>14 DEF Mirror
    <2> QED BY <1>14, <2>1, RowsUntouched, MirrorParts, PageUntouched
  <1>15. ASSUME EndMove PROVE Parts
    <2>1. UNCHANGED <<row, pos, born, engineVars, reconcile, drag>>
      BY <1>15 DEF EndMove
    <2> QED BY <1>15, <2>1, RowsUntouched, EngineUntouched, MirrorAfterEnd, PageUntouched
  <1>16. ASSUME PageRefresh \/ DragEnd \/ \E t \in Tasks : Drop(t) PROVE Parts
    <2>1. UNCHANGED <<row, pos, born, engineVars, reconcile, mirrorVars, queue>>
      BY <1>16 DEF PageRefresh, DragEnd, Drop, queueVars, engineVars
    <2>2. PageOK'
      BY <1>16, PageAfterRefresh, PageAfterEnd, PageAfterDrop
    <2> QED BY <2>1, <2>2, RowsUntouched, EngineUntouched, MirrorUntouched
  <1>17. ASSUME DragMove PROVE Parts
    <2>1. StartMove(drag.id, drag.direction) /\ drag.id \in Tasks /\ drag.direction \in Direction
      BY <1>17 DEF DragMove, PageOK, Direction
    <2>2. UNCHANGED <<row, engineVars, reconcile>>
      BY <2>1 DEF StartMove
    <2> QED BY <1>17, <2>1, <2>2, MoveRenumbers, EngineUntouched, MirrorAfterStart, PageAfterMove
  <1>18. ASSUME UNCHANGED vars PROVE Parts
    <2>1. UNCHANGED <<row, pos, born, engineVars, reconcile, mirrorVars, queue, drag>>
      BY <1>18 DEF vars, engineVars
    <2> QED BY <2>1, RowsUntouched, EngineUntouched, MirrorUntouched, PageUntouched
  <1>19. Parts
    <2>1. CASE UNCHANGED vars
      BY <1>18, <2>1
    <2>2. ASSUME NEW t \in Tasks, Operation(t) PROVE Parts
      BY <1>1, <1>2, <1>3, <1>4, <1>5, <1>6, <1>7, <1>8, <2>2 DEF Operation
    <2>3. CASE Next
      BY <1>9, <1>10, <1>11, <1>12, <1>13, <1>14, <1>15, <1>16, <1>17, <2>2, <2>3 DEF Next
    <2> QED BY <2>1, <2>3
  <1>20. acts' \in 0..MaxActs
    BY QueueAssumption DEF Next, Act, vars
  <1> QED BY <1>19, <1>20 DEF Inductive

LEMMA AlwaysInductive == Spec => []Inductive
  BY InitInductive, InductiveStep, PTL DEF Spec

-----------------------------------------------------------------------------
(* Theorems.                                                               *)

\* Every variable keeps its type: no download is twice in aria2's queue or
\* both in it and running, the paused ones are in it, no more downloads run
\* than the settings allow, and positions stay below the number of tasks.
THEOREM QueueTyped == Spec => []TypeOK
  BY AlwaysInductive, InductiveTyped, PTL

\* What mirror_queue_order has placed stands in aria2's queue in the listed
\* order, whatever aria2 starts and whichever calls are lost meanwhile.
THEOREM MirrorKeepsOrder == Spec => []MoveIsMirrored
  <1>1. Inductive => MoveIsMirrored
    BY DEF Inductive, MirrorOK
  <1> QED BY <1>1, AlwaysInductive, PTL

\* A drag of the page that nobody disturbs puts the row right before the row
\* it was dropped on, however far apart they are and in either direction.
THEOREM DropLands == Spec => []DragLands
  <1>1. Inductive => DragLands
    <2> SUFFICES ASSUME Inductive, drag.step = "moving", drag.left = 0, drag.calm
                 PROVE  IndexIn(Listed(Waiting), drag.target) = IndexIn(Listed(Waiting), drag.id) + 1
      BY DEF DragLands
    <2>1. RowsOK /\ Ahead(Listed(Waiting))
      BY DEF Inductive, PageOK
    <2>2. IndexIn(Listed(Waiting), drag.id) \in Int
      BY <2>1, WaitingListed, IndexRange, LineParts
    <2> QED BY <2>1, <2>2 DEF Ahead
  <1> QED BY <1>1, AlwaysInductive, PTL

\* The step in which move_task lists the tasks anew.
LEMMA MoveStep ==
    ASSUME RowsOK, NEW t \in Tasks, NEW d \in Direction, StartMove(t, d)
    PROVE  LET before == Listed(Waiting)
               after == Listed(Waiting)'
               shift == IndexIn(after, t) - IndexIn(before, t)
           IN  /\ RemoveFirst(after, t) = RemoveFirst(before, t)
               /\ d = "up" => shift = IF t = Head(before) THEN 0 ELSE -1
               /\ d = "down" => shift = IF t = Last(before) THEN 0 ELSE 1
               /\ d = "top" => t = Head(after)
               /\ d = "bottom" => t = Last(after)
  <1> DEFINE before == Listed(Waiting)
             after == Listed(Waiting)'
             i == IndexIn(before, t)
             j == IndexIn(after, t)
             n == Len(before)
  <1>1. /\ before \in Lines /\ ToSet(before) = Waiting
        /\ t \in Waiting /\ after = Moved(before, t, d)
    BY WaitingListed, MoveRenumbers
  <1> HIDE DEF before, after
  <1>2. /\ after \in Lines /\ ToSet(after) = ToSet(before) /\ Len(after) = n
        /\ j = Target(i, n, d) /\ RemoveFirst(after, t) = RemoveFirst(before, t)
    BY <1>1, MovedParts
  <1>3. /\ n \in Nat /\ i \in 0..(n - 1) /\ j \in 0..(n - 1)
        /\ before[i + 1] = t /\ after[j + 1] = t
    BY <1>1, <1>2, IndexRange, LineParts
  <1>4. /\ Head(before) = before[1] /\ Head(after) = after[1]
        /\ Last(before) = before[n] /\ Last(after) = after[n]
    <2>1. before # <<>> /\ after # <<>>
      BY <1>2, <1>3
    <2> QED BY <1>1, <1>2, <2>1, LineParts, HeadTailProperties DEF Last
  <1>5. (t = Head(before) <=> i = 0) /\ (t = Last(before) <=> i = n - 1)
    <2>1. 1 \in 1..n /\ n \in 1..n /\ i + 1 \in 1..n
      BY <1>3
    <2> QED BY <1>1, <1>3, <1>4, <2>1, LineParts
  <1> HIDE DEF i, j, n
  <1>6. /\ d = "up" => j - i = IF t = Head(before) THEN 0 ELSE -1
        /\ d = "down" => j - i = IF t = Last(before) THEN 0 ELSE 1
    BY <1>2, <1>3, <1>5 DEF Target
  <1>7. d = "top" => t = Head(after)
    <2> HAVE d = "top"
    <2>1. j = 0
      BY <1>2 DEF Target
    <2> QED BY <1>3, <1>4, <2>1
  <1>8. d = "bottom" => t = Last(after)
    <2> HAVE d = "bottom"
    <2>1. j = n - 1
      BY <1>2 DEF Target
    <2>2. j + 1 = n
      BY <1>3, <2>1
    <2> QED BY <1>3, <1>4, <2>2
  <1> QED BY <1>2, <1>6, <1>7, <1>8 DEF i, j, before, after

\* move_task moves the one task it was asked to move and leaves the order of
\* the others as it was, though positions may be shared and have gaps.
THEOREM MovesAsAsked == Spec => MoveAsAsked
  <1> DEFINE Result ==
        LET before == Listed(Waiting)
            after == Listed(Waiting)'
            t == asked'.id
            shift == IndexIn(after, t) - IndexIn(before, t)
        IN  /\ RemoveFirst(after, t) = RemoveFirst(before, t)
            /\ CASE asked'.direction = "up" -> shift = IF t = Head(before) THEN 0 ELSE -1
                 [] asked'.direction = "down" -> shift = IF t = Last(before) THEN 0 ELSE 1
                 [] asked'.direction = "top" -> t = Head(after)
                 [] asked'.direction = "bottom" -> t = Last(after)
  <1>1. Inductive /\ [Next]_vars => [turn = 0 /\ turn' = 1 => Result]_vars
    <2> SUFFICES ASSUME Inductive, Next, turn = 0, turn' = 1 PROVE Result
      OBVIOUS
    <2>1. RowsOK /\ MirrorOK /\ PageOK
      BY DEF Inductive
    <2>2. ASSUME NEW t \in Tasks, NEW d \in Direction, StartMove(t, d) PROVE Result
      <3>1. asked' = [id |-> t, direction |-> d]
        BY <2>2 DEF StartMove
      <3> QED BY <2>1, <2>2, <3>1, MoveStep DEF Direction
    <2>3. \E t \in Tasks, d \in Direction : StartMove(t, d)
      <3>1. ~Mirror /\ ~EndMove
        BY <2>1, LineParts DEF Mirror, EndMove, MirrorOK
      <3>2. ASSUME turn' = turn PROVE FALSE
        BY <3>2
      <3>3. ASSUME NEW t \in Tasks, Operation(t) PROVE \E d \in Direction : StartMove(t, d)
        BY <3>2, <3>3
        DEF Operation, Add, Pause, Resume, Retry, Cancel, RemoveFromHistory, MoveTask, DragStart,
            mirrorVars, queueVars
      <3>4. DragMove => drag.id \in Tasks /\ drag.direction \in Direction /\ StartMove(drag.id, drag.direction)
        BY <2>1 DEF DragMove, PageOK, Direction
      <3>5. ~(EngineRestarts \/ Promote \/ Finish \/ Halt \/ Tick \/ PageRefresh \/ DragEnd \/ \E t \in Tasks : Drop(t))
        BY <3>2 DEF EngineRestarts, Promote, Finish, Halt, Tick, PageRefresh, DragEnd, Drop, mirrorVars, queueVars
      <3> QED BY <3>1, <3>3, <3>4, <3>5 DEF Next
    <2> QED BY <2>2, <2>3
  <1> QED BY <1>1, AlwaysInductive, PTL DEF Spec, MoveAsAsked

=============================================================================
