------------------------- MODULE DestinationProofs -------------------------
(***************************************************************************)
(* Proofs about Destination, for any tasks, names and limit.               *)
(***************************************************************************)
EXTENDS Destination, SequenceTheorems, FiniteSetTheorems, TLAPS

-----------------------------------------------------------------------------
(* The least and the greatest of a set of numbers.                         *)

\* How many elements of S are below x.
Rank(S, x) == Cardinality({y \in S : y < x})

LEMMA RankGrows ==
    ASSUME NEW S \in SUBSET Nat, IsFiniteSet(S), NEW x \in S
    PROVE  /\ Rank(S, x) \in 0..(Cardinality(S) - 1)
           /\ \A y \in S : x < y => Rank(S, x) < Rank(S, y)
  <1> DEFINE Below(z) == {y \in S : y < z}
  <1>1. \A z \in S : Below(z) \in SUBSET S /\ Below(z) # S
    OBVIOUS
  <1>2. \A z \in S : IsFiniteSet(Below(z)) /\ Cardinality(Below(z)) \in Nat
    BY <1>1, FS_Subset, FS_CardinalityType
  <1>3. Cardinality(S) \in Nat /\ Cardinality(Below(x)) < Cardinality(S)
    BY <1>1, <1>2, FS_Subset, FS_CardinalityType
  <1>4. ASSUME NEW y \in S, x < y
        PROVE  Cardinality(Below(x)) < Cardinality(Below(y))
    <2>1. \A z \in S : z < x => z < y
      BY <1>4
    <2>2. Below(x) \in SUBSET Below(y)
      BY <2>1
    <2>3. x \in Below(y) /\ x \notin Below(x)
      BY <1>4
    <2> QED BY <2>2, <2>3, <1>2, FS_Subset
  <1> QED BY <1>2, <1>3, <1>4 DEF Rank

LEMMA FiniteLeast ==
    ASSUME NEW S \in SUBSET Nat, IsFiniteSet(S), S # {}
    PROVE  \E x \in S : \A y \in S : x <= y
  <1> DEFINE C == Cardinality(S)
             f == [x \in S |-> Rank(S, x)]
  <1>1. C \in Nat /\ C # 0
    BY FS_CardinalityType, FS_EmptySet
  <1>2. IsFiniteSet(0..(C - 1)) /\ Cardinality(0..(C - 1)) = C
    BY <1>1, FS_Interval
  <1>3. f \in [S -> 0..(C - 1)]
    BY RankGrows
  <1>4. ASSUME NEW x \in S, NEW y \in S, x # y
        PROVE  f[x] # f[y]
    <2>1. x < y \/ y < x
      BY <1>4
    <2> QED BY <2>1, RankGrows
  <1>5. f \in Injection(S, 0..(C - 1))
    BY <1>3, <1>4, Zenon DEF Injection, IsInjective
  <1>6. f \in Surjection(S, 0..(C - 1))
    BY <1>2, <1>5, FS_Injection
  <1>7. PICK x \in S : f[x] = 0
    <2>1. 0 \in 0..(C - 1)
      BY <1>1
    <2>2. \A k \in 0..(C - 1) : \E x \in S : f[x] = k
      BY <1>6, Zenon DEF Surjection
    <2> HIDE DEF f
    <2> QED BY <2>1, <2>2
  <1>8. IsFiniteSet({y \in S : y < x})
    BY FS_Subset
  <1>9. {y \in S : y < x} = {}
    BY <1>7, <1>8, FS_EmptySet DEF Rank
  <1> QED BY <1>9

LEMMA Least ==
    ASSUME NEW S \in SUBSET Nat, S # {}
    PROVE  Min(S) \in S /\ \A y \in S : Min(S) <= y
  <1>1. PICK n \in S : TRUE
    OBVIOUS
  <1> DEFINE U == {y \in S : y <= n}
  <1>2. U \in SUBSET (0..n) /\ U \in SUBSET Nat /\ U # {}
    <2>1. n \in Nat /\ n <= n /\ \A y \in S : y \in Nat
      BY <1>1
    <2>2. \A y \in S : y <= n => y \in 0..n
      BY <2>1
    <2> QED BY <2>1, <2>2
  <1>3. IsFiniteSet(U)
    <2>1. 0 \in Int /\ n \in Int
      BY <1>1
    <2>2. IsFiniteSet(0..n)
      BY <2>1, FS_Interval
    <2> QED BY <1>2, <2>2, FS_Subset
  <1>4. PICK x \in U : \A y \in U : x <= y
    BY <1>2, <1>3, FiniteLeast
  <1>5. x \in S /\ \A y \in S : x <= y
    BY <1>4
  <1> QED BY <1>5 DEF Min

LEMMA Greatest ==
    ASSUME NEW n \in Nat, NEW S \in SUBSET (1..n), S # {}
    PROVE  Max(S) \in S /\ \A y \in S : Max(S) >= y
  <1> DEFINE U == {n - y : y \in S}
  <1>1. U \in SUBSET Nat /\ U # {}
    <2>1. \A y \in S : n - y \in Nat
      OBVIOUS
    <2> QED BY <2>1
  <1>2. PICK x \in S : n - x = Min(U)
    BY <1>1, Least
  <1>3. \A y \in S : n - x <= n - y
    BY <1>1, <1>2, Least
  <1>4. \A y \in S : x >= y
    BY <1>3
  <1> QED BY <1>4 DEF Max

-----------------------------------------------------------------------------
(* What FileName's operators return.                                       *)

LEMMA PartOf ==
    ASSUME NEW name \in Seq(Characters), NEW m \in 1..(Len(name) + 1), NEW n \in 0..Len(name)
    PROVE  /\ SubSeq(name, m, n) \in Seq(Characters)
           /\ Len(SubSeq(name, m, n)) = IF m <= n THEN n - m + 1 ELSE 0
           /\ \A i \in 1..(n - m + 1) : SubSeq(name, m, n)[i] = name[m + i - 1]
  <1>1. Len(name) \in Nat /\ \A i \in 1..Len(name) : name[i] \in Characters
    OBVIOUS
  <1>2. m \in Int /\ n \in Int /\ \A i \in m..n : name[i] \in Characters
    BY <1>1
  <1> QED BY <1>2, SubSeqProperties

LEMMA JoinedParts ==
    ASSUME NEW s \in Seq(Characters), NEW e \in Seq(Characters)
    PROVE  /\ s \o e \in Seq(Characters) /\ Len(s \o e) = Len(s) + Len(e)
           /\ \A i \in 1..Len(s) : (s \o e)[i] = s[i]
           /\ \A i \in 1..Len(e) : (s \o e)[Len(s) + i] = e[i]
  OBVIOUS

\* What is left of a name that is one path component of visible characters and
\* does not begin or end with a space or a dot.
Clean(name) ==
  /\ name \in Seq(Characters) \ {<<>>}
  /\ \A i \in 1..Len(name) : name[i] \notin Separators \cup Controls
  /\ name[1] \notin Edges /\ name[Len(name)] \notin Edges

\* The steps of sanitize_filename before the limit.
Bare(raw) == Trimmed(Uncontrolled(Trimmed(LastComponent(raw), WhiteSpace)), Edges)
Cleaned(raw) == IF Bare(raw) = <<>> THEN FallbackName ELSE Bare(raw)
Cut(name) == SubSeq(name, 1, Min({MaxNameLen, Len(name)}))

LEMMA SanitizeSteps ==
    ASSUME NEW raw
    PROVE  Sanitize(raw) = IF Bytes(Cleaned(raw)) > MaxNameLen THEN Cut(Cleaned(raw)) ELSE Cleaned(raw)
  BY DEF Sanitize, SanitizeTo, Cleaned, Bare, Cut

LEMMA LastComponentParts ==
    ASSUME NEW raw \in Seq(Characters)
    PROVE  /\ LastComponent(raw) \in Seq(Characters)
           /\ \A i \in 1..Len(LastComponent(raw)) : LastComponent(raw)[i] \notin Separators
           /\ Len(LastComponent(raw)) <= Len(raw)
           /\ (\A i \in 1..Len(raw) : raw[i] \notin Separators) => LastComponent(raw) = raw
  <1> DEFINE I == {i \in 1..Len(raw) : raw[i] \in Separators}
             last == IF I # {} THEN Max(I) ELSE 0
  <1>1. Len(raw) \in Nat
    OBVIOUS
  <1>2. last \in 0..Len(raw) /\ \A i \in 1..Len(raw) : i > last => raw[i] \notin Separators
    <2>1. I \in SUBSET (1..Len(raw))
      OBVIOUS
    <2>2. I # {} => Max(I) \in I /\ \A i \in I : Max(I) >= i
      BY <1>1, <2>1, Greatest
    <2>3. CASE I = {}
      <3>1. \A i \in 1..Len(raw) : raw[i] \notin Separators
        BY <2>3
      <3> QED BY <1>1, <2>3, <3>1
    <2>4. CASE I # {}
      <3>1. last = Max(I)
        BY <2>4
      <3> HIDE DEF last
      <3>2. last \in I /\ last \in 1..Len(raw) /\ \A i \in I : last >= i
        BY <2>1, <2>2, <2>4, <3>1
      <3>3. \A i \in 1..Len(raw) : raw[i] \in Separators => i \in I
        OBVIOUS
      <3> HIDE DEF I
      <3> QED BY <1>1, <3>2, <3>3
    <2> QED BY <2>3, <2>4
  <1>3. SelectLastInSeq(raw, LAMBDA c : c \in Separators) = last
    BY DEF SelectLastInSeq
  <1>4. I = {} => last = 0
    OBVIOUS
  <1> HIDE DEF last
  <1>5. /\ SubSeq(raw, last + 1, Len(raw)) \in Seq(Characters)
        /\ Len(SubSeq(raw, last + 1, Len(raw))) = Len(raw) - last
        /\ \A i \in 1..(Len(raw) - last) : SubSeq(raw, last + 1, Len(raw))[i] = raw[last + i]
    BY <1>1, <1>2, PartOf
  <1>6. \A i \in 1..(Len(raw) - last) : raw[last + i] \notin Separators
    BY <1>1, <1>2
  <1>7. SubSeq(raw, 1, Len(raw)) = raw
    BY SubSeqFull
  <1>8. LastComponent(raw) = SubSeq(raw, last + 1, Len(raw))
    BY <1>3 DEF LastComponent
  <1>9. ASSUME \A i \in 1..Len(raw) : raw[i] \notin Separators PROVE LastComponent(raw) = raw
    BY <1>4, <1>7, <1>8, <1>9
  <1>10. Len(raw) - last \in Nat /\ Len(raw) - last <= Len(raw)
    BY <1>1, <1>2
  <1>11. LastComponent(raw) \in Seq(Characters) /\ Len(LastComponent(raw)) = Len(raw) - last
    BY <1>5, <1>8
  <1>12. \A i \in 1..Len(LastComponent(raw)) : LastComponent(raw)[i] \notin Separators
    BY <1>5, <1>6, <1>8, <1>11
  <1>13. Len(LastComponent(raw)) <= Len(raw)
    BY <1>10, <1>11
  <1> HIDE DEF I
  <1> QED BY <1>9, <1>11, <1>12, <1>13

LEMMA TrimmedParts ==
    ASSUME NEW name \in Seq(Characters), NEW chars
    PROVE  LET cut == Trimmed(name, chars) IN
           /\ cut \in Seq(Characters) /\ Len(cut) <= Len(name)
           /\ \A i \in 1..Len(cut) : \E j \in 1..Len(name) : cut[i] = name[j]
           /\ cut # <<>> => cut[1] \notin chars /\ cut[Len(cut)] \notin chars
  <1> DEFINE kept == {i \in DOMAIN name : name[i] \notin chars}
  <1>1. Len(name) \in Nat
    OBVIOUS
  <1>2. CASE kept = {}
    <2>1. Trimmed(name, chars) = <<>>
      BY <1>2 DEF Trimmed
    <2> QED BY <1>1, <2>1
  <1>3. CASE kept # {}
    <2>1. kept \in SUBSET (1..Len(name)) /\ kept \in SUBSET Nat
      <3>1. \A i \in DOMAIN name : i \in 1..Len(name) /\ i \in Nat
        OBVIOUS
      <3> QED BY <3>1
    <2>2. /\ Min(kept) \in kept /\ Max(kept) \in kept
          /\ Min(kept) <= Max(kept)
      BY <1>1, <1>3, <2>1, Least, Greatest
    <2>3. Trimmed(name, chars) = SubSeq(name, Min(kept), Max(kept))
      BY <1>3 DEF Trimmed
    <2>4. PICK a \in 1..Len(name), b \in 1..Len(name) :
            /\ a <= b /\ name[a] \notin chars /\ name[b] \notin chars
            /\ Trimmed(name, chars) = SubSeq(name, a, b)
      BY <2>1, <2>2, <2>3
    <2>5. /\ SubSeq(name, a, b) \in Seq(Characters)
          /\ Len(SubSeq(name, a, b)) = b - a + 1
          /\ \A i \in 1..(b - a + 1) : SubSeq(name, a, b)[i] = name[a + i - 1]
      <3>1. a \in 1..(Len(name) + 1) /\ b \in 0..Len(name)
        BY <1>1
      <3>2. /\ SubSeq(name, a, b) \in Seq(Characters)
            /\ Len(SubSeq(name, a, b)) = IF a <= b THEN b - a + 1 ELSE 0
            /\ \A i \in 1..(b - a + 1) : SubSeq(name, a, b)[i] = name[a + i - 1]
        BY <3>1, PartOf, Zenon
      <3> QED BY <2>4, <3>2, Zenon
    <2>6. /\ 1 \in 1..(b - a + 1) /\ b - a + 1 \in 1..(b - a + 1) /\ b - a + 1 <= Len(name)
          /\ a + 1 - 1 = a /\ a + (b - a + 1) - 1 = b
          /\ \A i \in 1..(b - a + 1) : a + i - 1 \in 1..Len(name)
      <3> DEFINE l == Len(name)
      <3>1. l \in Nat /\ a \in 1..l /\ b \in 1..l /\ a <= b
        BY <1>1, <2>4
      <3> HIDE DEF l
      <3>2. 1 \in 1..(b - a + 1) /\ b - a + 1 \in 1..(b - a + 1) /\ b - a + 1 <= l
        BY <3>1
      <3>3. a + 1 - 1 = a /\ a + (b - a + 1) - 1 = b
        BY <3>1
      <3>4. ASSUME NEW i \in 1..(b - a + 1) PROVE a + i - 1 \in 1..l
        BY <3>1
      <3> QED BY <3>2, <3>3, <3>4 DEF l
    <2> DEFINE cut == Trimmed(name, chars)
               n == b - a + 1
    <2>7. /\ cut \in Seq(Characters) /\ Len(cut) = n
          /\ \A i \in 1..n : cut[i] = name[a + i - 1]
      BY <2>4, <2>5
    <2> HIDE DEF cut
    <2>8. \A i \in 1..Len(cut) : \E j \in 1..Len(name) : cut[i] = name[j]
      BY <2>6, <2>7
    <2>9. cut[1] = name[a] /\ cut[n] = name[b]
      BY <2>6, <2>7
    <2>10. cut[1] \notin chars /\ cut[Len(cut)] \notin chars
      BY <2>4, <2>7, <2>9
    <2>11. Len(cut) <= Len(name)
      BY <2>6, <2>7
    <2> QED BY <2>7, <2>8, <2>10, <2>11 DEF cut
  <1> QED BY <1>2, <1>3

\* Nothing to trim.
LEMMA TrimmedSame ==
    ASSUME NEW name \in Seq(Characters) \ {<<>>}, NEW chars,
           name[1] \notin chars, name[Len(name)] \notin chars
    PROVE  Trimmed(name, chars) = name
  <1> DEFINE kept == {i \in DOMAIN name : name[i] \notin chars}
  <1>1. Len(name) \in Nat \ {0} /\ DOMAIN name = 1..Len(name)
    OBVIOUS
  <1>2. kept \in SUBSET (1..Len(name)) /\ kept \in SUBSET Nat
    <2>1. \A i \in DOMAIN name : i \in 1..Len(name) /\ i \in Nat
      BY <1>1
    <2> QED BY <2>1
  <1>3. 1 \in kept /\ Len(name) \in kept
    BY <1>1
  <1>4. /\ Min(kept) \in kept /\ Min(kept) <= 1
        /\ Max(kept) \in kept /\ Max(kept) >= Len(name)
    BY <1>1, <1>2, <1>3, Least, Greatest
  <1>5. Min(kept) = 1 /\ Max(kept) = Len(name)
    <2>1. Min(kept) \in 1..Len(name) /\ Max(kept) \in 1..Len(name)
      BY <1>2, <1>4
    <2> QED BY <1>1, <1>4, <2>1
  <1>6. SubSeq(name, 1, Len(name)) = name
    BY SubSeqFull
  <1> QED BY <1>3, <1>5, <1>6 DEF Trimmed

LEMMA UncontrolledParts ==
    ASSUME NEW name \in Seq(Characters)
    PROVE  /\ Uncontrolled(name) \in Seq(Characters)
           /\ Len(Uncontrolled(name)) = Len(name)
           /\ \A i \in 1..Len(name) :
                Uncontrolled(name)[i] = IF name[i] \in Controls THEN "_" ELSE name[i]
  <1>1. Len(name) \in Nat /\ DOMAIN name = 1..Len(name) /\ \A i \in DOMAIN name : name[i] \in Characters
    OBVIOUS
  <1>2. "_" \in Characters
    BY DestinationAssumption
  <1>3. ASSUME NEW x \in Characters
        PROVE  LET f == [i \in DOMAIN name |-> IF name[i] \in Controls THEN x ELSE name[i]]
               IN  f \in Seq(Characters) /\ Len(f) = Len(name)
    OBVIOUS
  <1> QED BY <1>1, <1>2, <1>3 DEF Uncontrolled

LEMMA CleanedIsClean ==
    ASSUME NEW raw \in Seq(Characters)
    PROVE  Clean(Cleaned(raw))
  <1> DEFINE last == LastComponent(raw)
             tight == Trimmed(last, WhiteSpace)
             plain == Uncontrolled(tight)
  <1>1. last \in Seq(Characters) /\ \A i \in 1..Len(last) : last[i] \notin Separators
    BY LastComponentParts
  <1>2. tight \in Seq(Characters) /\ \A i \in 1..Len(tight) : tight[i] \notin Separators
    BY <1>1, TrimmedParts
  <1>3. plain \in Seq(Characters) /\ \A i \in 1..Len(plain) : plain[i] \notin Separators \cup Controls
    <2>1. "_" \notin Separators \cup Controls
      BY DEF Separators, Controls
    <2> QED BY <1>2, <2>1, UncontrolledParts
  <1> HIDE DEF plain
  <1>4. /\ Bare(raw) \in Seq(Characters)
        /\ \A i \in 1..Len(Bare(raw)) : Bare(raw)[i] \notin Separators \cup Controls
        /\ Bare(raw) # <<>> => Bare(raw)[1] \notin Edges /\ Bare(raw)[Len(Bare(raw))] \notin Edges
    BY <1>3, TrimmedParts DEF Bare, plain
  <1>5. CASE Bare(raw) = <<>>
    <2>1. "download" \in Characters /\ "download" \notin Separators \cup Controls \cup Edges
      BY DestinationAssumption DEF Separators, Controls, Edges
    <2>2. /\ FallbackName \in Seq(Characters) \ {<<>>} /\ Len(FallbackName) = 1
          /\ FallbackName[1] = "download"
      BY <2>1 DEF FallbackName
    <2>3. Cleaned(raw) = FallbackName
      BY <1>5 DEF Cleaned
    <2>4. 1..1 = {1}
      OBVIOUS
    <2> QED BY <2>1, <2>2, <2>3, <2>4 DEF Clean
  <1>6. CASE Bare(raw) # <<>>
    <2>1. Cleaned(raw) = Bare(raw)
      BY <1>6 DEF Cleaned
    <2> QED BY <1>4, <1>6, <2>1 DEF Clean
  <1> QED BY <1>5, <1>6

LEMMA CleanedLen ==
    ASSUME NEW raw \in Seq(Characters) \ {<<>>}
    PROVE  Len(Cleaned(raw)) <= Len(raw)
  <1> DEFINE last == LastComponent(raw)
             tight == Trimmed(last, WhiteSpace)
             plain == Uncontrolled(tight)
  <1>1. last \in Seq(Characters) /\ Len(last) <= Len(raw)
    BY LastComponentParts
  <1>2. tight \in Seq(Characters) /\ Len(tight) <= Len(last)
    BY <1>1, TrimmedParts
  <1>3. plain \in Seq(Characters) /\ Len(plain) = Len(tight)
    BY <1>2, UncontrolledParts
  <1>4. Bare(raw) \in Seq(Characters) /\ Len(Bare(raw)) <= Len(plain)
    BY <1>3, TrimmedParts DEF Bare
  <1>5. Len(FallbackName) = 1 /\ Len(raw) \in Nat \ {0}
    BY DEF FallbackName
  <1>6. /\ Len(last) \in Nat /\ Len(tight) \in Nat /\ Len(Bare(raw)) \in Nat
    BY <1>1, <1>2, <1>4
  <1> HIDE DEF last, tight, plain
  <1>7. Len(Bare(raw)) <= Len(raw)
    BY <1>1, <1>2, <1>3, <1>4, <1>5, <1>6
  <1>8. 1 <= Len(raw)
    BY <1>5
  <1>9. Cleaned(raw) \in {FallbackName, Bare(raw)}
    BY DEF Cleaned
  <1> QED BY <1>5, <1>7, <1>8, <1>9

LEMMA CleanIsKept ==
    ASSUME NEW name, Clean(name)
    PROVE  Cleaned(name) = name
  <1>1. name \in Seq(Characters) \ {<<>>} /\ Len(name) \in Nat \ {0}
    BY DEF Clean
  <1>2. LastComponent(name) = name
    BY <1>1, LastComponentParts DEF Clean
  <1>3. Trimmed(name, WhiteSpace) = name
    <2>1. \A c : c \notin Edges /\ c \notin Controls => c \notin WhiteSpace
      BY DEF Edges, Controls, WhiteSpace
    <2>2. name[1] \notin Edges \cup Controls /\ name[Len(name)] \notin Edges \cup Controls
      BY <1>1 DEF Clean
    <2> QED BY <1>1, <2>1, <2>2, TrimmedSame
  <1>4. Uncontrolled(name) = name
    <2>1. /\ Uncontrolled(name) \in Seq(Characters) /\ Len(Uncontrolled(name)) = Len(name)
          /\ \A i \in 1..Len(name) : Uncontrolled(name)[i] = name[i]
      BY <1>1, UncontrolledParts DEF Clean
    <2> QED BY <1>1, <2>1
  <1>5. Trimmed(name, Edges) = name
    BY <1>1, TrimmedSame DEF Clean
  <1> QED BY <1>1, <1>2, <1>3, <1>4, <1>5 DEF Cleaned, Bare

\* What is cut is a beginning within the limit; a short name stays as it is.
LEMMA CutParts ==
    ASSUME NEW name \in Seq(Characters) \ {<<>>}
    PROVE  /\ Cut(name) \in Seq(Characters) \ {<<>>}
           /\ Len(Cut(name)) <= MaxNameLen
           /\ Len(name) <= MaxNameLen => Cut(name) = name
  <1> DEFINE both == {MaxNameLen, Len(name)}
             last == Min(both)
  <1>1. Len(name) \in Nat \ {0} /\ MaxNameLen \in Nat \ {0}
    <2>1. Len(name) \in Nat \ {0}
      OBVIOUS
    <2>2. MaxNameLen \in Nat \ {0}
      BY DestinationAssumption, Zenon
    <2> QED BY <2>1, <2>2
  <1>2. last \in both /\ last <= MaxNameLen /\ last <= Len(name)
    <2>1. both \in SUBSET Nat /\ both # {} /\ Len(name) \in both /\ MaxNameLen \in both
      BY <1>1
    <2> HIDE DEF both
    <2> QED BY <2>1, Least
  <1> HIDE DEF last
  <1>3. last \in 1..Len(name)
    BY <1>1, <1>2
  <1>4. SubSeq(name, 1, last) \in Seq(Characters) /\ Len(SubSeq(name, 1, last)) = last
    BY <1>1, <1>3, PartOf
  <1>5. Cut(name) = SubSeq(name, 1, last)
    BY DEF Cut, last
  <1>6. Len(name) <= MaxNameLen => last = Len(name)
    BY <1>1, <1>2
  <1>7. SubSeq(name, 1, Len(name)) = name
    BY SubSeqFull
  <1>8. Cut(name) \in Seq(Characters) /\ Len(Cut(name)) = last /\ last # 0
    BY <1>1, <1>3, <1>4, <1>5
  <1>9. Cut(name) # <<>>
    BY <1>8
  <1> QED BY <1>2, <1>5, <1>6, <1>7, <1>8, <1>9

\* A sanitized name has at least one character.
LEMMA SanitizedName ==
    ASSUME NEW raw \in Seq(Characters)
    PROVE  Sanitize(raw) \in Seq(Characters) \ {<<>>}
  <1>1. Cleaned(raw) \in Seq(Characters) \ {<<>>}
    BY CleanedIsClean DEF Clean
  <1> QED BY <1>1, CutParts, SanitizeSteps

\* One pass can leave a space or a dot where the limit cuts; a second pass
\* removes it and cuts nothing more.
LEMMA TwiceSanitized ==
    ASSUME NEW raw \in Seq(Characters)
    PROVE  Clean(Sanitize(Sanitize(raw)))
  <1> DEFINE once == Sanitize(raw)
             again == Cleaned(once)
  <1>1. once \in Seq(Characters) \ {<<>>}
    BY SanitizedName
  <1>2. Clean(again) /\ Clean(Cleaned(raw))
    BY <1>1, CleanedIsClean
  <1>3. Sanitize(once) = IF Bytes(again) > MaxNameLen THEN Cut(again) ELSE again
    BY SanitizeSteps
  <1>4. CASE Bytes(Cleaned(raw)) > MaxNameLen
    <2>1. Len(once) <= MaxNameLen
      BY <1>2, <1>4, CutParts, SanitizeSteps DEF Clean
    <2>2. Len(again) <= MaxNameLen
      <3>1. Len(again) <= Len(once)
        BY <1>1, CleanedLen
      <3>2. Len(again) \in Nat /\ Len(once) \in Nat /\ MaxNameLen \in Nat
        <4>1. again \in Seq(Characters) /\ once \in Seq(Characters)
          BY <1>1, <1>2 DEF Clean
        <4>2. MaxNameLen \in Nat
          BY DestinationAssumption, Zenon
        <4> HIDE DEF once, again
        <4> QED BY <4>1, <4>2
      <3> HIDE DEF once, again
      <3> QED BY <2>1, <3>1, <3>2
    <2>3. Cut(again) = again
      BY <1>2, <2>2, CutParts DEF Clean
    <2> QED BY <1>2, <1>3, <2>3
  <1>5. CASE ~(Bytes(Cleaned(raw)) > MaxNameLen)
    <2>1. once = Cleaned(raw)
      BY <1>5, SanitizeSteps
    <2>2. again = once
      BY <1>2, <2>1, CleanIsKept
    <2> QED BY <1>2, <1>3, <1>5, <2>1, <2>2
  <1> QED BY <1>4, <1>5

LEMMA StemAndExtension ==
    ASSUME NEW name \in Seq(Characters) \ {<<>>}
    PROVE  /\ Stem(name) \in Seq(Characters) \ {<<>>} /\ Extension(name) \in Seq(Characters)
           /\ Len(name) = Len(Stem(name)) + Len(Extension(name))
           /\ \A i \in 1..Len(Stem(name)) : Stem(name)[i] = name[i]
           /\ \A i \in 1..Len(Extension(name)) : Extension(name)[i] = name[Len(Stem(name)) + i]
  <1> DEFINE I == {i \in 1..Len(name) : name[i] = "."}
             last == IF I # {} THEN Max(I) ELSE 0
  <1>1. Len(name) \in Nat /\ \A i \in 1..Len(name) : name[i] \in Characters
    OBVIOUS
  <1>2. last \in 0..Len(name)
    <2>1. I \in SUBSET (1..Len(name))
      OBVIOUS
    <2>2. I # {} => Max(I) \in I
      BY <1>1, <2>1, Greatest
    <2> QED BY <1>1, <2>1, <2>2
  <1>3. LastDot(name) = last
    BY DEF LastDot, SelectLastInSeq
  <1> HIDE DEF last
  <1>4. /\ Stem(name) \in Seq(Characters) /\ Len(Stem(name)) \in 1..Len(name)
        /\ \A i \in 1..Len(Stem(name)) : Stem(name)[i] = name[i]
    <2>1. CASE last <= 1
      <3>1. Stem(name) = name
        BY <1>3, <2>1 DEF Stem
      <3> QED BY <1>1, <3>1
    <2>2. CASE ~(last <= 1)
      <3>1. /\ SubSeq(name, 1, last - 1) \in Seq(Characters) /\ Len(SubSeq(name, 1, last - 1)) = last - 1
            /\ \A i \in 1..(last - 1) : SubSeq(name, 1, last - 1)[i] = name[i]
        BY <1>1, <1>2, <2>2, PartOf
      <3>2. Stem(name) = SubSeq(name, 1, last - 1)
        BY <1>3, <2>2 DEF Stem
      <3> QED BY <1>1, <1>2, <2>2, <3>1, <3>2
    <2> QED BY <2>1, <2>2
  <1>5. /\ Extension(name) \in Seq(Characters)
        /\ Len(Extension(name)) = Len(name) - Len(Stem(name))
        /\ \A i \in 1..Len(Extension(name)) : Extension(name)[i] = name[Len(Stem(name)) + i]
    <2>1. ASSUME NEW k \in 1..Len(name)
          PROVE  /\ SubSeq(name, k + 1, Len(name)) \in Seq(Characters)
                 /\ Len(SubSeq(name, k + 1, Len(name))) = Len(name) - k
                 /\ \A i \in 1..(Len(name) - k) : SubSeq(name, k + 1, Len(name))[i] = name[k + i]
      BY <1>1, PartOf
    <2> QED BY <1>4, <2>1 DEF Extension
  <1>6. Stem(name) # <<>>
    BY <1>4
  <1> QED BY <1>1, <1>4, <1>5, <1>6

\* What TLC's ToString is used for: every number has a numeral of its own, and
\* a numeral is nothing that sanitizing removes.
Numerals ==
  \A m \in Nat :
    /\ ToString(m) \in Characters \ (Separators \cup Controls)
    /\ \A n \in Nat : ToString(m) = ToString(n) => m = n

LEMMA NumberedName ==
    ASSUME Numerals, NEW name \in Seq(Characters) \ {<<>>}, NEW n \in Nat
    PROVE  /\ Numbered(name, n) \in Seq(Characters) \ {<<>>}
           /\ n = 0 => Numbered(name, n) = name
           /\ n # 0 => /\ Len(Numbered(name, n)) = Len(name) + 4
                      /\ Numbered(name, n)[Len(Stem(name)) + 3] = ToString(n)
  <1>1. CASE n = 0
    BY <1>1 DEF Numbered
  <1>2. CASE n # 0
    <2> DEFINE s == Stem(name)
               e == Extension(name)
               num == <<" ", "(", ToString(n), ")">>
    <2>1. s \in Seq(Characters) /\ e \in Seq(Characters) /\ Len(name) = Len(s) + Len(e)
      BY StemAndExtension
    <2> HIDE DEF s, e
    <2>2. ToString(n) \in Characters
      BY DEF Numerals
    <2>3. num \in Seq(Characters) /\ Len(num) = 4 /\ num[3] = ToString(n)
      <3>1. " " \in Characters /\ "(" \in Characters /\ ")" \in Characters
        BY DestinationAssumption
      <3>2. ASSUME NEW x \in Characters, NEW y \in Characters, NEW z \in Characters
            PROVE  <<x, y, ToString(n), z>> \in Seq(Characters)
        BY <2>2
      <3> QED BY <3>1, <3>2
    <2> HIDE DEF num
    <2>4. /\ s \o num \in Seq(Characters) /\ Len(s \o num) = Len(s) + 4
          /\ (s \o num)[Len(s) + 3] = num[3]
      <3>1. Len(s) \in Nat /\ 3 \in 1..Len(num)
        BY <2>1, <2>3
      <3>2. \A i \in 1..Len(num) : (s \o num)[Len(s) + i] = num[i]
        BY <2>1, <2>3, JoinedParts, Zenon
      <3>3. s \o num \in Seq(Characters) /\ Len(s \o num) = Len(s) + Len(num)
        BY <2>1, <2>3, JoinedParts, Zenon
      <3> QED BY <2>3, <3>1, <3>2, <3>3
    <2>5. /\ (s \o num) \o e \in Seq(Characters) /\ Len((s \o num) \o e) = Len(s) + 4 + Len(e)
          /\ ((s \o num) \o e)[Len(s) + 3] = num[3]
      BY <2>1, <2>4, ConcatProperties
    <2>6. Numbered(name, n) = (s \o num) \o e
      BY <1>2 DEF Numbered, s, num, e
    <2> QED BY <1>2, <2>1, <2>3, <2>5, <2>6 DEF s
  <1> QED BY <1>1, <1>2

LEMMA NumbersDiffer ==
    ASSUME Numerals, NEW name \in Seq(Characters) \ {<<>>}, NEW m \in Nat, NEW n \in Nat,
           Numbered(name, m) = Numbered(name, n)
    PROVE  m = n
  <1>1. Len(name) \in Nat
    OBVIOUS
  <1>2. m = 0 <=> n = 0
    BY <1>1, NumberedName
  <1>3. m # 0 /\ n # 0 => ToString(m) = ToString(n)
    <2> DEFINE k == Len(Stem(name)) + 3
    <2>1. m # 0 => Numbered(name, m)[k] = ToString(m)
      BY NumberedName, Zenon
    <2>2. n # 0 => Numbered(name, n)[k] = ToString(n)
      BY NumberedName, Zenon
    <2> QED BY <2>1, <2>2, Zenon
  <1> QED BY <1>2, <1>3 DEF Numerals

\* The number goes between characters that are clean already.
LEMMA NumberedClean ==
    ASSUME Numerals, NEW name, Clean(name), NEW n \in Nat
    PROVE  Clean(Numbered(name, n))
  <1>1. CASE n = 0
    BY <1>1 DEF Numbered
  <1>2. CASE n # 0
    <2> DEFINE s == Stem(name)
               e == Extension(name)
               num == <<" ", "(", ToString(n), ")">>
               head == s \o num
               all == head \o e
               Bad == Separators \cup Controls
    <2>1. name \in Seq(Characters) \ {<<>>} /\ Len(name) \in Nat \ {0}
      BY DEF Clean
    <2>2. /\ s \in Seq(Characters) \ {<<>>} /\ e \in Seq(Characters) /\ Len(name) = Len(s) + Len(e)
          /\ \A i \in 1..Len(s) : s[i] = name[i]
          /\ \A i \in 1..Len(e) : e[i] = name[Len(s) + i]
      BY <2>1, StemAndExtension
    <2>3. \A i \in 1..Len(name) : name[i] \notin Bad
      BY DEF Clean
    <2>4. name[1] \notin Edges /\ name[Len(name)] \notin Edges
      BY DEF Clean
    <2>5. all = Numbered(name, n)
      BY <1>2 DEF Numbered
    <2>6. /\ Numbered(name, n) \in Seq(Characters) \ {<<>>} /\ num \in Seq(Characters)
      <3>1. " " \in Characters /\ "(" \in Characters /\ ")" \in Characters
        BY DestinationAssumption
      <3>2. ToString(n) \in Characters
        BY DEF Numerals
      <3>3. ASSUME NEW x \in Characters, NEW y \in Characters, NEW z \in Characters
            PROVE  <<x, y, ToString(n), z>> \in Seq(Characters)
        BY <3>2
      <3>4. num \in Seq(Characters)
        BY <3>1, <3>3
      <3>5. Numbered(name, n) \in Seq(Characters) \ {<<>>}
        BY <2>1, NumberedName
      <3> QED BY <3>4, <3>5
    <2>7. Len(num) = 4 /\ num[4] = ")" /\ \A i \in 1..4 : num[i] \notin Bad
      <3>1. \A x : x \in {" ", "(", ")"} => x \notin Bad
        BY DEF Separators, Controls
      <3>2. ToString(n) \notin Bad
        BY DEF Numerals
      <3>3. num[1] = " " /\ num[2] = "(" /\ num[3] = ToString(n) /\ num[4] = ")" /\ Len(num) = 4
        OBVIOUS
      <3>4. \A i \in 1..4 : i = 1 \/ i = 2 \/ i = 3 \/ i = 4
        OBVIOUS
      <3> HIDE DEF Bad, num
      <3> QED BY <3>1, <3>2, <3>3, <3>4
    <2>8. Len(s) \in Nat \ {0} /\ Len(e) \in Nat
      BY <2>2
    <2> HIDE DEF s, e, num, Bad
    <2>9. /\ head \in Seq(Characters) /\ Len(head) = Len(s) + 4
          /\ \A i \in 1..Len(s) : head[i] = s[i]
          /\ \A i \in 1..4 : head[Len(s) + i] = num[i]
      <3>1. /\ s \o num \in Seq(Characters) /\ Len(s \o num) = Len(s) + Len(num)
            /\ \A i \in 1..Len(s) : (s \o num)[i] = s[i]
            /\ \A i \in 1..Len(num) : (s \o num)[Len(s) + i] = num[i]
        BY <2>2, <2>6, JoinedParts
      <3>2. Len(num) = 4
        BY <2>7
      <3> QED BY <3>1, <3>2
    <2> HIDE DEF head
    <2>10. /\ Len(all) = Len(s) + 4 + Len(e)
           /\ \A i \in 1..(Len(s) + 4) : all[i] = head[i]
           /\ \A i \in 1..Len(e) : all[Len(s) + 4 + i] = e[i]
      <3>1. /\ Len(head \o e) = Len(head) + Len(e)
            /\ \A i \in 1..Len(head) : (head \o e)[i] = head[i]
            /\ \A i \in 1..Len(e) : (head \o e)[Len(head) + i] = e[i]
        BY <2>2, <2>9, JoinedParts
      <3>2. Len(head) = Len(s) + 4
        BY <2>9
      <3> QED BY <3>1, <3>2
    <2> HIDE DEF all
    <2>11. ASSUME NEW i \in 1..Len(all) PROVE all[i] \notin Bad
      <3>1. CASE i <= Len(s)
        <4>1. i \in 1..Len(s) /\ i \in 1..(Len(s) + 4) /\ i \in 1..Len(name)
          BY <2>2, <2>8, <3>1, <2>10
        <4> QED BY <4>1, <2>2, <2>3, <2>9, <2>10
      <3>2. CASE Len(s) < i /\ i <= Len(s) + 4
        <4>1. i - Len(s) \in 1..4 /\ Len(s) + (i - Len(s)) = i /\ i \in 1..(Len(s) + 4)
          BY <2>8, <2>10, <3>2
        <4>2. head[i] = num[i - Len(s)]
          BY <2>9, <4>1
        <4> QED BY <4>1, <4>2, <2>7, <2>10
      <3>3. CASE Len(s) + 4 < i
        <4> DEFINE j == i - Len(s) - 4
        <4>1. j \in 1..Len(e) /\ Len(s) + 4 + j = i /\ Len(s) + j \in 1..Len(name)
          BY <2>2, <2>8, <2>10, <3>3
        <4> HIDE DEF j
        <4>2. all[i] = e[j] /\ e[j] = name[Len(s) + j]
          BY <2>2, <2>10, <4>1
        <4> QED BY <2>3, <4>1, <4>2
      <3> QED BY <2>8, <2>10, <3>1, <3>2, <3>3
    <2>12. all[1] \notin Edges
      <3>1. 1 \in 1..Len(s) /\ 1 \in 1..(Len(s) + 4)
        BY <2>8
      <3> QED BY <2>2, <2>4, <2>9, <2>10, <3>1
    <2>13. all[Len(all)] \notin Edges
      <3>1. CASE Len(e) = 0
        <4>1. Len(all) = Len(s) + 4 /\ Len(s) + 4 \in 1..(Len(s) + 4) /\ 4 \in 1..4
          BY <2>8, <2>10, <3>1
        <4>2. all[Len(all)] = ")"
          BY <2>7, <2>9, <2>10, <4>1
        <4> QED BY <4>2 DEF Edges
      <3>2. CASE Len(e) # 0
        <4>1. Len(e) \in 1..Len(e) /\ Len(all) = Len(s) + 4 + Len(e)
          BY <2>8, <2>10, <3>2
        <4> QED BY <2>2, <2>4, <2>10, <4>1
      <3> QED BY <3>1, <3>2
    <2> QED BY <2>5, <2>6, <2>11, <2>12, <2>13 DEF Clean, Bad
  <1> QED BY <1>1, <1>2

\* A clean name under the limit is its own sanitized form.
LEMMA CleanFits ==
    ASSUME NEW name, Clean(name), Len(name) <= MaxNameLen
    PROVE  Sanitize(name) = name
  <1>1. Cleaned(name) = name /\ name \in Seq(Characters) \ {<<>>}
    BY CleanIsKept DEF Clean
  <1>2. Cut(name) = name
    BY <1>1, CutParts
  <1> QED BY <1>1, <1>2, SanitizeSteps

\* Whatever is taken, one of the numbers that are tried is free.
LEMMA ResolvedFree ==
    ASSUME Numerals, NEW name \in Seq(Characters) \ {<<>>}, NEW taken, IsFiniteSet(taken)
    PROVE  /\ ResolveNonColliding(name, taken) \in Seq(Characters) \ {<<>>}
           /\ ResolveNonColliding(name, taken) \notin taken
           /\ \E n \in Nat : ResolveNonColliding(name, taken) = Numbered(name, n)
  <1> DEFINE C == Cardinality(taken)
             free == {n \in 0..C : Numbered(name, n) \notin taken}
  <1>1. C \in Nat
    BY FS_CardinalityType
  <1>2. free # {}
    <2>1. SUFFICES ASSUME \A n \in 0..C : Numbered(name, n) \in taken
                   PROVE  FALSE
      OBVIOUS
    <2> DEFINE f == [n \in 0..C |-> Numbered(name, n)]
    <2>2. f \in [0..C -> taken]
      BY <2>1
    <2>3. IsFiniteSet(0..C) /\ Cardinality(0..C) = C + 1
      BY <1>1, FS_Interval
    <2>4. PICK m \in 0..C, n \in 0..C : m # n /\ f[m] = f[n]
      <3>1. Cardinality(taken) < Cardinality(0..C)
        BY <1>1, <2>3
      <3> DEFINE S == 0..C
      <3>2. IsFiniteSet(S) /\ Cardinality(taken) < Cardinality(S) /\ f \in [S -> taken]
        BY <2>2, <2>3, <3>1
      <3> HIDE DEF f, C, S
      <3>3. \E m, n \in S : m # n /\ f[m] = f[n]
        BY <3>2, FS_PigeonHole
      <3> QED BY <3>3 DEF S
    <2> QED BY <1>1, <2>4, NumbersDiffer
  <1>3. free \in SUBSET Nat
    BY <1>1
  <1>4. Min(free) \in free
    BY <1>2, <1>3, Least
  <1> DEFINE n == Min(free)
  <1>5. n \in Nat /\ Numbered(name, n) \notin taken
    BY <1>3, <1>4
  <1>6. ResolveNonColliding(name, taken) = Numbered(name, n)
    BY DEF ResolveNonColliding
  <1> HIDE DEF n
  <1> QED BY <1>5, <1>6, NumberedName

-----------------------------------------------------------------------------
(* The two maps of the folder.                                             *)

\* f maps finitely many names to members of T.
Folder(f, T) == IsFiniteSet(DOMAIN f) /\ \A x \in DOMAIN f : f[x] \in T

LEMMA FolderWith ==
    ASSUME NEW T, NEW f, Folder(f, T), NEW name, NEW value \in T
    PROVE  Folder(With(f, name, value), T)
  <1>1. IsFiniteSet(DOMAIN f \cup {name})
    BY FS_AddElement DEF Folder
  <1>2. \A x \in DOMAIN With(f, name, value) : With(f, name, value)[x] \in T
    BY DEF With, Folder
  <1>3. DOMAIN With(f, name, value) = DOMAIN f \cup {name}
    BY DEF With
  <1> QED BY <1>1, <1>2, <1>3 DEF Folder

LEMMA FolderWithout ==
    ASSUME NEW T, NEW f, Folder(f, T), NEW name
    PROVE  Folder(Without(f, name), T)
  <1>1. IsFiniteSet(DOMAIN f \ {name})
    BY FS_RemoveElement DEF Folder
  <1>2. \A x \in DOMAIN Without(f, name) : Without(f, name)[x] \in T
    BY DEF Without, Folder
  <1> QED BY <1>1, <1>2 DEF Without, Folder

-----------------------------------------------------------------------------
(* Types.                                                                  *)

Row == [state : States, name : Seq(Characters)]
Held == [state : {"none", "held", "cleaned"}, name : Seq(Characters)]
Writers == SUBSET (Tasks \cup {"firefox", "other"})

RowsShaped == row \in [Tasks -> Row] /\ \A t \in Tasks : Exists(t) <=> row[t].name # <<>>

\* The part of TypeOK that no fault can break, and that the maps are finite.
Shaped ==
  /\ RowsShaped
  /\ browser \in [Tasks -> Held]
  /\ Folder(disk, Writers) /\ Folder(control, Tasks)
  /\ outside \in 0..MaxOutside

LEMMA ClaimedFinite == IsFiniteSet(Claimed)
  <1> DEFINE U == {u \in Tasks : Exists(u)}
             f == [u \in U |-> row[u].name]
  <1>1. IsFiniteSet(U)
    BY DestinationAssumption, FS_Subset
  <1>2. f \in Surjection(U, Claimed)
    BY DEF Surjection, Claimed
  <1> QED BY <1>1, <1>2, FS_Surjection

\* What an accepted request adds: a waiting task under a name that is free.
Added(t, name) ==
  /\ row[t].state = "unused"
  /\ Clean(name)
  /\ name \notin DOMAIN disk \cup DOMAIN control
  /\ ~ListFails => name \notin Claimed
  /\ row' = [row EXCEPT ![t] = [state |-> "waiting", name |-> name]]
  /\ UNCHANGED <<disk, control, browser, outside>>

LEMMA CreateAdds ==
    ASSUME Numerals, Shaped, NEW t \in Tasks, NEW raw \in Seq(Characters), NEW browserNames,
           IsFiniteSet(browserNames), Create(t, Sanitize(raw), browserNames)
    PROVE  \E name : Added(t, name) /\ name \notin browserNames
  <1>1. PICK reserved \in ReservedPaths :
          /\ row[t].state = "unused"
          /\ row' = [row EXCEPT ![t] =
               [state |-> "waiting",
                name |-> ResolveNonColliding(Sanitize(Sanitize(raw)), Taken(reserved \cup browserNames))]]
          /\ UNCHANGED <<disk, control, browser, outside>>
    BY DEF Create
  <1> DEFINE taken == Taken(reserved \cup browserNames)
             name == ResolveNonColliding(Sanitize(Sanitize(raw)), taken)
  <1>2. IsFiniteSet(reserved) /\ (~ListFails => reserved = Claimed)
    BY ClaimedFinite, FS_EmptySet DEF ReservedPaths
  <1>3. IsFiniteSet(taken)
    BY <1>2, FS_Union DEF Taken, Shaped, Folder
  <1>4. Clean(name) /\ name \notin taken
    <2>1. Clean(Sanitize(Sanitize(raw))) /\ Sanitize(Sanitize(raw)) \in Seq(Characters) \ {<<>>}
      BY TwiceSanitized DEF Clean
    <2> QED BY <1>3, <2>1, ResolvedFree, NumberedClean
  <1> QED BY <1>1, <1>2, <1>4 DEF Added, Taken

LEMMA RequestAdds ==
    ASSUME Numerals, Shaped, NEW t \in Tasks,
           AddManual(t) \/ AddHandoff(t) \/ RetryWithNewUrl(t)
    PROVE  \E name : Added(t, name)
             /\ (browser[t].state = "held" => name # Sanitize(browser[t].name))
  <1>1. CASE AddManual(t)
    <2>1. PICK raw \in RawNames : Create(t, Sanitize(raw), {})
      BY <1>1 DEF AddManual
    <2>2. raw \in Seq(Characters)
      BY DestinationAssumption
    <2> QED BY <1>1, <2>1, <2>2, CreateAdds, FS_EmptySet DEF AddManual
  <1>2. CASE AddHandoff(t)
    <2> DEFINE filename == Sanitize(browser[t].name)
    <2>1. browser[t].name \in Seq(Characters)
      BY DEF Shaped, Held
    <2>2. IsFiniteSet({filename})
      BY FS_Singleton
    <2>3. Create(t, filename, {filename})
      BY <1>2 DEF AddHandoff
    <2> QED BY <2>1, <2>2, <2>3, CreateAdds
  <1>3. CASE RetryWithNewUrl(t)
    <2>1. PICK old \in Tasks : Exists(old) /\ Create(t, Sanitize(row[old].name), {})
      BY <1>3 DEF RetryWithNewUrl
    <2>2. row[old].name \in Seq(Characters)
      BY DEF Shaped, RowsShaped, Row
    <2> QED BY <1>3, <2>1, <2>2, CreateAdds, FS_EmptySet DEF RetryWithNewUrl
  <1> QED BY <1>1, <1>2, <1>3

LEMMA RowPut ==
    ASSUME RowsShaped, NEW t \in Tasks, NEW r \in Row,
           r.state \notin {"unused", "removed"} <=> r.name # <<>>,
           row' = [row EXCEPT ![t] = r]
    PROVE  RowsShaped'
  BY DEF RowsShaped, Exists

LEMMA RowMoves ==
    ASSUME RowsShaped, NEW t \in Tasks, Exists(t), NEW state \in {"waiting", "active", "done", "failed"},
           row' = [row EXCEPT ![t].state = state]
    PROVE  RowsShaped'
  <1>1. row' \in [Tasks -> Row]
    BY DEF RowsShaped, Row, States
  <1>2. \A u \in Tasks : row'[u].name = row[u].name /\ (Exists(u)' <=> Exists(u))
    BY DEF RowsShaped, Row, Exists
  <1> QED BY <1>1, <1>2 DEF RowsShaped

LEMMA ShapedStep ==
    ASSUME Numerals, Shaped, [Next]_vars
    PROVE  Shaped'
  <1>1. ASSUME NEW t \in Tasks, AddManual(t) \/ AddHandoff(t) \/ RetryWithNewUrl(t)
        PROVE  Shaped'
    <2>1. PICK name : Added(t, name)
      BY <1>1, RequestAdds
    <2> DEFINE r == [state |-> "waiting", name |-> name]
    <2>2. r \in Row /\ r.name # <<>> /\ row' = [row EXCEPT ![t] = r]
      BY <2>1 DEF Added, Clean, Row, States
    <2>3. RowsShaped'
      BY <2>2, RowPut DEF Shaped
    <2> QED BY <2>1, <2>3 DEF Added, Shaped
  <1>2. ASSUME NEW t \in Tasks, Retry(t) \/ EngineStops(t)
        PROVE  Shaped'
    <2>1. /\ \E state \in {"waiting", "failed"} : row' = [row EXCEPT ![t].state = state]
          /\ Exists(t) /\ UNCHANGED <<disk, control, browser, outside>>
      BY <1>2 DEF Retry, EngineStops, Exists
    <2> QED BY <2>1, RowMoves DEF Shaped
  <1>3. ASSUME NEW t \in Tasks, RemoveFromHistory(t)
        PROVE  Shaped'
    <2>1. Removed \in Row
      BY DEF Removed, Row, States
    <2> QED BY <1>3, <2>1, RowPut DEF RemoveFromHistory, Removed, Shaped
  <1>4. ASSUME NEW t \in Tasks, DeleteFile(t)
        PROVE  Shaped'
    <2>1. /\ row' \in {row, [row EXCEPT ![t] = Removed]}
          /\ control' \in {control, Without(control, row[t].name)}
          /\ disk' = Without(disk, row[t].name)
          /\ UNCHANGED <<browser, outside>>
      BY <1>4 DEF DeleteFile
    <2>2. Removed \in Row
      BY DEF Removed, Row, States
    <2>3. RowsShaped'
      <3>1. CASE row' = row
        BY <3>1 DEF Shaped, RowsShaped, Exists
      <3>2. CASE row' = [row EXCEPT ![t] = Removed]
        BY <2>2, <3>2, RowPut DEF Removed, Shaped
      <3> QED BY <2>1, <3>1, <3>2
    <2> QED BY <2>1, <2>3, FolderWithout DEF Shaped
  <1>5. ASSUME NEW t \in Tasks, EngineOpens(t)
        PROVE  Shaped'
    <2> DEFINE name == row[t].name
               before == IF name \in DOMAIN disk THEN disk[name] ELSE {}
               whose == IF name \in DOMAIN control THEN control[name] ELSE t
    <2>1. /\ row[t].state = "waiting" /\ row' = [row EXCEPT ![t].state = "active"]
          /\ disk' = With(disk, name, before \cup {t})
          /\ control' = With(control, name, whose)
          /\ UNCHANGED <<browser, outside>>
      BY <1>5 DEF EngineOpens
    <2>2. RowsShaped'
      BY <2>1, RowMoves DEF Shaped, Exists
    <2>3. before \cup {t} \in Writers /\ whose \in Tasks
      BY DEF Shaped, Folder, Writers
    <2> QED BY <2>1, <2>2, <2>3, FolderWith DEF Shaped
  <1>6. ASSUME NEW t \in Tasks, EngineFinishes(t)
        PROVE  Shaped'
    <2>1. RowsShaped'
      BY <1>6, RowMoves DEF EngineFinishes, Shaped, Exists
    <2> QED BY <1>6, <2>1, FolderWithout DEF EngineFinishes, Shaped
  <1>7. ASSUME NEW t \in Tasks, FirefoxStarts(t)
        PROVE  Shaped'
    <2>1. PICK raw \in RawNames :
            LET name == Sanitize(raw) IN
            /\ browser' = [browser EXCEPT ![t] = [state |-> "held", name |-> name]]
            /\ disk' = With(disk, name, {"firefox"})
      BY <1>7 DEF FirefoxStarts
    <2>2. Sanitize(raw) \in Seq(Characters) /\ {"firefox"} \in Writers
      BY SanitizedName, DestinationAssumption DEF Writers
    <2>3. browser' \in [Tasks -> Held]
      BY <2>1, <2>2 DEF Shaped, Held
    <2> QED BY <1>7, <2>1, <2>2, <2>3, FolderWith DEF FirefoxStarts, Shaped, RowsShaped, Exists
  <1>8. ASSUME NEW t \in Tasks, FirefoxPauses(t) \/ FirefoxCleans(t)
        PROVE  Shaped'
    <2>1. disk' = Without(disk, browser[t].name) /\ UNCHANGED <<row, control, outside>>
      BY <1>8 DEF FirefoxPauses, FirefoxCleans
    <2>2. browser' \in {browser, [browser EXCEPT ![t] = [state |-> "cleaned", name |-> <<>>]]}
      BY <1>8 DEF FirefoxPauses, FirefoxCleans
    <2>3. [state |-> "cleaned", name |-> <<>>] \in Held
      BY DEF Held
    <2>4. browser' \in [Tasks -> Held]
      BY <2>2, <2>3 DEF Shaped
    <2> QED BY <2>1, <2>4, FolderWithout DEF Shaped, RowsShaped, Exists
  <1>9. ASSUME NEW name, OtherCreates(name) \/ OtherRemoves(name)
        PROVE  Shaped'
    <2>1. /\ disk' = With(disk, name, {"other"}) \/ disk' = Without(disk, name)
          /\ UNCHANGED <<row, control, browser>>
          /\ outside < MaxOutside /\ outside' = outside + 1
      BY <1>9 DEF OtherCreates, OtherRemoves
    <2>2. outside' \in 0..MaxOutside
      <3>1. MaxOutside \in Nat /\ outside \in 0..MaxOutside
        BY DestinationAssumption DEF Shaped
      <3> QED BY <2>1, <3>1
    <2>3. {"other"} \in Writers
      BY DEF Writers
    <2>4. Folder(disk', Writers)
      BY <2>1, <2>3, FolderWith, FolderWithout DEF Shaped
    <2> QED BY <2>1, <2>2, <2>4 DEF Shaped, RowsShaped, Exists
  <1>10. CASE UNCHANGED vars
    BY <1>10 DEF vars, Shaped, RowsShaped, Exists
  <1> QED
    BY <1>1, <1>2, <1>3, <1>4, <1>5, <1>6, <1>7, <1>8, <1>9, <1>10 DEF Next, Service, Outside

-----------------------------------------------------------------------------
(* Paths.                                                                  *)

\* Two tasks that exist have two names, a control file is there while its task
\* is active, and none is once the task is done.
Apart ==
  /\ \A t, u \in Tasks : t # u /\ Exists(t) /\ Exists(u) => row[t].name # row[u].name
  /\ \A t \in Tasks :
       /\ row[t].state = "active" => row[t].name \in DOMAIN control
       /\ row[t].state = "done" => row[t].name \notin DOMAIN control

\* What lies under the name of a task is the task's own.
Owns ==
  \A t \in Tasks : Exists(t) =>
    /\ row[t].name \in DOMAIN disk => disk[row[t].name] = {t}
    /\ row[t].name \in DOMAIN control => control[row[t].name] = t

LEMMA AddedParts ==
    ASSUME Shaped, NEW t \in Tasks, NEW name, Added(t, name)
    PROVE  /\ Exists(t)' /\ row'[t].name = name /\ row'[t].state = "waiting"
           /\ \A u \in Tasks : u # t => row'[u] = row[u] /\ (Exists(u)' <=> Exists(u))
           /\ ~ListFails => \A u \in Tasks : Exists(u) => row[u].name # name
           /\ UNCHANGED <<disk, control>>
  BY DEF Added, Shaped, RowsShaped, Row, Exists, Claimed

\* A row that is moved on or removed keeps its name or gives it up.
LEMMA MovedParts ==
    ASSUME Shaped, NEW t \in Tasks, NEW state \in States, Exists(t),
           row' = [row EXCEPT ![t].state = state]
    PROVE  /\ row'[t].name = row[t].name /\ row'[t].state = state
           /\ \A u \in Tasks : u # t => row'[u] = row[u]
           /\ \A u \in Tasks : Exists(u)' => Exists(u) /\ row'[u].name = row[u].name
  BY DEF Shaped, RowsShaped, Row, Exists

LEMMA RemovedParts ==
    ASSUME Shaped, NEW t \in Tasks, row' = [row EXCEPT ![t] = Removed]
    PROVE  /\ ~Exists(t)'
           /\ \A u \in Tasks : u # t => row'[u] = row[u] /\ (Exists(u)' <=> Exists(u))
           /\ \A u \in Tasks : Exists(u)' => Exists(u) /\ row'[u].name = row[u].name
  BY DEF Shaped, RowsShaped, Row, Exists, Removed

LEMMA ApartStep ==
    ASSUME Numerals, ~ListFails, Shaped, Apart, [Next]_vars
    PROVE  Apart'
  <1>1. ASSUME NEW t \in Tasks, AddManual(t) \/ AddHandoff(t) \/ RetryWithNewUrl(t)
        PROVE  Apart'
    <2>1. PICK name : Added(t, name)
      BY <1>1, RequestAdds
    <2> QED BY <2>1, AddedParts DEF Apart
  <1>2. ASSUME NEW t \in Tasks, Retry(t) \/ EngineStops(t)
        PROVE  Apart'
    <2>1. PICK state \in {"waiting", "failed"} : row' = [row EXCEPT ![t].state = state]
      BY <1>2 DEF Retry, EngineStops
    <2>2. Exists(t) /\ control' = control /\ state \in States
      BY <1>2 DEF Retry, EngineStops, Exists, States
    <2>3. /\ row'[t].state = state
          /\ \A u \in Tasks : u # t => row'[u] = row[u]
          /\ \A u \in Tasks : Exists(u)' => Exists(u) /\ row'[u].name = row[u].name
      BY <2>1, <2>2, MovedParts
    <2> QED BY <2>2, <2>3 DEF Apart
  <1>3. ASSUME NEW t \in Tasks, RemoveFromHistory(t)
        PROVE  Apart'
    <2>1. row' = [row EXCEPT ![t] = Removed] /\ control' = control
      BY <1>3 DEF RemoveFromHistory
    <2>2. row'[t].state = "removed"
      BY <2>1 DEF Shaped, RowsShaped, Removed
    <2>3. /\ \A u \in Tasks : u # t => row'[u] = row[u]
          /\ \A u \in Tasks : Exists(u)' => Exists(u) /\ row'[u].name = row[u].name
      BY <2>1, RemovedParts
    <2> QED BY <2>1, <2>2, <2>3 DEF Apart
  <1>4. ASSUME NEW t \in Tasks, DeleteFile(t)
        PROVE  Apart'
    <2>1. Terminal(t) /\ Exists(t)
      BY <1>4 DEF DeleteFile, Terminal, Exists
    <2>2. CASE UNCHANGED <<control, row>>
      BY <2>2 DEF Apart, Exists
    <2>3. CASE control' = Without(control, row[t].name) /\ row' \in {row, [row EXCEPT ![t] = Removed]}
      <3>1. \A u \in Tasks : row[u].state = "active" => row[u].name \in DOMAIN control'
        BY <2>1, <2>3 DEF Without, Apart, Exists, Terminal
      <3>2. \A u \in Tasks : row[u].state = "done" => row[u].name \notin DOMAIN control'
        BY <2>3 DEF Without, Apart
      <3>3. CASE row' = row
        BY <3>1, <3>2, <3>3 DEF Apart, Exists
      <3>4. CASE row' = [row EXCEPT ![t] = Removed]
        <4>1. row'[t].state = "removed"
          BY <3>4 DEF Shaped, RowsShaped, Removed
        <4>2. /\ \A u \in Tasks : u # t => row'[u] = row[u]
              /\ \A u \in Tasks : Exists(u)' => Exists(u) /\ row'[u].name = row[u].name
          BY <3>4, RemovedParts
        <4> QED BY <3>1, <3>2, <4>1, <4>2 DEF Apart
      <3> QED BY <2>3, <3>3, <3>4
    <2> QED BY <1>4, <2>2, <2>3 DEF DeleteFile
  <1>5. ASSUME NEW t \in Tasks, EngineOpens(t)
        PROVE  Apart'
    <2>1. /\ Exists(t) /\ row' = [row EXCEPT ![t].state = "active"] /\ "active" \in States
          /\ DOMAIN control' = DOMAIN control \cup {row[t].name}
      BY <1>5 DEF With, EngineOpens, Exists, States
    <2>2. /\ row'[t].state = "active"
          /\ \A u \in Tasks : u # t => row'[u] = row[u]
          /\ \A u \in Tasks : Exists(u)' => Exists(u) /\ row'[u].name = row[u].name
      BY <2>1, MovedParts
    <2> QED BY <2>1, <2>2 DEF Apart, Exists
  <1>6. ASSUME NEW t \in Tasks, EngineFinishes(t)
        PROVE  Apart'
    <2>1. /\ Exists(t) /\ row' = [row EXCEPT ![t].state = "done"] /\ "done" \in States
          /\ DOMAIN control' = DOMAIN control \ {row[t].name}
      BY <1>6 DEF Without, EngineFinishes, Exists, States
    <2>2. /\ row'[t].state = "done"
          /\ \A u \in Tasks : u # t => row'[u] = row[u]
          /\ \A u \in Tasks : Exists(u)' => Exists(u) /\ row'[u].name = row[u].name
      BY <2>1, MovedParts
    <2> QED BY <2>1, <2>2 DEF Apart, Exists
  <1>7. ASSUME NEW t \in Tasks, FirefoxStarts(t) \/ FirefoxPauses(t) \/ FirefoxCleans(t)
        PROVE  Apart'
    BY <1>7 DEF FirefoxStarts, FirefoxPauses, FirefoxCleans, Apart, Exists
  <1>8. ASSUME NEW name, OtherCreates(name) \/ OtherRemoves(name)
        PROVE  Apart'
    BY <1>8 DEF OtherCreates, OtherRemoves, Apart, Exists
  <1>9. CASE UNCHANGED vars
    BY <1>9 DEF vars, Apart, Exists
  <1> QED BY <1>1, <1>2, <1>3, <1>4, <1>5, <1>6, <1>7, <1>8, <1>9 DEF Next, Service, Outside

\* Rows that keep their names, and files that stay as they are or go.
LEMMA OwnsLess ==
    ASSUME Owns,
           \A u \in Tasks : Exists(u)' => Exists(u) /\ row'[u].name = row[u].name,
           \A x \in DOMAIN disk' : x \in DOMAIN disk /\ disk'[x] = disk[x],
           \A x \in DOMAIN control' : x \in DOMAIN control /\ control'[x] = control[x]
    PROVE  Owns'
  BY DEF Owns

LEMMA OwnsStep ==
    ASSUME Numerals, ~ListFails, ~Intruders, Shaped, Apart, Owns, [Next]_vars
    PROVE  Owns'
  <1>1. ASSUME NEW t \in Tasks, AddManual(t) \/ AddHandoff(t) \/ RetryWithNewUrl(t)
        PROVE  Owns'
    <2>1. PICK name : Added(t, name)
      BY <1>1, RequestAdds
    <2>2. name \notin DOMAIN disk /\ name \notin DOMAIN control
      BY <2>1 DEF Added
    <2> QED BY <2>1, <2>2, AddedParts DEF Owns
  <1>2. ASSUME NEW t \in Tasks, Retry(t) \/ EngineStops(t)
        PROVE  Owns'
    <2>1. PICK state \in {"waiting", "failed"} : row' = [row EXCEPT ![t].state = state]
      BY <1>2 DEF Retry, EngineStops
    <2>2. Exists(t) /\ UNCHANGED <<disk, control>> /\ state \in States
      BY <1>2 DEF Retry, EngineStops, Exists, States
    <2> QED BY <2>1, <2>2, MovedParts, OwnsLess
  <1>3. ASSUME NEW t \in Tasks, RemoveFromHistory(t)
        PROVE  Owns'
    BY <1>3, RemovedParts, OwnsLess DEF RemoveFromHistory
  <1>4. ASSUME NEW t \in Tasks, DeleteFile(t)
        PROVE  Owns'
    <2>1. /\ row' \in {row, [row EXCEPT ![t] = Removed]}
          /\ control' \in {control, Without(control, row[t].name)}
          /\ disk' = Without(disk, row[t].name)
      BY <1>4 DEF DeleteFile
    <2>2. \A u \in Tasks : Exists(u)' => Exists(u) /\ row'[u].name = row[u].name
      BY <2>1, RemovedParts DEF Exists
    <2>3. \A x \in DOMAIN disk' : x \in DOMAIN disk /\ disk'[x] = disk[x]
      BY <2>1 DEF Without
    <2>4. \A x \in DOMAIN control' : x \in DOMAIN control /\ control'[x] = control[x]
      BY <2>1 DEF Without
    <2> QED BY <2>2, <2>3, <2>4, OwnsLess
  <1>5. ASSUME NEW t \in Tasks, EngineOpens(t)
        PROVE  Owns'
    <2> DEFINE name == row[t].name
               before == IF name \in DOMAIN disk THEN disk[name] ELSE {}
               whose == IF name \in DOMAIN control THEN control[name] ELSE t
    <2>1. /\ Exists(t) /\ row' = [row EXCEPT ![t].state = "active"] /\ "active" \in States
          /\ disk' = With(disk, name, before \cup {t})
          /\ control' = With(control, name, whose)
      BY <1>5 DEF EngineOpens, Exists, States
    <2>2. before \cup {t} = {t} /\ whose = t
      BY <2>1 DEF Owns
    <2>3. \A u \in Tasks : Exists(u)' => Exists(u) /\ row'[u].name = row[u].name
      BY <2>1, MovedParts
    <2>4. /\ disk' = With(disk, name, {t}) /\ control' = With(control, name, t)
      BY <2>1, <2>2
    <2>5. /\ disk'[name] = {t} /\ control'[name] = t
          /\ \A x \in DOMAIN disk' : x # name => x \in DOMAIN disk /\ disk'[x] = disk[x]
          /\ \A x \in DOMAIN control' : x # name => x \in DOMAIN control /\ control'[x] = control[x]
      <3> HIDE DEF name
      <3> QED BY <2>4 DEF With
    <2>6. \A u \in Tasks : u # t /\ Exists(u) => row[u].name # name
      BY <2>1 DEF Apart
    <2> HIDE DEF name
    <2> QED BY <2>3, <2>5, <2>6 DEF Owns, name
  <1>6. ASSUME NEW t \in Tasks, EngineFinishes(t)
        PROVE  Owns'
    <2>1. /\ Exists(t) /\ row' = [row EXCEPT ![t].state = "done"] /\ "done" \in States
          /\ disk' = disk /\ control' = Without(control, row[t].name)
      BY <1>6 DEF EngineFinishes, Exists, States
    <2>2. \A x \in DOMAIN control' : x \in DOMAIN control /\ control'[x] = control[x]
      BY <2>1 DEF Without
    <2> QED BY <2>1, <2>2, MovedParts, OwnsLess
  <1>7. ASSUME NEW name, NEW who, FreeOnDisk(name), disk' = With(disk, name, who), UNCHANGED <<row, control>>
        PROVE  Owns'
    <2>1. \A u \in Tasks : Exists(u) => row[u].name # name
      BY <1>7 DEF FreeOnDisk, Claimed
    <2>2. \A x \in DOMAIN disk' : x # name => x \in DOMAIN disk /\ disk'[x] = disk[x]
      BY <1>7 DEF With
    <2> QED BY <1>7, <2>1, <2>2 DEF Owns, Exists
  <1>8. ASSUME NEW name, disk' = Without(disk, name), UNCHANGED <<row, control>>
        PROVE  Owns'
    <2>1. \A x \in DOMAIN disk' : x \in DOMAIN disk /\ disk'[x] = disk[x]
      BY <1>8 DEF Without
    <2> QED BY <1>8, <2>1 DEF Owns, Exists
  <1>9. ASSUME NEW t \in Tasks, FirefoxStarts(t) \/ FirefoxPauses(t) \/ FirefoxCleans(t)
        PROVE  Owns'
    BY <1>7, <1>8, <1>9 DEF FirefoxStarts, FirefoxPauses, FirefoxCleans
  <1>10. ASSUME NEW name, OtherCreates(name) \/ OtherRemoves(name)
         PROVE  Owns'
    BY <1>7, <1>8, <1>10 DEF OtherCreates, OtherRemoves
  <1>11. CASE UNCHANGED vars
    BY <1>11 DEF vars, Owns, Exists
  <1> QED
    BY <1>1, <1>2, <1>3, <1>4, <1>5, <1>6, <1>9, <1>10, <1>11 DEF Next, Service, Outside

-----------------------------------------------------------------------------
(* Firefox's clean-up.                                                     *)

\* A task whose handoff Firefox still holds does not write under its name.
Spared ==
  \A t \in Tasks : browser[t].state = "held" =>
    /\ Sanitize(browser[t].name) = browser[t].name
    /\ Exists(t) => row[t].name # browser[t].name
    /\ browser[t].name \in DOMAIN disk => t \notin disk[browser[t].name]

\* Rows that keep their names, handoffs that go on or end, files that stay or go.
LEMMA SparedLess ==
    ASSUME Spared,
           \A u \in Tasks : Exists(u)' => Exists(u) /\ row'[u].name = row[u].name,
           \A u \in Tasks : browser'[u].state = "held" => browser'[u] = browser[u],
           \A x \in DOMAIN disk' : x \in DOMAIN disk /\ disk'[x] = disk[x]
    PROVE  Spared'
  <1> SUFFICES ASSUME NEW u \in Tasks, browser'[u].state = "held"
               PROVE  /\ Sanitize(browser'[u].name) = browser'[u].name
                      /\ Exists(u)' => row'[u].name # browser'[u].name
                      /\ browser'[u].name \in DOMAIN disk' => u \notin disk'[browser'[u].name]
    BY DEF Spared, Sanitize
  <1>1. browser'[u] = browser[u] /\ browser[u].state = "held"
    OBVIOUS
  <1> QED BY <1>1 DEF Spared

LEMMA SparedStep ==
    ASSUME Numerals, NamesKept, Shaped, Spared, [Next]_vars
    PROVE  Spared'
  <1>1. ASSUME NEW t \in Tasks, AddManual(t) \/ AddHandoff(t) \/ RetryWithNewUrl(t)
        PROVE  Spared'
    <2>1. PICK name : Added(t, name) /\ (browser[t].state = "held" => name # Sanitize(browser[t].name))
      BY <1>1, RequestAdds
    <2>2. /\ row'[t].name = name
          /\ \A u \in Tasks : u # t => row'[u] = row[u] /\ (Exists(u)' <=> Exists(u))
      BY <2>1, AddedParts
    <2>3. UNCHANGED <<disk, browser>>
      BY <2>1 DEF Added
    <2> QED BY <2>1, <2>2, <2>3 DEF Spared, Sanitize
  <1>2. ASSUME NEW t \in Tasks, Retry(t) \/ EngineStops(t) \/ EngineFinishes(t)
        PROVE  Spared'
    <2>1. PICK state \in {"waiting", "failed", "done"} : row' = [row EXCEPT ![t].state = state]
      BY <1>2 DEF Retry, EngineStops, EngineFinishes
    <2>2. Exists(t) /\ UNCHANGED <<disk, browser>> /\ state \in States
      BY <1>2 DEF Retry, EngineStops, EngineFinishes, Exists, States
    <2>3. \A u \in Tasks : Exists(u)' => Exists(u) /\ row'[u].name = row[u].name
      BY <2>1, <2>2, MovedParts
    <2> QED BY <2>2, <2>3, SparedLess
  <1>3. ASSUME NEW t \in Tasks, RemoveFromHistory(t) \/ DeleteFile(t)
        PROVE  Spared'
    <2>1. /\ row' \in {row, [row EXCEPT ![t] = Removed]} /\ browser' = browser
          /\ disk' \in {disk, Without(disk, row[t].name)}
      BY <1>3 DEF RemoveFromHistory, DeleteFile
    <2>2. \A u \in Tasks : Exists(u)' => Exists(u) /\ row'[u].name = row[u].name
      BY <2>1, RemovedParts DEF Exists
    <2>3. \A x \in DOMAIN disk' : x \in DOMAIN disk /\ disk'[x] = disk[x]
      BY <2>1 DEF Without
    <2> QED BY <2>1, <2>2, <2>3, SparedLess
  <1>4. ASSUME NEW t \in Tasks, EngineOpens(t)
        PROVE  Spared'
    <2> DEFINE name == row[t].name
               before == IF name \in DOMAIN disk THEN disk[name] ELSE {}
    <2>1. /\ Exists(t) /\ row' = [row EXCEPT ![t].state = "active"] /\ "active" \in States
          /\ disk' = With(disk, name, before \cup {t}) /\ browser' = browser
      BY <1>4 DEF EngineOpens, Exists, States
    <2>2. \A u \in Tasks : Exists(u)' => Exists(u) /\ row'[u].name = row[u].name
      BY <2>1, MovedParts
    <2>3. SUFFICES ASSUME NEW u \in Tasks, browser[u].state = "held", browser[u].name \in DOMAIN disk'
                   PROVE  u \notin disk'[browser[u].name]
      BY <2>1, <2>2 DEF Spared, Sanitize
    <2>4. CASE browser[u].name = name
      <3>1. u # t
        BY <2>1, <2>3, <2>4 DEF Spared
      <3>2. disk'[browser[u].name] = before \cup {t}
        BY <2>1, <2>3, <2>4 DEF With
      <3>3. u \notin before
        BY <2>3, <2>4 DEF Spared
      <3> QED BY <3>1, <3>2, <3>3
    <2>5. CASE browser[u].name # name
      BY <2>1, <2>3, <2>5 DEF With, Spared
    <2> QED BY <2>4, <2>5
  <1>5. ASSUME NEW name, NEW who, \A u \in Tasks : u \notin who,
               disk' = With(disk, name, who), UNCHANGED <<row, browser>>
        PROVE  Spared'
    <2>1. \A x \in DOMAIN disk' : disk'[x] = IF x = name THEN who ELSE disk[x]
      BY <1>5 DEF With
    <2>2. DOMAIN disk' = DOMAIN disk \cup {name}
      BY <1>5 DEF With
    <2> QED BY <1>5, <2>1, <2>2 DEF Spared, Exists, Sanitize
  <1>6. ASSUME NEW t \in Tasks, FirefoxStarts(t)
        PROVE  Spared'
    <2>1. PICK raw \in RawNames :
            /\ browser' = [browser EXCEPT ![t] = [state |-> "held", name |-> Sanitize(raw)]]
            /\ disk' = With(disk, Sanitize(raw), {"firefox"})
      BY <1>6 DEF FirefoxStarts
    <2> DEFINE name == Sanitize(raw)
    <2>2. row' = row /\ ~Exists(t)
      BY <1>6 DEF FirefoxStarts, Exists
    <2>3. /\ DOMAIN disk' = DOMAIN disk \cup {name}
          /\ \A x \in DOMAIN disk' : disk'[x] = IF x = name THEN {"firefox"} ELSE disk[x]
      BY <2>1 DEF With
    <2>4. /\ browser'[t].state = "held" /\ browser'[t].name = name
          /\ \A u \in Tasks : u # t => browser'[u] = browser[u]
      BY <2>1 DEF Shaped
    <2>5. Sanitize(name) = name /\ \A u \in Tasks : u # "firefox"
      BY DestinationAssumption DEF NamesKept
    <2> HIDE DEF name
    <2>6. SUFFICES ASSUME NEW u \in Tasks, browser'[u].state = "held"
                   PROVE  /\ Sanitize(browser'[u].name) = browser'[u].name
                          /\ Exists(u) => row[u].name # browser'[u].name
                          /\ browser'[u].name \in DOMAIN disk' => u \notin disk'[browser'[u].name]
      BY <2>2 DEF Spared, Exists, Sanitize
    <2>7. CASE u = t
      BY <2>2, <2>3, <2>4, <2>5, <2>7
    <2>8. CASE u # t
      BY <2>3, <2>4, <2>5, <2>6, <2>8 DEF Spared
    <2> QED BY <2>7, <2>8
  <1>7. ASSUME NEW t \in Tasks, FirefoxPauses(t) \/ FirefoxCleans(t)
        PROVE  Spared'
    <2>1. /\ row' = row /\ disk' = Without(disk, browser[t].name)
          /\ browser' \in {browser, [browser EXCEPT ![t] = [state |-> "cleaned", name |-> <<>>]]}
      BY <1>7 DEF FirefoxPauses, FirefoxCleans
    <2>2. \A u \in Tasks : browser'[u].state = "held" => browser'[u] = browser[u]
      BY <2>1 DEF Shaped
    <2>3. \A x \in DOMAIN disk' : x \in DOMAIN disk /\ disk'[x] = disk[x]
      BY <2>1 DEF Without
    <2>4. \A u \in Tasks : Exists(u)' => Exists(u) /\ row'[u].name = row[u].name
      BY <2>1 DEF Exists
    <2> QED BY <2>2, <2>3, <2>4, SparedLess
  <1>8. ASSUME NEW name, OtherCreates(name)
        PROVE  Spared'
    <2>1. \A u \in Tasks : u \notin {"other"}
      BY DestinationAssumption
    <2> QED BY <1>5, <1>8, <2>1 DEF OtherCreates
  <1>9. ASSUME NEW name, OtherRemoves(name)
        PROVE  Spared'
    <2>1. \A x \in DOMAIN disk' : x \in DOMAIN disk /\ disk'[x] = disk[x]
      BY <1>9 DEF OtherRemoves, Without
    <2> QED BY <1>9, <2>1, SparedLess DEF OtherRemoves, Exists
  <1>10. CASE UNCHANGED vars
    BY <1>10 DEF vars, Spared, Exists, Sanitize
  <1> QED
    BY <1>1, <1>2, <1>3, <1>4, <1>6, <1>7, <1>8, <1>9, <1>10 DEF Next, Service, Outside

-----------------------------------------------------------------------------
(* What delete_file accepts.                                               *)

NamesClean == \A t \in Tasks : Exists(t) => Clean(row[t].name)

\* Every name fits in the limit.
NamesFit == \A t \in Tasks : Exists(t) => Len(row[t].name) <= MaxNameLen

LEMMA NamesStep ==
    ASSUME Numerals, Shaped, NamesClean, [Next]_vars
    PROVE  NamesClean'
  <1>1. ASSUME NEW t \in Tasks, AddManual(t) \/ AddHandoff(t) \/ RetryWithNewUrl(t)
        PROVE  NamesClean'
    <2>1. PICK name : Added(t, name)
      BY <1>1, RequestAdds
    <2>2. /\ Clean(name) /\ row'[t].name = name
          /\ \A u \in Tasks : u # t => row'[u] = row[u] /\ (Exists(u)' <=> Exists(u))
      BY <2>1, AddedParts DEF Added
    <2>3. \A u \in Tasks : Exists(u)' => Clean(row'[u].name)
      BY <2>2 DEF NamesClean
    <2> QED BY <2>3 DEF NamesClean, Clean
  <1>2. ASSUME \A u \in Tasks : Exists(u)' => Exists(u) /\ row'[u].name = row[u].name
        PROVE  NamesClean'
    <2>1. \A u \in Tasks : Exists(u)' => Clean(row'[u].name)
      BY <1>2 DEF NamesClean
    <2> QED BY <2>1 DEF NamesClean, Clean
  <1>3. ASSUME NEW t \in Tasks, Retry(t) \/ EngineOpens(t) \/ EngineFinishes(t) \/ EngineStops(t)
        PROVE  NamesClean'
    <2>1. PICK state \in {"waiting", "active", "done", "failed"} : row' = [row EXCEPT ![t].state = state]
      BY <1>3 DEF Retry, EngineOpens, EngineFinishes, EngineStops
    <2>2. Exists(t) /\ state \in States
      BY <1>3 DEF Retry, EngineOpens, EngineFinishes, EngineStops, Exists, States
    <2> QED BY <1>2, <2>1, <2>2, MovedParts
  <1>4. ASSUME NEW t \in Tasks, RemoveFromHistory(t) \/ DeleteFile(t)
        PROVE  NamesClean'
    <2>1. row' = row \/ row' = [row EXCEPT ![t] = Removed]
      BY <1>4 DEF RemoveFromHistory, DeleteFile
    <2> QED BY <1>2, <2>1, RemovedParts DEF Exists
  <1>5. CASE UNCHANGED row
    BY <1>2, <1>5 DEF Exists
  <1>6. ASSUME NEW t \in Tasks, FirefoxStarts(t) \/ FirefoxPauses(t) \/ FirefoxCleans(t)
        PROVE  UNCHANGED row
    BY <1>6 DEF FirefoxStarts, FirefoxPauses, FirefoxCleans
  <1>7. ASSUME NEW name, OtherCreates(name) \/ OtherRemoves(name)
        PROVE  UNCHANGED row
    BY <1>7 DEF OtherCreates, OtherRemoves
  <1>8. CASE UNCHANGED vars
    BY <1>5, <1>8 DEF vars
  <1> QED
    BY <1>1, <1>3, <1>4, <1>5, <1>6, <1>7, <1>8 DEF Next, Service, Outside

-----------------------------------------------------------------------------
(* The theorems.                                                           *)

LEMMA InitHolds == Init => Shaped /\ Apart /\ Owns /\ Spared
  <1> SUFFICES ASSUME Init PROVE Shaped /\ Apart /\ Owns /\ Spared
    OBVIOUS
  <1>1. [state |-> "unused", name |-> <<>>] \in Row /\ [state |-> "none", name |-> <<>>] \in Held
    BY DEF Row, States, Held
  <1>2. \A t \in Tasks : ~Exists(t) /\ row[t].name = <<>> /\ browser[t].state = "none"
    BY DEF Init, Exists
  <1>3. DOMAIN disk = {} /\ DOMAIN control = {}
    BY DEF Init
  <1>4. Folder(disk, Writers) /\ Folder(control, Tasks)
    BY <1>3, FS_EmptySet DEF Folder
  <1>5. 0 \in 0..MaxOutside
    <2>1. MaxOutside \in Nat
      BY DestinationAssumption
    <2> QED BY <2>1
  <1>6. Shaped
    BY <1>1, <1>2, <1>4, <1>5 DEF Init, Shaped, RowsShaped
  <1>7. \A t \in Tasks : row[t].state \notin {"active", "done"}
    BY DEF Init
  <1> QED BY <1>2, <1>6, <1>7 DEF Apart, Owns, Spared

LEMMA InitClean == Init => NamesClean
  BY DEF Init, NamesClean, Exists

LEMMA TypesFollow == Shaped /\ Apart => TypeOK
  BY DEF Shaped, RowsShaped, Row, Held, Folder, Writers, Apart, TypeOK

\* The variables keep their types whatever is requested, removed and deleted
\* and whatever other programs do, as long as the tasks can be listed: an
\* active task has its control file and one that is done has none.
THEOREM DestinationTyped == Numerals /\ ~ListFails => (Spec => []TypeOK)
  <1> SUFFICES ASSUME Numerals, ~ListFails PROVE Spec => []TypeOK
    OBVIOUS
  <1>1. Shaped /\ Apart /\ [Next]_vars => (Shaped /\ Apart)'
    BY ShapedStep, ApartStep
  <1> QED BY <1>1, InitHolds, TypesFollow, PTL DEF Spec

\* No file is overwritten and no partial of another link continued: the name
\* build_task chooses is free, and stays the task's own while other programs
\* keep away from the names of unfinished tasks.
THEOREM PathsAreOwn == Numerals /\ ~ListFails /\ ~Intruders => (Spec => []OwnPath)
  <1> SUFFICES ASSUME Numerals, ~ListFails, ~Intruders PROVE Spec => []OwnPath
    OBVIOUS
  <1>1. Shaped /\ Apart /\ Owns /\ [Next]_vars => (Shaped /\ Apart /\ Owns)'
    BY ShapedStep, ApartStep, OwnsStep
  <1>2. Apart /\ Owns => OwnPath
    BY DEF Apart, Owns, OwnPath
  <1> QED BY <1>1, <1>2, InitHolds, PTL DEF Spec

\* What Firefox unlinks when it cancels a download it handed over is never
\* what the task has written, also when the list of the tasks failed and when
\* other programs interfere.
THEOREM CleanupSpares == Numerals /\ NamesKept => (Spec => CleanupSparesOwn)
  <1> SUFFICES ASSUME Numerals, NamesKept PROVE Spec => CleanupSparesOwn
    OBVIOUS
  <1>1. Shaped /\ Spared /\ [Next]_vars => (Shaped /\ Spared)'
    BY ShapedStep, SparedStep
  <1>2. Spared => \A t \in Tasks :
          browser[t].state = "held" /\ browser'[t].state = "cleaned"
            /\ browser[t].name \in DOMAIN disk => t \notin disk[browser[t].name]
    BY DEF Spared
  <1> QED BY <1>1, <1>2, InitHolds, PTL DEF Spec, CleanupSparesOwn

\* delete_file refuses no task whose name fits in the limit: two passes of the
\* sanitizer leave nothing for a third, and a number adds nothing that it
\* would remove, whatever other programs do and whether or not the tasks can
\* be listed.
THEOREM FilesDeletable == Numerals => (Spec => [](NamesFit => EveryFileDeletable))
  <1> SUFFICES ASSUME Numerals PROVE Spec => [](NamesFit => EveryFileDeletable)
    OBVIOUS
  <1>1. Shaped /\ NamesClean /\ [Next]_vars => (Shaped /\ NamesClean)'
    BY ShapedStep, NamesStep
  <1>2. NamesClean => (NamesFit => EveryFileDeletable)
    BY CleanFits DEF NamesClean, NamesFit, EveryFileDeletable, Deletable
  <1> QED BY <1>1, <1>2, InitHolds, InitClean, PTL DEF Spec
=============================================================================
