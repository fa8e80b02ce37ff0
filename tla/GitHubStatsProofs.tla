--------------------------- MODULE GitHubStatsProofs ---------------------------
(***************************************************************************)
(* Theorems about the statistics requests: for any lists at GitHub, page   *)
(* sizes, requests and bounds.                                             *)
(***************************************************************************)
EXTENDS GitHubStats, FiniteSetTheorems, TLAPS

LEMMA SliceType ==
  ASSUME NEW S, NEW s \in Seq(S), NEW k \in Nat, NEW n \in Nat
  PROVE  Slice(s, k, n) \in Seq(S)
<1> DEFINE m == IF k + n < Len(s) THEN k + n ELSE Len(s)
<1>1. Len(s) \in Nat /\ m \in Nat /\ m <= Len(s)
  OBVIOUS
<1>2. \A i \in k + 1..m : s[i] \in S
  BY <1>1
<1> QED
  BY <1>1, <1>2 DEF Slice

LEMMA RemoveType ==
  ASSUME NEW S, NEW s \in Seq(S), NEW i \in 1..Len(s)
  PROVE  RemoveAt(s, i) \in Seq(S)
BY DEF RemoveAt

LEMMA RangeType ==
  ASSUME NEW S, NEW s \in Seq(S)
  PROVE  Range(s) \in SUBSET S
BY DEF Range

\* The entries after the first k.
Beyond(s, k) == {s[i] : i \in k + 1..Len(s)}

\* A slice is what its name says.
LEMMA SliceFacts ==
  ASSUME NEW S, NEW s \in Seq(S), NEW k \in Nat, NEW n \in Nat
  PROVE  /\ Slice(s, k, n) \in Seq(S)
         /\ Len(Slice(s, k, n)) = IF k >= Len(s) THEN 0 ELSE IF k + n < Len(s) THEN n ELSE Len(s) - k
         /\ \A i \in 1..Len(Slice(s, k, n)) : Slice(s, k, n)[i] = s[k + i]
<1> DEFINE m == IF k + n < Len(s) THEN k + n ELSE Len(s)
<1>1. Len(s) \in Nat /\ m \in Nat /\ m <= Len(s) /\ m <= k + n
  OBVIOUS
<1>2. \A i \in k + 1..m : s[i] \in S
  BY <1>1
<1> HIDE DEF m
<1>3. /\ SubSeq(s, k + 1, m) \in Seq(S)
      /\ Len(SubSeq(s, k + 1, m)) = IF k + 1 <= m THEN m - k ELSE 0
      /\ \A i \in 1..m - k : SubSeq(s, k + 1, m)[i] = s[k + i]
  BY <1>1, <1>2
<1>4. Slice(s, k, n) = SubSeq(s, k + 1, m)
  BY DEF Slice, m
<1>5. ASSUME NEW i \in 1..Len(Slice(s, k, n)) PROVE Slice(s, k, n)[i] = s[k + i]
  BY <1>1, <1>3, <1>4, <1>5
<1> QED
  BY <1>1, <1>3, <1>4, <1>5 DEF m

\* The entries after the first k are those of the next page and those beyond.
LEMMA BeyondSplit ==
  ASSUME NEW S, NEW s \in Seq(S), NEW k \in Nat, NEW n \in Nat
  PROVE  /\ Beyond(s, k) = Range(Slice(s, k, n)) \cup Beyond(s, k + n)
         /\ IsInjective(s) => /\ Range(Slice(s, k, n)) \cap Beyond(s, k + n) = {}
                              /\ IsInjective(Slice(s, k, n))
<1> DEFINE p == Slice(s, k, n)
<1>1. /\ p \in Seq(S)
      /\ Len(p) = IF k >= Len(s) THEN 0 ELSE IF k + n < Len(s) THEN n ELSE Len(s) - k
      /\ \A i \in 1..Len(p) : p[i] = s[k + i]
  BY SliceFacts
<1> HIDE DEF p
<1>2. Range(p) = {p[i] : i \in 1..Len(p)} /\ Len(s) \in Nat /\ Len(p) \in Nat
  BY <1>1 DEF Range
<1>3. ASSUME NEW x \in Beyond(s, k) PROVE x \in Range(p) \cup Beyond(s, k + n)
  <2>1. PICK i \in k + 1..Len(s) : x = s[i]
    BY DEF Beyond
  <2>2. CASE i <= k + n
    <3>1. i - k \in 1..Len(p) /\ p[i - k] = s[k + (i - k)]
      BY <1>1, <1>2, <2>1, <2>2
    <3> QED
      BY <1>2, <2>1, <3>1
  <2>3. CASE i > k + n
    BY <1>2, <2>1, <2>3 DEF Beyond
  <2> QED
    BY <1>2, <2>1, <2>2, <2>3
<1>a. \A i \in 1..Len(p) : k + i \in k + 1..Len(s) /\ p[i] = s[k + i] /\ k + i <= k + n
  BY <1>1, <1>2
<1>4. Range(p) \subseteq Beyond(s, k)
  BY <1>2, <1>a DEF Beyond
<1>5. Beyond(s, k + n) \subseteq Beyond(s, k)
  BY <1>2 DEF Beyond
<1>6. ASSUME IsInjective(s) PROVE Range(p) \cap Beyond(s, k + n) = {} /\ IsInjective(p)
  <2>1. \A i, j \in 1..Len(s) : s[i] = s[j] => i = j
    BY <1>6 DEF IsInjective
  <2>2. ASSUME NEW i \in 1..Len(p), NEW j \in k + n + 1..Len(s) PROVE p[i] # s[j]
    BY <1>1, <1>2, <2>1
  <2>3. ASSUME NEW i \in 1..Len(p), NEW j \in 1..Len(p), p[i] = p[j] PROVE i = j
    <3>1. k + i \in 1..Len(s) /\ k + j \in 1..Len(s) /\ s[k + i] = s[k + j]
      BY <1>2, <1>a, <2>3
    <3>2. k + i = k + j
      BY <2>1, <3>1
    <3> QED
      BY <3>2
  <2>4. IsInjective(p)
    BY <1>1, <2>3 DEF IsInjective
  <2> QED
    BY <1>2, <2>2, <2>4 DEF Beyond
<1> QED
  BY <1>3, <1>4, <1>5, <1>6 DEF p

LEMMA RangeConcat ==
  ASSUME NEW S, NEW s \in Seq(S), NEW t \in Seq(S)
  PROVE  /\ Range(s \o t) = Range(s) \cup Range(t)
         /\ Len(s \o t) = Len(s) + Len(t) /\ Len(s) \in Nat /\ Len(t) \in Nat
<1> DEFINE u == s \o t
<1>1. /\ u \in Seq(S) /\ Len(u) = Len(s) + Len(t) /\ Len(s) \in Nat /\ Len(t) \in Nat
      /\ DOMAIN u = 1..Len(u) /\ DOMAIN s = 1..Len(s) /\ DOMAIN t = 1..Len(t)
      /\ \A i \in 1..Len(s) : u[i] = s[i]
      /\ \A i \in 1..Len(t) : u[Len(s) + i] = t[i]
  OBVIOUS
<1> HIDE DEF u
<1>2. Range(s) \subseteq Range(u)
  <2>1. \A i \in 1..Len(s) : i \in 1..Len(u)
    BY <1>1
  <2> QED
    BY <1>1, <2>1 DEF Range
<1>3. Range(t) \subseteq Range(u)
  <2>1. \A i \in 1..Len(t) : Len(s) + i \in 1..Len(u)
    BY <1>1
  <2> QED
    BY <1>1, <2>1 DEF Range
<1>4. Range(u) \subseteq Range(s) \cup Range(t)
  <2>1. ASSUME NEW i \in 1..Len(u) PROVE u[i] \in Range(s) \cup Range(t)
    <3>1. CASE i <= Len(s)
      <4>1. i \in 1..Len(s) /\ u[i] = s[i]
        BY <1>1, <3>1
      <4> QED
        BY <1>1, <4>1 DEF Range
    <3>2. CASE i > Len(s)
      <4>1. i - Len(s) \in 1..Len(t) /\ Len(s) + (i - Len(s)) = i
        BY <1>1, <3>2
      <4>2. u[i] = t[i - Len(s)]
        BY <1>1, <4>1
      <4> QED
        BY <1>1, <4>1, <4>2 DEF Range
    <3> QED
      BY <1>1, <3>1, <3>2
  <2> QED
    BY <1>1, <2>1 DEF Range
<1> QED
  BY <1>1, <1>2, <1>3, <1>4 DEF u

\* A list has finitely many entries, as many as its length if none comes twice.
LEMMA RangeCount ==
  ASSUME NEW S, NEW s \in Seq(S)
  PROVE  /\ IsFiniteSet(Range(s)) /\ Cardinality(Range(s)) \in Nat
         /\ IsInjective(s) => Cardinality(Range(s)) = Len(s)
<1>1. s \in Surjection(1..Len(s), Range(s)) /\ Len(s) \in Nat
  BY DEF Surjection, Range
<1>2. IsFiniteSet(1..Len(s)) /\ Cardinality(1..Len(s)) = Len(s)
  <2>1. /\ IsFiniteSet(1..Len(s))
        /\ Cardinality(1..Len(s)) = IF 1 > Len(s) THEN 0 ELSE Len(s) - 1 + 1
    BY <1>1, FS_Interval
  <2> QED
    BY <1>1, <2>1
<1>3. IsFiniteSet(Range(s)) /\ (Cardinality(Range(s)) = Len(s) <=> s \in Injection(1..Len(s), Range(s)))
  BY <1>1, <1>2, FS_Surjection
<1>4. IsInjective(s) => s \in Injection(1..Len(s), Range(s))
  BY <1>1 DEF Injection, Surjection
<1> QED
  BY <1>3, <1>4, FS_CardinalityType

\* What a new first entry does to a list, and to what is after the first k.
LEMMA PrependFacts ==
  ASSUME NEW S, NEW s \in Seq(S), NEW t \in S, t \notin Range(s), NEW k \in Nat
  PROVE  /\ Range(<<t>> \o s) = {t} \cup Range(s)
         /\ IsInjective(s) => IsInjective(<<t>> \o s)
         /\ Beyond(s, k) \subseteq Beyond(<<t>> \o s, k)
         /\ k > 0 => \E x : Beyond(<<t>> \o s, k) \subseteq Beyond(s, k) \cup {x}
<1> DEFINE u == <<t>> \o s
<1>1. /\ u \in Seq(S) /\ Len(u) = Len(s) + 1 /\ Len(s) \in Nat
      /\ u[1] = t /\ \A i \in 1..Len(s) : u[i + 1] = s[i]
  OBVIOUS
<1> HIDE DEF u
<1>2. \A i \in 2..Len(u) : u[i] = s[i - 1] /\ i - 1 \in 1..Len(s)
  BY <1>1
<1>3. DOMAIN u = 1..Len(u) /\ DOMAIN s = 1..Len(s) /\ \A i \in 1..Len(s) : s[i] # t
  BY <1>1 DEF Range
<1>4. Range(u) = {t} \cup Range(s)
  <2>1. ASSUME NEW i \in 1..Len(u) PROVE u[i] \in {t} \cup Range(s)
    <3>1. CASE i = 1
      BY <1>1, <3>1
    <3>2. CASE i # 1
      <4>1. i \in 2..Len(u)
        BY <1>1, <3>2
      <4>2. u[i] = s[i - 1] /\ i - 1 \in 1..Len(s)
        BY <1>2, <4>1
      <4> QED
        BY <1>3, <4>2 DEF Range
    <3> QED
      BY <3>1, <3>2
  <2>2. \A i \in 1..Len(s) : s[i] \in Range(u)
    BY <1>1, <1>3 DEF Range
  <2>3. t \in Range(u)
    BY <1>1, <1>3 DEF Range
  <2> QED
    BY <1>3, <2>1, <2>2, <2>3 DEF Range
<1>5. ASSUME IsInjective(s) PROVE IsInjective(u)
  <2>1. ASSUME NEW i \in 1..Len(u), NEW j \in 1..Len(u), u[i] = u[j] PROVE i = j
    <3>1. \A g, h \in 1..Len(s) : s[g] = s[h] => g = h
      BY <1>3, <1>5 DEF IsInjective
    <3>2. CASE i = 1 \/ j = 1
      BY <1>1, <1>2, <1>3, <2>1, <3>2
    <3>3. CASE i \in 2..Len(u) /\ j \in 2..Len(u)
      <4>1. i - 1 \in 1..Len(s) /\ j - 1 \in 1..Len(s) /\ s[i - 1] = s[j - 1]
        BY <1>2, <2>1, <3>3
      <4>2. i - 1 = j - 1
        BY <3>1, <4>1
      <4> QED
        BY <4>2
    <3> QED
      BY <1>1, <3>2, <3>3
  <2> QED
    BY <1>3, <2>1 DEF IsInjective
<1>6. Beyond(s, k) \subseteq Beyond(u, k)
  <2>1. \A i \in k + 1..Len(s) : i + 1 \in k + 1..Len(u) /\ u[i + 1] = s[i]
    BY <1>1
  <2> QED
    BY <2>1 DEF Beyond
<1>7. ASSUME k > 0 PROVE \E x : Beyond(u, k) \subseteq Beyond(s, k) \cup {x}
  <2>1. ASSUME NEW i \in k + 1..Len(u) PROVE u[i] \in Beyond(s, k) \cup {u[k + 1]}
    <3>1. CASE i = k + 1
      BY <3>1
    <3>2. CASE i # k + 1
      <4>1. i \in 2..Len(u) /\ i - 1 >= k + 1 /\ i - 1 \in Nat
        BY <1>1, <3>2
      <4>2. u[i] = s[i - 1] /\ i - 1 \in k + 1..Len(s)
        BY <1>1, <1>2, <4>1
      <4> QED
        BY <4>2 DEF Beyond
    <3> QED
      BY <3>1, <3>2
  <2> QED
    BY <2>1 DEF Beyond
<1> QED
  BY <1>4, <1>5, <1>6, <1>7 DEF u

\* What the removal of an entry does.
LEMMA RemoveFacts ==
  ASSUME NEW S, NEW s \in Seq(S), NEW i \in 1..Len(s)
  PROVE  /\ RemoveAt(s, i) \in Seq(S) /\ Len(RemoveAt(s, i)) = Len(s) - 1 /\ Len(s) \in Nat
         /\ \A j \in 1..Len(s) - 1 : RemoveAt(s, i)[j] = IF j < i THEN s[j] ELSE s[j + 1]
<1> DEFINE a == SubSeq(s, 1, i - 1)
           b == SubSeq(s, i + 1, Len(s))
<1>1. a \in Seq(S) /\ Len(a) = i - 1 /\ \A j \in 1..i - 1 : a[j] = s[j]
  OBVIOUS
<1>2. b \in Seq(S) /\ Len(b) = Len(s) - i /\ \A j \in 1..Len(s) - i : b[j] = s[j + i]
  OBVIOUS
<1>3. RemoveAt(s, i) = a \o b
  BY DEF RemoveAt
<1> HIDE DEF a, b
<1>4. /\ a \o b \in Seq(S) /\ Len(a \o b) = Len(s) - 1
      /\ \A j \in 1..Len(s) - 1 : (a \o b)[j] = IF j <= i - 1 THEN a[j] ELSE b[j - (i - 1)]
  <2>1. a \in Seq(S) /\ b \in Seq(S) /\ Len(a) = i - 1 /\ Len(b) = Len(s) - i /\ Len(s) \in Nat
    BY <1>1, <1>2
  <2>2. /\ a \o b \in Seq(S) /\ Len(a \o b) = Len(a) + Len(b)
        /\ \A j \in 1..Len(a) + Len(b) : (a \o b)[j] = IF j <= Len(a) THEN a[j] ELSE b[j - Len(a)]
    BY <2>1, SMTT(30)
  <2>3. Len(a) + Len(b) = Len(s) - 1
    BY <2>1
  <2> QED
    BY <2>1, <2>2, <2>3
<1>5. ASSUME NEW j \in 1..Len(s) - 1 PROVE (a \o b)[j] = IF j < i THEN s[j] ELSE s[j + 1]
  <2>1. CASE j < i
    BY <1>1, <1>2, <1>4, <2>1
  <2>2. CASE ~(j < i)
    <3>1. j - (i - 1) \in 1..Len(s) - i /\ (j - (i - 1)) + i = j + 1 /\ ~(j <= i - 1)
      BY <2>2
    <3>2. b[j - (i - 1)] = s[j + 1]
      BY <1>2, <3>1
    <3>3. (a \o b)[j] = b[j - (i - 1)]
      BY <1>4, <3>1
    <3>4. ~(j < i)
      BY <2>2
    <3> QED
      BY <3>2, <3>3, <3>4
  <2> QED
    BY <2>1, <2>2
<1> QED
  BY <1>1, <1>2, <1>3, <1>4, <1>5

\* It takes one entry away, and moves at most one across the cursor.
LEMMA RemoveMoves ==
  ASSUME NEW S, NEW s \in Seq(S), NEW i \in 1..Len(s), NEW k \in Nat
  PROVE  /\ Range(RemoveAt(s, i)) \subseteq Range(s)
         /\ IsInjective(s) => /\ s[i] \notin Range(RemoveAt(s, i))
                              /\ IsInjective(RemoveAt(s, i))
         /\ Beyond(RemoveAt(s, i), k) \subseteq Beyond(s, k)
         /\ \E x : Beyond(s, k) \subseteq Beyond(RemoveAt(s, i), k) \cup {x}
<1> DEFINE u == RemoveAt(s, i)
<1>1. /\ u \in Seq(S) /\ Len(u) = Len(s) - 1 /\ Len(s) \in Nat /\ Len(u) \in Nat
      /\ \A j \in 1..Len(u) : u[j] = IF j < i THEN s[j] ELSE s[j + 1]
  <2>1. /\ u \in Seq(S) /\ Len(u) = Len(s) - 1 /\ Len(s) \in Nat
        /\ \A j \in 1..Len(s) - 1 : u[j] = IF j < i THEN s[j] ELSE s[j + 1]
    BY RemoveFacts
  <2> HIDE DEF u
  <2> QED
    BY <2>1
<1> HIDE DEF u
<1>2. DOMAIN u = 1..Len(u) /\ DOMAIN s = 1..Len(s)
  BY <1>1
<1>3. \A j \in 1..Len(u) : j + 1 \in 1..Len(s) /\ j \in 1..Len(s)
  BY <1>1
<1>4. Range(u) \subseteq Range(s)
  BY <1>1, <1>2, <1>3 DEF Range
<1>5. ASSUME IsInjective(s) PROVE s[i] \notin Range(u) /\ IsInjective(u)
  <2>1. \A g, h \in 1..Len(s) : s[g] = s[h] => g = h
    BY <1>2, <1>5 DEF IsInjective
  <2>2. ASSUME NEW j \in 1..Len(u) PROVE u[j] # s[i]
    BY <1>1, <1>3, <2>1
  <2>3. ASSUME NEW g \in 1..Len(u), NEW h \in 1..Len(u), u[g] = u[h] PROVE g = h
    <3>1. CASE g < i /\ h < i
      BY <1>1, <1>3, <2>1, <2>3, <3>1
    <3>2. CASE g < i /\ h >= i
      <4>1. s[g] = s[h + 1]
        BY <1>1, <2>3, <3>2
      <4> QED
        BY <1>3, <2>1, <3>2, <4>1
    <3>3. CASE g >= i /\ h < i
      <4>1. s[g + 1] = s[h]
        BY <1>1, <2>3, <3>3
      <4> QED
        BY <1>3, <2>1, <3>3, <4>1
    <3>4. CASE g >= i /\ h >= i
      <4>1. s[g + 1] = s[h + 1]
        BY <1>1, <2>3, <3>4
      <4>2. g + 1 = h + 1
        BY <1>3, <2>1, <4>1
      <4> QED
        BY <4>2
    <3> QED
      BY <3>1, <3>2, <3>3, <3>4
  <2> QED
    BY <1>2, <2>2, <2>3 DEF Range, IsInjective
<1>6. Beyond(u, k) \subseteq Beyond(s, k)
  <2>1. \A j \in k + 1..Len(u) : j \in 1..Len(u) /\ j \in k + 1..Len(s) /\ j + 1 \in k + 1..Len(s)
    BY <1>1
  <2> QED
    BY <1>1, <2>1 DEF Beyond
<1>7. \E x : Beyond(s, k) \subseteq Beyond(u, k) \cup {x}
  <2>1. CASE i <= k
    <3>1. ASSUME NEW j \in k + 1..Len(s), j # k + 1 PROVE s[j] \in Beyond(u, k)
      <4>1. j - 1 \in k + 1..Len(u) /\ j - 1 \in 1..Len(u) /\ ~(j - 1 < i) /\ (j - 1) + 1 = j
        BY <1>1, <2>1, <3>1
      <4>2. u[j - 1] = s[j]
        BY <1>1, <4>1
      <4> QED
        BY <4>1, <4>2 DEF Beyond
    <3> QED
      BY <3>1 DEF Beyond
  <2>2. CASE i > k
    <3>1. ASSUME NEW j \in k + 1..Len(s), j # i PROVE s[j] \in Beyond(u, k)
      <4>1. CASE j < i
        <5>1. j \in k + 1..Len(u) /\ j \in 1..Len(u) /\ u[j] = s[j]
          BY <1>1, <4>1
        <5> QED
          BY <5>1 DEF Beyond
      <4>2. CASE j > i
        <5>1. j - 1 \in k + 1..Len(u) /\ j - 1 \in 1..Len(u) /\ ~(j - 1 < i) /\ (j - 1) + 1 = j
          BY <1>1, <2>2, <4>2
        <5>2. u[j - 1] = s[j]
          BY <1>1, <5>1
        <5> QED
          BY <5>1, <5>2 DEF Beyond
      <4> QED
        BY <3>1, <4>1, <4>2
    <3> QED
      BY <3>1 DEF Beyond
  <2> QED
    BY <2>1, <2>2
<1> QED
  BY <1>4, <1>5, <1>6, <1>7 DEF u

\* What the insertion of an entry does.
LEMMA InsertFacts ==
  ASSUME NEW S, NEW s \in Seq(S), NEW x \in S, NEW i \in 1..Len(s) + 1
  PROVE  /\ InsertAt(s, i, x) \in Seq(S) /\ Len(InsertAt(s, i, x)) = Len(s) + 1 /\ Len(s) \in Nat
         /\ \A j \in 1..Len(s) + 1 :
              InsertAt(s, i, x)[j] = IF j < i THEN s[j] ELSE IF j = i THEN x ELSE s[j - 1]
<1> DEFINE a == SubSeq(s, 1, i - 1)
           b == SubSeq(s, i, Len(s))
           m == a \o <<x>>
<1>1. /\ a \in Seq(S) /\ Len(a) = i - 1 /\ Len(s) \in Nat
      /\ \A j \in 1..i - 1 : a[j] = s[j]
  OBVIOUS
<1>2. /\ b \in Seq(S) /\ Len(b) = Len(s) - i + 1
      /\ \A j \in 1..Len(s) - i + 1 : b[j] = s[j + i - 1]
  OBVIOUS
<1>3. InsertAt(s, i, x) = m \o b
  BY DEF InsertAt
<1> HIDE DEF a, b
<1>4. /\ m \in Seq(S) /\ Len(m) = i /\ m[i] = x
      /\ \A j \in 1..i - 1 : m[j] = a[j]
  BY <1>1
<1> HIDE DEF m
<1>5. /\ m \o b \in Seq(S) /\ Len(m \o b) = Len(s) + 1
      /\ \A j \in 1..Len(s) + 1 : (m \o b)[j] = IF j <= i THEN m[j] ELSE b[j - i]
  <2>1. /\ m \o b \in Seq(S) /\ Len(m \o b) = Len(m) + Len(b)
        /\ \A j \in 1..Len(m) + Len(b) : (m \o b)[j] = IF j <= Len(m) THEN m[j] ELSE b[j - Len(m)]
    <3>1. m \in Seq(S) /\ b \in Seq(S)
      BY <1>2, <1>4
    <3> QED
      BY <3>1, SMTT(30)
  <2>2. Len(m) + Len(b) = Len(s) + 1 /\ Len(m) = i
    BY <1>1, <1>2, <1>4
  <2> QED
    BY <2>1, <2>2
<1>6. ASSUME NEW j \in 1..Len(s) + 1
      PROVE  (m \o b)[j] = IF j < i THEN s[j] ELSE IF j = i THEN x ELSE s[j - 1]
  <2>1. CASE j < i
    BY <1>1, <1>4, <1>5, <2>1
  <2>2. CASE j = i
    BY <1>4, <1>5, <2>2
  <2>3. CASE j > i
    <3>1. j - i \in 1..Len(s) - i + 1 /\ (j - i) + i - 1 = j - 1 /\ ~(j <= i)
      BY <1>1, <2>3
    <3>2. b[j - i] = s[j - 1]
      BY <1>2, <3>1
    <3>3. (m \o b)[j] = b[j - i] /\ ~(j < i) /\ j # i
      BY <1>5, <2>3, <3>1
    <3> QED
      BY <3>2, <3>3
  <2>4. j < i \/ j = i \/ j > i
    BY <1>1
  <2> QED
    BY <2>1, <2>2, <2>3, <2>4
<1> QED
  BY <1>1, <1>3, <1>5, <1>6

\* It adds one entry, and moves at most one across the cursor.
LEMMA InsertMoves ==
  ASSUME NEW S, NEW s \in Seq(S), NEW x \in S, NEW i \in 1..Len(s) + 1, NEW k \in Nat
  PROVE  /\ Range(InsertAt(s, i, x)) = Range(s) \cup {x}
         /\ IsInjective(s) /\ x \notin Range(s) => IsInjective(InsertAt(s, i, x))
         /\ Beyond(s, k) \subseteq Beyond(InsertAt(s, i, x), k)
         /\ \E y : Beyond(InsertAt(s, i, x), k) \subseteq Beyond(s, k) \cup {y}
<1> DEFINE u == InsertAt(s, i, x)
<1>1. /\ u \in Seq(S) /\ Len(u) = Len(s) + 1 /\ Len(s) \in Nat /\ Len(u) \in Nat
      /\ \A j \in 1..Len(u) : u[j] = IF j < i THEN s[j] ELSE IF j = i THEN x ELSE s[j - 1]
  <2>1. /\ u \in Seq(S) /\ Len(u) = Len(s) + 1 /\ Len(s) \in Nat
        /\ \A j \in 1..Len(s) + 1 : u[j] = IF j < i THEN s[j] ELSE IF j = i THEN x ELSE s[j - 1]
    BY InsertFacts
  <2> HIDE DEF u
  <2> QED
    BY <2>1
<1> HIDE DEF u
<1>2. DOMAIN u = 1..Len(u) /\ DOMAIN s = 1..Len(s) /\ i \in 1..Len(u) /\ u[i] = x
  BY <1>1
<1>3. \A j \in 1..Len(u) : /\ j < i => j \in 1..Len(s) /\ u[j] = s[j]
                           /\ j > i => j - 1 \in 1..Len(s) /\ u[j] = s[j - 1]
  BY <1>1
<1>4. \A j \in 1..Len(s) : /\ j < i => j \in 1..Len(u) /\ u[j] = s[j]
                           /\ j >= i => j + 1 \in 1..Len(u) /\ u[j + 1] = s[j]
  BY <1>1
<1>5. Range(u) = Range(s) \cup {x}
  <2>1. ASSUME NEW j \in 1..Len(u) PROVE u[j] \in Range(s) \cup {x}
    <3>1. j < i \/ j = i \/ j > i
      OBVIOUS
    <3>2. CASE j = i
      BY <1>2, <3>2
    <3>3. CASE j # i
      BY <1>2, <1>3, <3>1, <3>3 DEF Range
    <3> QED
      BY <3>2, <3>3
  <2>2. ASSUME NEW j \in 1..Len(s) PROVE s[j] \in Range(u)
    <3>1. j < i \/ j >= i
      OBVIOUS
    <3> QED
      BY <1>2, <1>4, <3>1 DEF Range
  <2>3. x \in Range(u)
    BY <1>2 DEF Range
  <2> QED
    BY <1>2, <2>1, <2>2, <2>3 DEF Range
<1>6. ASSUME IsInjective(s), x \notin Range(s) PROVE IsInjective(u)
  <2>1. \A g, h \in 1..Len(s) : s[g] = s[h] => g = h
    BY <1>2, <1>6 DEF IsInjective
  <2>2. \A g \in 1..Len(s) : s[g] # x
    BY <1>2, <1>6 DEF Range
  <2>3. ASSUME NEW g \in 1..Len(u), NEW h \in 1..Len(u), u[g] = u[h] PROVE g = h
    <3>1. CASE g = i \/ h = i
      BY <1>2, <1>3, <2>2, <2>3, <3>1
    <3>2. CASE g < i /\ h < i
      BY <1>3, <2>1, <2>3, <3>2
    <3>3. CASE g < i /\ h > i
      <4>1. g \in 1..Len(s) /\ h - 1 \in 1..Len(s) /\ s[g] = s[h - 1]
        BY <1>3, <2>3, <3>3
      <4>2. g = h - 1
        BY <2>1, <4>1
      <4> QED
        BY <3>3, <4>2
    <3>4. CASE g > i /\ h < i
      <4>1. g - 1 \in 1..Len(s) /\ h \in 1..Len(s) /\ s[g - 1] = s[h]
        BY <1>3, <2>3, <3>4
      <4>2. g - 1 = h
        BY <2>1, <4>1
      <4> QED
        BY <3>4, <4>2
    <3>5. CASE g > i /\ h > i
      <4>1. g - 1 \in 1..Len(s) /\ h - 1 \in 1..Len(s) /\ s[g - 1] = s[h - 1]
        BY <1>3, <2>3, <3>5
      <4>2. g - 1 = h - 1
        BY <2>1, <4>1
      <4> QED
        BY <4>2
    <3> QED
      BY <3>1, <3>2, <3>3, <3>4, <3>5
  <2> QED
    BY <1>2, <2>3 DEF IsInjective
<1>7. Beyond(s, k) \subseteq Beyond(u, k)
  <2>1. ASSUME NEW j \in k + 1..Len(s) PROVE s[j] \in Beyond(u, k)
    <3>1. j \in 1..Len(s) /\ j \in k + 1..Len(u) /\ j + 1 \in k + 1..Len(u)
      BY <1>1
    <3>2. s[j] = u[j] \/ s[j] = u[j + 1]
      <4>1. j < i \/ j >= i
        OBVIOUS
      <4> QED
        BY <1>4, <3>1, <4>1
    <3> QED
      BY <3>1, <3>2 DEF Beyond
  <2> QED
    BY <2>1 DEF Beyond
<1>8. \E y : Beyond(u, k) \subseteq Beyond(s, k) \cup {y}
  <2>1. CASE i <= k
    <3>1. ASSUME NEW j \in k + 1..Len(u), j # k + 1 PROVE u[j] \in Beyond(s, k)
      <4>1. j \in 1..Len(u) /\ j > i /\ j - 1 \in k + 1..Len(s)
        BY <1>1, <2>1, <3>1
      <4>2. u[j] = s[j - 1]
        BY <1>3, <4>1
      <4> QED
        BY <4>1, <4>2 DEF Beyond
    <3> QED
      BY <3>1 DEF Beyond
  <2>2. CASE i > k
    <3>1. ASSUME NEW j \in k + 1..Len(u), j # i PROVE u[j] \in Beyond(s, k)
      <4>1. CASE j < i
        <5>1. j \in 1..Len(u) /\ j \in k + 1..Len(s)
          BY <1>1, <4>1
        <5>2. u[j] = s[j]
          BY <1>3, <4>1, <5>1
        <5> QED
          BY <5>1, <5>2 DEF Beyond
      <4>2. CASE j > i
        <5>1. j \in 1..Len(u) /\ j - 1 \in k + 1..Len(s)
          BY <1>1, <2>2, <4>2
        <5>2. u[j] = s[j - 1]
          BY <1>3, <4>2, <5>1
        <5> QED
          BY <5>1, <5>2 DEF Beyond
      <4> QED
        BY <3>1, <4>1, <4>2
    <3> QED
      BY <3>1 DEF Beyond
  <2> QED
    BY <2>1, <2>2
<1> QED
  BY <1>5, <1>6, <1>7, <1>8 DEF u

LEMMA PageType ==
  ASSUME NEW S, NEW s \in Seq(S), NEW p \in Nat
  PROVE  PageOf(s, p) \in Seq(S)
<1> DEFINE k == IF p = 0 THEN 0 ELSE (p - 1) * PeoplePage
<1>1. k \in Nat /\ PeoplePage \in Nat
  BY BoundsAssumption
<1> HIDE DEF k
<1>2. Slice(s, k, PeoplePage) \in Seq(S)
  BY <1>1, SliceType
<1> QED
  BY <1>2 DEF PageOf, k

LEMMA TurnFacts ==
  ASSUME TypeOK, NEW q \in Requests, NEW s \in Stages, Turn(q, s)
  PROVE  /\ at' \in [Requests -> Stages] /\ at'[q] = s
         /\ \A p \in Requests \ {q} : at'[p] = at[p]
         /\ cursor' \in [Requests -> Nat] /\ more' \in [Requests -> BOOLEAN]
BY DEF TypeOK, Turn

LEMMA ForgetFacts ==
  ASSUME TypeOK, NEW q \in Requests, NEW n \in Nat, NEW m \in Nat, Forget(q, n, m)
  PROVE  /\ began' \in [Requests -> SUBSET Tags]
         /\ added' \in [Requests -> SUBSET Tags] /\ removed' \in [Requests -> SUBSET Tags]
         /\ shiftsAt' \in [Requests -> Nat] /\ shifts' \in 0..MaxShifts
         /\ movesAt' \in [Requests -> Nat] /\ moves' \in 0..MaxMoves
BY DEF TypeOK, Forget

LEMMA FinishFacts ==
  ASSUME TypeOK, NEW q \in Requests, Finish(q)
  PROVE  /\ at' \in [Requests -> Stages]
         /\ cursor' \in [Requests -> Nat] /\ more' \in [Requests -> BOOLEAN]
         /\ got' \in [Requests -> Seq(Tags)] /\ rows' \in [Requests -> Seq(Repos)]
         /\ people' \in [Requests -> SUBSET People]
         /\ tasks' \in [Requests -> [Repos -> Nat \cup {Ended}]]
         /\ \A p \in Requests : at'[p] = "idle" => got'[p] = <<>> /\ rows'[p] = <<>> /\ people'[p] = {}
         /\ began' \in [Requests -> SUBSET Tags]
         /\ added' \in [Requests -> SUBSET Tags] /\ removed' \in [Requests -> SUBSET Tags]
         /\ shiftsAt' \in [Requests -> Nat] /\ shifts' \in 0..MaxShifts
         /\ movesAt' \in [Requests -> Nat] /\ moves' \in 0..MaxMoves
<1>1. "idle" \in Stages /\ Turn(q, "idle") /\ Forget(q, 0, 0)
  BY DEF Finish, Stages
<1>2. <<>> \in Seq(Tags) /\ <<>> \in Seq(Repos) /\ NoTasks \in [Repos -> Nat \cup {Ended}]
  BY DEF NoTasks
<1>3. /\ got' \in [Requests -> Seq(Tags)] /\ rows' \in [Requests -> Seq(Repos)]
      /\ people' \in [Requests -> SUBSET People]
      /\ tasks' \in [Requests -> [Repos -> Nat \cup {Ended}]]
  BY <1>2 DEF Finish, TypeOK
<1>4. /\ at' \in [Requests -> Stages] /\ at'[q] = "idle"
      /\ \A p \in Requests \ {q} : at'[p] = at[p]
      /\ cursor' \in [Requests -> Nat] /\ more' \in [Requests -> BOOLEAN]
  BY <1>1, TurnFacts
<1>5. ASSUME NEW p \in Requests, at'[p] = "idle"
      PROVE  got'[p] = <<>> /\ rows'[p] = <<>> /\ people'[p] = {}
  BY <1>4, <1>5 DEF Finish, TypeOK
<1> QED
  BY <1>1, <1>3, <1>4, <1>5, ForgetFacts

-----------------------------------------------------------------------------
(* GitHub's steps, and those of the requests.                              *)

\* The changes of the lists of people, and of the list of repositories.
Shifts == \/ \E r \in Repos : Overtake(r) \/ Contribute(r)
          \/ Join \/ Leave
Moves == Create \/ Delete

LEMMA OvertakeShift ==
  ASSUME TypeOK, NEW r \in Repos, Overtake(r)
  PROVE  /\ Shift /\ github' \in WorldType
         /\ \E i \in 2..Len(github.contributors[r]) :
              github'.contributors = [github.contributors EXCEPT ![r] = <<@[i]>> \o RemoveAt(@, i)]
         /\ github'.releases = github.releases /\ github'.planned = github.planned
         /\ github'.members = github.members /\ github'.repos = github.repos
<1>1. github \in WorldType /\ github.contributors[r] \in Seq(People)
  BY DEF TypeOK, WorldType
<1>2. PICK i \in 2..Len(github.contributors[r]) :
        github' = [github EXCEPT !.contributors[r] = <<@[i]>> \o RemoveAt(@, i)] /\ Shift
  BY DEF Overtake
<1>3. RemoveAt(github.contributors[r], i) \in Seq(People) /\ github.contributors[r][i] \in People
  BY <1>1, RemoveType
<1>4. <<github.contributors[r][i]>> \o RemoveAt(github.contributors[r], i) \in Seq(People)
  BY <1>3
<1>5. github' \in WorldType
  BY <1>1, <1>2, <1>4 DEF WorldType
<1>6. github'.contributors = [github.contributors EXCEPT ![r] = <<@[i]>> \o RemoveAt(@, i)]
  BY <1>1, <1>2 DEF WorldType
<1>7. /\ github'.releases = github.releases /\ github'.planned = github.planned
      /\ github'.members = github.members /\ github'.repos = github.repos
  BY <1>1, <1>2 DEF WorldType
<1> QED
  BY <1>2, <1>5, <1>6, <1>7

LEMMA ContributeShift ==
  ASSUME TypeOK, NEW r \in Repos, Contribute(r)
  PROVE  /\ Shift /\ github' \in WorldType
         /\ \E p \in People, i \in 1..Len(github.contributors[r]) + 1 :
              github'.contributors = [github.contributors EXCEPT ![r] = InsertAt(@, i, p)]
         /\ github'.releases = github.releases /\ github'.planned = github.planned
         /\ github'.members = github.members /\ github'.repos = github.repos
<1>1. /\ github \in WorldType /\ github.contributors[r] \in Seq(People)
      /\ github.newcomers \subseteq People
  BY DEF TypeOK, WorldType
<1>2. PICK p \in People, i \in 1..Len(github.contributors[r]) + 1 :
        github' = [github EXCEPT !.contributors[r] = InsertAt(@, i, p)] /\ Shift
  BY <1>1 DEF Contribute
<1>3. InsertAt(github.contributors[r], i, p) \in Seq(People)
  BY <1>1, InsertFacts
<1>4. github' \in WorldType
  BY <1>1, <1>2, <1>3 DEF WorldType
<1>5. github'.contributors = [github.contributors EXCEPT ![r] = InsertAt(@, i, p)]
  BY <1>1, <1>2 DEF WorldType
<1>6. /\ github'.releases = github.releases /\ github'.planned = github.planned
      /\ github'.members = github.members /\ github'.repos = github.repos
  BY <1>1, <1>2 DEF WorldType
<1> QED
  BY <1>2, <1>4, <1>5, <1>6

LEMMA MembersShift ==
  ASSUME TypeOK, Join \/ Leave
  PROVE  /\ Shift /\ github' \in WorldType
         /\ \/ \E p \in People, i \in 1..Len(github.members) + 1 :
                 github'.members = InsertAt(github.members, i, p)
            \/ \E i \in 1..Len(github.members) : github'.members = RemoveAt(github.members, i)
         /\ github'.releases = github.releases /\ github'.planned = github.planned
         /\ github'.contributors = github.contributors /\ github'.repos = github.repos
<1>1. github \in WorldType /\ github.members \in Seq(People) /\ github.newcomers \subseteq People
  BY DEF TypeOK, WorldType
<1>2. ASSUME NEW D \in Seq(People), github' = [github EXCEPT !.members = D]
      PROVE  /\ github' \in WorldType /\ github'.members = D
             /\ github'.releases = github.releases /\ github'.planned = github.planned
             /\ github'.contributors = github.contributors /\ github'.repos = github.repos
  BY <1>1, <1>2 DEF WorldType
<1>3. CASE Join
  <2>1. PICK p \in People, i \in 1..Len(github.members) + 1 :
          github' = [github EXCEPT !.members = InsertAt(@, i, p)] /\ Shift
    BY <1>1, <1>3 DEF Join
  <2>2. InsertAt(github.members, i, p) \in Seq(People)
    BY <1>1, InsertFacts
  <2> QED
    BY <1>2, <2>1, <2>2
<1>4. CASE Leave
  <2>1. PICK i \in 1..Len(github.members) :
          github' = [github EXCEPT !.members = RemoveAt(@, i)] /\ Shift
    BY <1>4 DEF Leave
  <2>2. RemoveAt(github.members, i) \in Seq(People)
    BY <1>1, RemoveType
  <2> QED
    BY <1>2, <2>1, <2>2
<1> QED
  BY <1>3, <1>4

LEMMA ReposMove ==
  ASSUME TypeOK, Moves
  PROVE  /\ Move /\ github' \in WorldType
         /\ \/ \E r \in Repos \ Range(github.repos), i \in 1..Len(github.repos) + 1 :
                 github'.repos = InsertAt(github.repos, i, r)
            \/ \E i \in 1..Len(github.repos) : github'.repos = RemoveAt(github.repos, i)
         /\ github'.releases = github.releases /\ github'.planned = github.planned
         /\ github'.contributors = github.contributors /\ github'.members = github.members
<1>1. github \in WorldType /\ github.repos \in Seq(Repos) /\ github.drafts \subseteq Repos
  BY DEF TypeOK, WorldType
<1>2. ASSUME NEW D \in Seq(Repos), github' = [github EXCEPT !.repos = D]
      PROVE  /\ github' \in WorldType /\ github'.repos = D
             /\ github'.releases = github.releases /\ github'.planned = github.planned
             /\ github'.contributors = github.contributors /\ github'.members = github.members
  BY <1>1, <1>2 DEF WorldType
<1>3. CASE Create
  <2>1. PICK r \in Repos \ Range(github.repos), i \in 1..Len(github.repos) + 1 :
          github' = [github EXCEPT !.repos = InsertAt(@, i, r)] /\ Move
    BY <1>1, <1>3 DEF Create
  <2>2. InsertAt(github.repos, i, r) \in Seq(Repos)
    BY <1>1, InsertFacts
  <2> QED
    BY <1>2, <2>1, <2>2
<1>4. CASE Delete
  <2>1. PICK i \in 1..Len(github.repos) :
          github' = [github EXCEPT !.repos = RemoveAt(@, i)] /\ Move
    BY <1>4 DEF Delete
  <2>2. RemoveAt(github.repos, i) \in Seq(Repos)
    BY <1>1, RemoveType
  <2> QED
    BY <1>2, <2>1, <2>2
<1> QED
  BY <1>3, <1>4 DEF Moves

\* They have in common that the requests do not move and the releases stay.
LEMMA ShiftFacts ==
  ASSUME TypeOK, Shifts
  PROVE  /\ Shift /\ github' \in WorldType /\ github'.repos = github.repos
         /\ github'.releases = github.releases /\ github'.planned = github.planned
BY OvertakeShift, ContributeShift, MembersShift DEF Shifts

LEMMA GitHubSteps ==
  ASSUME TypeOK, Shifts \/ Moves \/ \E f \in Feeds : Publish(f) \/ TakeBack(f)
  PROVE  TypeOK'
<1> USE DEF TypeOK
<1>0. \A f \in Feeds : github.releases[f] \in Seq(Tags)
  BY DEF WorldType
<1>1. ASSUME NEW f \in Feeds, Publish(f) PROVE TypeOK'
  <2>1. PICK t \in github.planned[f] :
          github' = [github EXCEPT !.releases[f] = <<t>> \o @, !.planned[f] = @ \ {t}]
          /\ added' = [q \in Requests |-> IF Reading(q, f) THEN added[q] \cup {t} ELSE added[q]]
    BY <1>1 DEF Publish
  <2>2. t \in Tags
    BY DEF WorldType
  <2>3. <<t>> \o github.releases[f] \in Seq(Tags)
    BY <1>0, <2>2
  <2>4. github' \in WorldType
    BY <2>1, <2>3 DEF WorldType
  <2>5. added' \in [Requests -> SUBSET Tags]
    BY <2>1, <2>2
  <2> QED
    BY <1>1, <2>4, <2>5 DEF Publish, progress, counts, bounds
<1>2. ASSUME NEW f \in Feeds, TakeBack(f) PROVE TypeOK'
  <2>1. PICK i \in 1..Len(github.releases[f]) :
          github' = [github EXCEPT !.releases[f] = RemoveAt(@, i)]
          /\ removed' = [q \in Requests |->
               IF Reading(q, f) THEN removed[q] \cup {github.releases[f][i]} ELSE removed[q]]
    BY <1>2 DEF TakeBack
  <2>2. RemoveAt(github.releases[f], i) \in Seq(Tags)
    BY <1>0, RemoveType
  <2>3. github' \in WorldType
    BY <2>1, <2>2 DEF WorldType
  <2>4. github.releases[f][i] \in Tags
    BY <1>0
  <2>5. removed' \in [Requests -> SUBSET Tags]
    BY <2>1, <2>4
  <2> QED
    BY <1>2, <2>3, <2>5 DEF TakeBack, progress, counts, bounds
<1>3. CASE Shifts
  <2>1. Shift /\ github' \in WorldType
    BY <1>3, ShiftFacts
  <2>2. shifts' \in 0..MaxShifts
    <3>1. shifts < MaxShifts /\ shifts' = shifts + 1 /\ shifts \in 0..MaxShifts /\ MaxShifts \in Nat
      BY <2>1, BoundsAssumption DEF Shift
    <3> HIDE DEF TypeOK
    <3> QED
      BY <3>1
  <2> QED
    BY <2>1, <2>2 DEF Shift, progress, bounds
<1>4. CASE Moves
  <2>1. Move /\ github' \in WorldType
    BY <1>4, ReposMove
  <2>2. moves' \in 0..MaxMoves
    <3>1. moves < MaxMoves /\ moves' = moves + 1 /\ moves \in 0..MaxMoves /\ MaxMoves \in Nat
      BY <2>1, BoundsAssumption DEF Move
    <3> HIDE DEF TypeOK
    <3> QED
      BY <3>1
  <2> QED
    BY <2>1, <2>2 DEF Move, progress, bounds
<1> QED
  BY <1>1, <1>2, <1>3, <1>4

LEMMA ReadSteps ==
  ASSUME TypeOK, NEW q \in Requests, Start(q) \/ FetchPage(q) \/ Store(q)
  PROVE  TypeOK'
<1> USE DEF TypeOK
<1>1. CASE Start(q)
  <2>1. "pm" \in Stages /\ Turn(q, "pm")
    BY <1>1 DEF Stages, Feeds, Start
  <2>2. /\ at' \in [Requests -> Stages] /\ at'[q] = "pm"
        /\ \A p \in Requests \ {q} : at'[p] = at[p]
        /\ cursor' \in [Requests -> Nat] /\ more' \in [Requests -> BOOLEAN]
    BY <2>1, TurnFacts
  <2>3. runs' \in 0..MaxRuns
    BY <1>1, BoundsAssumption DEF Start
  <2> QED
    BY <1>1, <2>2, <2>3 DEF Start, history, counts
<1>2. CASE FetchPage(q)
  <2> DEFINE page == Slice(github.releases[at[q]], cursor[q], ReleasePage)
  <2>1. at[q] \in Feeds /\ github.releases[at[q]] \in Seq(Tags) /\ at[q] # "idle"
        /\ cursor[q] \in Nat /\ ReleasePage \in Nat
    BY <1>2, BoundsAssumption DEF FetchPage, WorldType, Feeds
  <2>2. page \in Seq(Tags) /\ Range(github.releases[at[q]]) \in SUBSET Tags
    <3>1. page \in Seq(Tags)
      BY <2>1, SliceType
    <3>2. Range(github.releases[at[q]]) \in SUBSET Tags
      BY <2>1, RangeType
    <3> QED
      BY <3>1, <3>2
  <2>3. got' \in [Requests -> Seq(Tags)] /\ \A p \in Requests \ {q} : got'[p] = got[p]
    <3>1. got' = [got EXCEPT ![q] = got[q] \o page] /\ got[q] \in Seq(Tags)
      BY <1>2 DEF FetchPage
    <3> HIDE DEF page
    <3> QED
      BY <2>2, <3>1
  <2>4. cursor' \in [Requests -> Nat] /\ more' \in [Requests -> BOOLEAN]
        /\ began' \in [Requests -> SUBSET Tags]
    BY <1>2, <2>1, <2>2 DEF FetchPage
  <2> QED
    BY <1>2, <2>1, <2>3, <2>4 DEF FetchPage, counts, bounds
<1>3. CASE Store(q)
  <2>1. at[q] \in Feeds /\ got[q] \in Seq(Tags) /\ <<>> \in Seq(Tags)
    BY <1>3 DEF Store
  <2>2. After(at[q]) \in Stages /\ After(at[q]) # "idle" /\ Turn(q, After(at[q]))
    BY <1>3, <2>1 DEF Store, After, Feeds, Stages
  <2>3. /\ at' \in [Requests -> Stages] /\ at'[q] = After(at[q])
        /\ \A p \in Requests \ {q} : at'[p] = at[p]
        /\ cursor' \in [Requests -> Nat] /\ more' \in [Requests -> BOOLEAN]
    BY <2>2, TurnFacts
  <2>4. got' \in [Requests -> Seq(Tags)] /\ \A p \in Requests \ {q} : got'[p] = got[p]
    BY <1>3, <2>1 DEF Store
  <2>5. releaseStats' \in [Feeds -> Seq(Tags) \cup {None}]
    BY <1>3, <2>1 DEF Store
  <2>6. /\ began' \in [Requests -> SUBSET Tags]
        /\ added' \in [Requests -> SUBSET Tags] /\ removed' \in [Requests -> SUBSET Tags]
        /\ shiftsAt' \in [Requests -> Nat] /\ shifts' \in 0..MaxShifts
        /\ movesAt' \in [Requests -> Nat] /\ moves' \in 0..MaxMoves
    <3>1. shifts \in Nat /\ moves \in Nat /\ 0 \in Nat
      BY BoundsAssumption
    <3>2. Forget(q, shifts, moves) \/ Forget(q, 0, 0)
      BY <1>3 DEF Store
    <3> QED
      BY <3>1, <3>2, ForgetFacts
  <2> QED
    BY <1>3, <2>2, <2>3, <2>4, <2>5, <2>6 DEF Store, bounds
<1> QED
  BY <1>1, <1>2, <1>3

LEMMA OrgSteps ==
  ASSUME TypeOK, NEW q \in Requests,
         \/ MembersPage(q) \/ ReposPage(q) \/ Gathered(q)
         \/ \E r \in Repos : ContributorsPage(q, r)
  PROVE  TypeOK'
<1> USE DEF TypeOK
<1>0. /\ github.members \in Seq(People) /\ github.repos \in Seq(Repos)
      /\ \A r \in Repos : github.contributors[r] \in Seq(People)
  BY DEF WorldType
<1>1. CASE MembersPage(q)
  <2> DEFINE page == PageOf(github.members, cursor[q])
  <2>1. Range(page) \in SUBSET People
    <3>1. cursor[q] \in Nat
      OBVIOUS
    <3>2. page \in Seq(People)
      BY <1>0, <3>1, PageType
    <3> HIDE DEF page
    <3> QED
      BY <3>2, RangeType
  <2>2. people' \in [Requests -> SUBSET People]
        /\ \A p \in Requests \ {q} : people'[p] = people[p]
    BY <1>1, <2>1 DEF MembersPage
  <2>3. /\ at' \in [Requests -> Stages] /\ at'[q] # "idle"
        /\ \A p \in Requests \ {q} : at'[p] = at[p]
        /\ cursor' \in [Requests -> Nat] /\ more' \in [Requests -> BOOLEAN]
    <3>1. CASE page = <<>>
      <4>1. "repos" \in Stages /\ Turn(q, "repos")
        BY <1>1, <3>1 DEF MembersPage, Stages
      <4> QED
        BY <4>1, TurnFacts
    <3>2. CASE page # <<>>
      <4>1. at[q] = "members" /\ cursor' = [cursor EXCEPT ![q] = @ + 1] /\ at' = at /\ more' = more
        BY <1>1, <3>2, Zenon DEF MembersPage
      <4> QED
        BY <4>1
    <3> QED
      BY <3>1, <3>2
  <2> QED
    BY <1>1, <2>2, <2>3 DEF MembersPage, history, counts, bounds
<1>2. CASE ReposPage(q)
  <2> DEFINE page == Slice(github.repos, cursor[q], RepoPage)
             t == [r \in Repos |-> IF r \in Range(page) \cap Eligible THEN 0 ELSE Ended]
  <2>1. page \in Seq(Repos) /\ RepoPage \in Nat
    BY <1>0, BoundsAssumption, SliceType
  <2>2. rows' \in [Requests -> Seq(Repos)] /\ \A p \in Requests \ {q} : rows'[p] = rows[p]
    <3>1. rows' = [rows EXCEPT ![q] = rows[q] \o page] /\ rows[q] \in Seq(Repos)
      BY <1>2 DEF ReposPage
    <3> HIDE DEF page
    <3> QED
      BY <2>1, <3>1
  <2>3. tasks' \in [Requests -> [Repos -> Nat \cup {Ended}]]
    <3>1. tasks' = [tasks EXCEPT ![q] = t]
      BY <1>2 DEF ReposPage
    <3>2. t \in [Repos -> Nat \cup {Ended}]
      OBVIOUS
    <3> HIDE DEF t
    <3> QED
      BY <3>1, <3>2
  <2>4. at' \in [Requests -> Stages] /\ at'[q] # "idle"
        /\ \A p \in Requests \ {q} : at'[p] = at[p]
    BY <1>2 DEF ReposPage, Stages
  <2>5. cursor' \in [Requests -> Nat] /\ more' \in [Requests -> BOOLEAN]
    <3>1. /\ cursor' = [cursor EXCEPT ![q] = cursor[q] + RepoPage]
          /\ more' = [more EXCEPT ![q] = cursor[q] + RepoPage < Len(github.repos)]
      BY <1>2 DEF ReposPage
    <3>2. cursor[q] + RepoPage \in Nat
      BY <2>1
    <3> QED
      BY <3>1, <3>2
  <2>6. /\ UNCHANGED <<github, releaseStats, orgStats, got, people>>
        /\ UNCHANGED history /\ UNCHANGED bounds
    BY <1>2 DEF ReposPage
  <2> QED
    BY <1>2, <2>2, <2>3, <2>4, <2>5, <2>6 DEF history, counts, bounds
<1>3. CASE Gathered(q)
  <2>1. /\ at' \in [Requests -> Stages] /\ at'[q] # "idle"
        /\ \A p \in Requests \ {q} : at'[p] = at[p]
    BY <1>3 DEF Gathered, Stages
  <2> QED
    BY <1>3, <2>1 DEF Gathered, history, counts, bounds
<1>4. ASSUME NEW r \in Repos, ContributorsPage(q, r) PROVE TypeOK'
  <2> DEFINE page == PageOf(github.contributors[r], tasks[q][r])
  <2>1. tasks[q][r] \in Nat
    BY <1>4 DEF ContributorsPage
  <2>2. Range(page) \in SUBSET People
    <3>1. page \in Seq(People)
      BY <1>0, <2>1, PageType
    <3> HIDE DEF page
    <3> QED
      BY <3>1, RangeType
  <2>3. people' \in [Requests -> SUBSET People]
        /\ \A p \in Requests \ {q} : people'[p] = people[p]
    BY <1>4, <2>2 DEF ContributorsPage
  <2>4. tasks' \in [Requests -> [Repos -> Nat \cup {Ended}]]
    BY <1>4, <2>1 DEF ContributorsPage
  <2>5. at[q] # "idle"
    BY <1>4 DEF ContributorsPage
  <2> QED
    BY <1>4, <2>3, <2>4, <2>5 DEF ContributorsPage, history, counts, bounds
<1> QED
  BY <1>1, <1>2, <1>3, <1>4

LEMMA EndSteps ==
  ASSUME TypeOK, NEW q \in Requests, StoreOrg(q) \/ RepoGone(q) \/ Fail(q)
  PROVE  TypeOK'
<1>1. Finish(q)
  BY DEF StoreOrg, RepoGone, Fail
<1>2. orgStats' \in [people : SUBSET People, repos : Seq(Repos)] \cup {None}
  BY DEF TypeOK, StoreOrg, RepoGone, Fail, Feeds
<1>3. fails' \in 0..MaxFails
  BY BoundsAssumption DEF TypeOK, StoreOrg, RepoGone, Fail, bounds
<1> QED
  BY <1>1, <1>2, <1>3, FinishFacts DEF TypeOK, StoreOrg, RepoGone, Fail, bounds

LEMMA TypeInit == Init => TypeOK
<1> SUFFICES ASSUME Init PROVE TypeOK
  OBVIOUS
<1>1. NoTasks \in [Repos -> Nat \cup {Ended}]
  BY DEF NoTasks
<1>2. tasks \in [Requests -> [Repos -> Nat \cup {Ended}]]
  BY <1>1 DEF Init
<1>3. github \in WorldType
  BY WorldsAssumption DEF Init
<1>4. <<>> \in Seq(Tags) /\ <<>> \in Seq(Repos) /\ "idle" \in Stages
  BY DEF Stages
<1> QED
  BY <1>2, <1>3, <1>4, BoundsAssumption DEF Init, TypeOK

LEMMA TypeStep == TypeOK /\ [Next]_vars => TypeOK'
<1> SUFFICES ASSUME TypeOK, [Next]_vars PROVE TypeOK'
  OBVIOUS
<1>1. CASE UNCHANGED vars
  BY <1>1 DEF TypeOK, vars, progress, history, counts, bounds
<1>2. ASSUME NEW q \in Requests, Start(q) \/ Step(q) \/ Fail(q) PROVE TypeOK'
  BY <1>2, ReadSteps, OrgSteps, EndSteps DEF Step
<1> QED
  BY <1>1, <1>2, GitHubSteps DEF Next, Shifts, Moves

\* Every variable of the statistics requests keeps its type, whatever GitHub
\* does between two pages: what is put in the cache is always a whole list.
THEOREM GitHubTypeCorrect == Spec => []TypeOK
BY TypeInit, TypeStep, PTL DEF Spec

-----------------------------------------------------------------------------
(* The invariant of the releases that are read page by page.               *)

\* Request q has read a page of a list of releases.
InList(q) == at[q] \in Feeds /\ cursor[q] > 0
List(q) == github.releases[at[q]]

\* What it has yet to read.
Ahead(q) == IF more[q] THEN Beyond(List(q), cursor[q]) ELSE {}

\* What was there all along and will not be read any more, and what was read
\* and will be read again.
Missed(q) == (began[q] \ removed[q]) \ (Range(got[q]) \cup Ahead(q))
Again(q) == Range(got[q]) \cap Ahead(q)

\* A list has each release once, and none that is yet to be published.
ListsInv ==
  \A f \in Feeds :
    IsInjective(github.releases[f]) /\ github.planned[f] \cap Range(github.releases[f]) = {}

\* The history of a request is that of the list it is reading.
Blank(q) ==
  ~InList(q) => got[q] = <<>> /\ added[q] = {} /\ removed[q] = {} /\ (at[q] \in Feeds => more[q])

\* What was taken back is not there, and nothing comes twice.
Gone(q) ==
  InList(q) =>
    /\ removed[q] \cap Range(List(q)) = {} /\ removed[q] \cap github.planned[at[q]] = {}
    /\ added[q] \cap github.planned[at[q]] = {}
    /\ IsFiniteSet(added[q]) /\ IsFiniteSet(removed[q])

MissedInv(q) ==
  InList(q) => IsFiniteSet(Missed(q)) /\ Cardinality(Missed(q)) <= Cardinality(removed[q])

AgainInv(q) ==
  InList(q) =>
    Len(got[q]) + Cardinality(Again(q)) <= Cardinality(Range(got[q])) + Cardinality(added[q])

ReadInv ==
  ListsInv /\ \A q \in Requests : Blank(q) /\ Gone(q) /\ MissedInv(q) /\ AgainInv(q)

LEMMA OneMore ==
  ASSUME NEW A, NEW B, NEW x, IsFiniteSet(A), B \subseteq A \cup {x}
  PROVE  /\ IsFiniteSet(B) /\ Cardinality(A) \in Nat /\ Cardinality(B) \in Nat
         /\ Cardinality(B) <= Cardinality(A) + 1
<1>1. IsFiniteSet(A \cup {x}) /\ Cardinality(A) \in Nat /\ Cardinality(A \cup {x}) \in Nat
      /\ Cardinality(A \cup {x}) <= Cardinality(A) + 1
  BY FS_AddElement, FS_CardinalityType
<1>2. B \in SUBSET (A \cup {x})
  OBVIOUS
<1>3. IsFiniteSet(B) /\ Cardinality(B) <= Cardinality(A \cup {x})
  BY <1>1, <1>2, FS_Subset
<1>4. Cardinality(B) \in Nat
  BY <1>3, FS_CardinalityType
<1> QED
  BY <1>1, <1>3, <1>4

LEMMA NotMore ==
  ASSUME NEW A, NEW B, IsFiniteSet(A), B \subseteq A
  PROVE  /\ IsFiniteSet(B) /\ Cardinality(A) \in Nat /\ Cardinality(B) \in Nat
         /\ Cardinality(B) <= Cardinality(A)
<1>1. B \in SUBSET A
  OBVIOUS
<1>2. IsFiniteSet(B) /\ Cardinality(B) <= Cardinality(A)
  BY <1>1, FS_Subset
<1> QED
  BY <1>2, FS_CardinalityType

\* A page p is added to what was read, g: what was ahead in the page is not
\* any more.
LEMMA PageAgain ==
  ASSUME NEW S, NEW g \in Seq(S), NEW p \in Seq(S), NEW rest, NEW d \in Nat,
         IsInjective(p), Range(p) \cap rest = {},
         Len(g) + Cardinality(Range(g) \cap (Range(p) \cup rest)) <= Cardinality(Range(g)) + d
  PROVE  Len(g \o p) + Cardinality(Range(g \o p) \cap rest) <= Cardinality(Range(g \o p)) + d
<1> DEFINE old == Range(g)
           again == old \cap (Range(p) \cup rest)
           new == Range(p) \ old
           twice == Range(p) \cap old
<1>1. /\ Range(g \o p) = old \cup Range(p) /\ Len(g \o p) = Len(g) + Len(p)
      /\ Len(g) \in Nat /\ Len(p) \in Nat
  BY RangeConcat
<1>2. /\ IsFiniteSet(old) /\ Cardinality(old) \in Nat
      /\ IsFiniteSet(Range(p)) /\ Cardinality(Range(p)) = Len(p)
  BY RangeCount
<1> HIDE DEF old
<1>3. Range(g \o p) \cap rest = again \ twice /\ twice \subseteq again /\ again \subseteq old
  BY <1>1
<1>4. IsFiniteSet(again) /\ Cardinality(again) \in Nat
  BY <1>2, <1>3, NotMore
<1>5. Cardinality(again \ twice) = Cardinality(again) - Cardinality(twice) /\ Cardinality(twice) \in Nat
  <2>1. Cardinality(again \ twice) = Cardinality(again) - Cardinality(again \cap twice)
    BY <1>4, FS_Difference
  <2>2. again \cap twice = twice
    BY <1>3
  <2>3. Cardinality(twice) \in Nat
    BY <1>3, <1>4, NotMore
  <2> QED
    BY <2>1, <2>2, <2>3
<1>6. Cardinality(new) = Len(p) - Cardinality(twice) /\ IsFiniteSet(new) /\ Cardinality(new) \in Nat
  <2>1. IsFiniteSet(new) /\ Cardinality(new) = Cardinality(Range(p)) - Cardinality(twice)
    BY <1>2, FS_Difference
  <2> QED
    BY <1>2, <2>1, FS_CardinalityType
<1>7. Cardinality(Range(g \o p)) = Cardinality(old) + Cardinality(new)
  <2>1. Range(g \o p) = old \cup new /\ old \cap new = {}
    BY <1>1
  <2>2. Cardinality(old \cup new) = Cardinality(old) + Cardinality(new) - Cardinality(old \cap new)
    BY <1>2, <1>6, FS_Union
  <2>3. Cardinality(old \cap new) = 0
    BY <2>1, FS_EmptySet
  <2> QED
    BY <1>2, <1>6, <2>1, <2>2, <2>3
<1>8. Len(g) + Cardinality(again) <= Cardinality(old) + d
  BY DEF old
<1> HIDE DEF again, new, twice
<1>9. (Len(g) + Len(p)) + (Cardinality(again) - Cardinality(twice))
        <= (Cardinality(old) + (Len(p) - Cardinality(twice))) + d
  <2>1. \A l, m, a, t, o, e \in Nat : l + a <= o + e => (l + m) + (a - t) <= (o + (m - t)) + e
    OBVIOUS
  <2> QED
    BY <1>1, <1>2, <1>4, <1>5, <1>8, <2>1
<1> QED
  BY <1>1, <1>3, <1>5, <1>6, <1>7, <1>9

\* A request that does not move keeps what holds of it while GitHub's lists
\* of releases do not change.
LEMMA ReadFrame ==
  ASSUME NEW q \in Requests, Blank(q), Gone(q), MissedInv(q), AgainInv(q),
         github'.releases = github.releases, github'.planned = github.planned,
         at'[q] = at[q], cursor'[q] = cursor[q], more'[q] = more[q], got'[q] = got[q],
         began'[q] = began[q], added'[q] = added[q], removed'[q] = removed[q]
  PROVE  Blank(q)' /\ Gone(q)' /\ MissedInv(q)' /\ AgainInv(q)'
<1>1. InList(q)' = InList(q) /\ List(q)' = List(q) /\ Ahead(q)' = Ahead(q)
  BY DEF InList, List, Ahead
<1>2. Missed(q)' = Missed(q) /\ Again(q)' = Again(q)
  BY <1>1 DEF Missed, Again
<1> QED
  BY <1>1, <1>2 DEF Blank, Gone, MissedInv, AgainInv

LEMMA PublishRead ==
  ASSUME TypeOK, ReadInv, NEW f \in Feeds, Publish(f)
  PROVE  ReadInv'
<1> DEFINE M == github.releases[f]
<1>1. PICK t \in github.planned[f] :
        /\ github' = [github EXCEPT !.releases[f] = <<t>> \o @, !.planned[f] = @ \ {t}]
        /\ added' = [q \in Requests |-> IF Reading(q, f) THEN added[q] \cup {t} ELSE added[q]]
  BY DEF Publish
<1>2. /\ at' = at /\ cursor' = cursor /\ more' = more /\ got' = got
      /\ began' = began /\ removed' = removed
  BY DEF Publish, progress
<1>3. t \in Tags /\ M \in Seq(Tags) /\ t \notin Range(M) /\ IsInjective(M)
      /\ github.planned[f] \cap Range(M) = {}
  BY DEF TypeOK, WorldType, ReadInv, ListsInv
<1>4. /\ github'.releases = [github.releases EXCEPT ![f] = <<t>> \o M]
      /\ github'.planned = [github.planned EXCEPT ![f] = @ \ {t}]
      /\ github.releases \in [Feeds -> Seq(Tags)] /\ github.planned \in [Feeds -> SUBSET Tags]
  BY <1>1 DEF TypeOK, WorldType
<1>5. github'.releases[f] = <<t>> \o M /\ github'.planned[f] = github.planned[f] \ {t}
      /\ \A g \in Feeds \ {f} : github'.releases[g] = github.releases[g] /\ github'.planned[g] = github.planned[g]
  BY <1>4
<1>6. Range(<<t>> \o M) = {t} \cup Range(M) /\ IsInjective(<<t>> \o M)
  <2>1. 0 \in Nat
    OBVIOUS
  <2> QED
    BY <1>3, <2>1, PrependFacts
<1>7. ListsInv'
  <2>1. ASSUME NEW g \in Feeds
        PROVE  IsInjective(github'.releases[g]) /\ github'.planned[g] \cap Range(github'.releases[g]) = {}
    <3>1. CASE g = f
      BY <1>3, <1>5, <1>6, <3>1
    <3>2. CASE g # f
      BY <1>5, <3>2 DEF ReadInv, ListsInv
    <3> QED
      BY <3>1, <3>2
  <2> QED
    BY <2>1 DEF ListsInv
<1>8. ASSUME NEW q \in Requests
      PROVE  Blank(q)' /\ Gone(q)' /\ MissedInv(q)' /\ AgainInv(q)'
  <2>0. Blank(q) /\ Gone(q) /\ MissedInv(q) /\ AgainInv(q)
    BY DEF ReadInv
  <2>1. CASE Reading(q, f)
    <3>1. at[q] = f /\ cursor[q] > 0 /\ InList(q) /\ InList(q)' /\ List(q) = M /\ List(q)' = <<t>> \o M
          /\ cursor[q] \in Nat
      BY <1>2, <1>5, <2>1 DEF Reading, InList, List, TypeOK
    <3>2. added'[q] = added[q] \cup {t} /\ t \notin added[q] /\ t \notin removed[q]
      BY <1>1, <2>0, <2>1, <3>1 DEF Gone
    <3>3. PICK x : Ahead(q) \subseteq Ahead(q)' /\ Ahead(q)' \subseteq Ahead(q) \cup {x}
      <4>1. /\ Beyond(M, cursor[q]) \subseteq Beyond(<<t>> \o M, cursor[q])
            /\ \E x : Beyond(<<t>> \o M, cursor[q]) \subseteq Beyond(M, cursor[q]) \cup {x}
        <5>1. M \in Seq(Tags) /\ t \in Tags /\ t \notin Range(M) /\ cursor[q] \in Nat /\ cursor[q] > 0
          BY <1>3, <3>1
        <5> HIDE DEF M
        <5> QED
          BY <5>1, PrependFacts
      <4>2. /\ Ahead(q) = IF more[q] THEN Beyond(M, cursor[q]) ELSE {}
            /\ Ahead(q)' = IF more[q] THEN Beyond(<<t>> \o M, cursor[q]) ELSE {}
        BY <1>2, <3>1 DEF Ahead
      <4>3. PICK y : Beyond(<<t>> \o M, cursor[q]) \subseteq Beyond(M, cursor[q]) \cup {y}
        BY <4>1
      <4>4. Ahead(q) \subseteq Ahead(q)' /\ Ahead(q)' \subseteq Ahead(q) \cup {y}
        BY <4>1, <4>2, <4>3
      <4> QED
        BY <4>4
    <3>4. IsFiniteSet(added'[q]) /\ Cardinality(added'[q]) = Cardinality(added[q]) + 1
          /\ Cardinality(added[q]) \in Nat
      <4>1. IsFiniteSet(added[q])
        BY <2>0, <3>1 DEF Gone
      <4>2. IsFiniteSet(added[q] \cup {t}) /\ Cardinality(added[q] \cup {t}) = Cardinality(added[q]) + 1
        BY <3>2, <4>1, FS_AddElement
      <4> QED
        BY <3>2, <4>1, <4>2, FS_CardinalityType
    <3>5. Gone(q)'
      <4>1. /\ removed[q] \cap Range(M) = {} /\ removed[q] \cap github.planned[f] = {}
            /\ added[q] \cap github.planned[f] = {} /\ IsFiniteSet(removed[q])
        BY <2>0, <3>1 DEF Gone
      <4>2. /\ removed'[q] \cap Range(<<t>> \o M) = {} /\ removed'[q] \cap github'.planned[f] = {}
            /\ added'[q] \cap github'.planned[f] = {} /\ IsFiniteSet(removed'[q])
        BY <1>2, <1>5, <1>6, <3>2, <4>1
      <4> QED
        BY <1>2, <3>1, <3>4, <4>2 DEF Gone
    <3>6. MissedInv(q)'
      <4>1. Missed(q)' \subseteq Missed(q)
        BY <1>2, <3>3 DEF Missed
      <4>2. IsFiniteSet(Missed(q)) /\ Cardinality(Missed(q)) <= Cardinality(removed[q])
            /\ Cardinality(removed[q]) \in Nat
        BY <2>0, <3>1, FS_CardinalityType DEF MissedInv, Gone
      <4>3. IsFiniteSet(Missed(q)') /\ Cardinality(Missed(q)') <= Cardinality(Missed(q))
            /\ Cardinality(Missed(q)') \in Nat /\ Cardinality(Missed(q)) \in Nat
        BY <4>1, <4>2, NotMore
      <4>4. Cardinality(Missed(q)') <= Cardinality(removed'[q])
        BY <1>2, <4>2, <4>3
      <4> QED
        BY <4>3, <4>4 DEF MissedInv
    <3>7. AgainInv(q)'
      <4>1. Again(q)' \subseteq Again(q) \cup {x}
        BY <1>2, <3>3 DEF Again
      <4>2. got[q] \in Seq(Tags) /\ IsFiniteSet(Range(got[q])) /\ Cardinality(Range(got[q])) \in Nat
            /\ Len(got[q]) \in Nat
        BY RangeCount DEF TypeOK
      <4>3. IsFiniteSet(Again(q))
        BY <4>2, NotMore DEF Again
      <4>4. Cardinality(Again(q)') <= Cardinality(Again(q)) + 1
            /\ Cardinality(Again(q)') \in Nat /\ Cardinality(Again(q)) \in Nat
        BY <4>1, <4>3, OneMore
      <4>5. Len(got[q]) + Cardinality(Again(q)) <= Cardinality(Range(got[q])) + Cardinality(added[q])
        BY <2>0, <3>1 DEF AgainInv
      <4>6. Len(got[q]) + Cardinality(Again(q)') <= Cardinality(Range(got[q])) + Cardinality(added'[q])
        BY <3>4, <4>2, <4>4, <4>5
      <4> QED
        BY <1>2, <4>6 DEF AgainInv
    <3> QED
      BY <3>1, <3>5, <3>6, <3>7 DEF Blank
  <2>2. CASE ~Reading(q, f)
    <3>1. added'[q] = added[q] /\ InList(q)' = InList(q)
      BY <1>1, <1>2, <2>2 DEF InList
    <3>2. CASE ~InList(q)
      BY <1>2, <2>0, <3>1, <3>2 DEF Blank, Gone, MissedInv, AgainInv
    <3>3. CASE InList(q)
      <4>1. at[q] \in Feeds \ {f}
        BY <2>2, <3>3 DEF InList, Reading
      <4>2. List(q)' = List(q) /\ github'.planned[at'[q]] = github.planned[at[q]] /\ Ahead(q)' = Ahead(q)
        BY <1>2, <1>5, <4>1 DEF List, Ahead
      <4>3. Missed(q)' = Missed(q) /\ Again(q)' = Again(q)
        BY <1>2, <4>2 DEF Missed, Again
      <4> QED
        BY <1>2, <2>0, <3>1, <3>3, <4>2, <4>3 DEF Blank, Gone, MissedInv, AgainInv
    <3> QED
      BY <3>2, <3>3
  <2> QED
    BY <2>1, <2>2
<1> QED
  BY <1>7, <1>8 DEF ReadInv

LEMMA TakeBackRead ==
  ASSUME TypeOK, ReadInv, NEW f \in Feeds, TakeBack(f)
  PROVE  ReadInv'
<1> DEFINE M == github.releases[f]
<1>1. PICK i \in 1..Len(M) :
        /\ github' = [github EXCEPT !.releases[f] = RemoveAt(@, i)]
        /\ removed' = [q \in Requests |->
             IF Reading(q, f) THEN removed[q] \cup {M[i]} ELSE removed[q]]
  BY DEF TakeBack
<1> DEFINE N == RemoveAt(M, i)
<1>2. /\ at' = at /\ cursor' = cursor /\ more' = more /\ got' = got
      /\ began' = began /\ added' = added
  BY DEF TakeBack, progress
<1>3. M \in Seq(Tags) /\ M[i] \in Range(M) /\ IsInjective(M) /\ github.planned[f] \cap Range(M) = {}
  BY DEF TypeOK, WorldType, ReadInv, ListsInv, Range
<1>4. /\ github'.releases = [github.releases EXCEPT ![f] = N]
      /\ github'.planned = github.planned /\ github.releases \in [Feeds -> Seq(Tags)]
  BY <1>1 DEF TypeOK, WorldType
<1>5. github'.releases[f] = N /\ \A g \in Feeds \ {f} : github'.releases[g] = github.releases[g]
  BY <1>4
<1>6. /\ Range(N) \subseteq Range(M) /\ M[i] \notin Range(N) /\ IsInjective(N)
      /\ \A k \in Nat : /\ Beyond(N, k) \subseteq Beyond(M, k)
                        /\ \E x : Beyond(M, k) \subseteq Beyond(N, k) \cup {x}
  <2>1. M \in Seq(Tags) /\ i \in 1..Len(M) /\ 0 \in Nat /\ IsInjective(M)
    BY <1>3
  <2> HIDE DEF M
  <2> QED
    BY <2>1, RemoveMoves
<1> HIDE DEF N
<1>7. ListsInv'
  <2>1. ASSUME NEW g \in Feeds
        PROVE  IsInjective(github'.releases[g]) /\ github'.planned[g] \cap Range(github'.releases[g]) = {}
    <3>1. CASE g = f
      BY <1>3, <1>4, <1>5, <1>6, <3>1
    <3>2. CASE g # f
      BY <1>4, <1>5, <3>2 DEF ReadInv, ListsInv
    <3> QED
      BY <3>1, <3>2
  <2> QED
    BY <2>1 DEF ListsInv
<1>8. ASSUME NEW q \in Requests
      PROVE  Blank(q)' /\ Gone(q)' /\ MissedInv(q)' /\ AgainInv(q)'
  <2>0. Blank(q) /\ Gone(q) /\ MissedInv(q) /\ AgainInv(q)
    BY DEF ReadInv
  <2>1. CASE Reading(q, f)
    <3>1. at[q] = f /\ cursor[q] > 0 /\ InList(q) /\ InList(q)' /\ List(q) = M /\ List(q)' = N
          /\ cursor[q] \in Nat
      BY <1>2, <1>5, <2>1 DEF Reading, InList, List, TypeOK
    <3>2. removed'[q] = removed[q] \cup {M[i]} /\ M[i] \notin removed[q]
      BY <1>1, <1>3, <2>0, <2>1, <3>1 DEF Gone
    <3>3. PICK x : Ahead(q)' \subseteq Ahead(q) /\ Ahead(q) \subseteq Ahead(q)' \cup {x}
      <4>1. PICK y : Beyond(N, cursor[q]) \subseteq Beyond(M, cursor[q])
                     /\ Beyond(M, cursor[q]) \subseteq Beyond(N, cursor[q]) \cup {y}
        BY <1>6, <3>1
      <4>2. /\ Ahead(q) = IF more[q] THEN Beyond(M, cursor[q]) ELSE {}
            /\ Ahead(q)' = IF more[q] THEN Beyond(N, cursor[q]) ELSE {}
        BY <1>2, <3>1 DEF Ahead
      <4>3. Ahead(q)' \subseteq Ahead(q) /\ Ahead(q) \subseteq Ahead(q)' \cup {y}
        BY <4>1, <4>2
      <4> QED
        BY <4>3
    <3>4. IsFiniteSet(removed'[q]) /\ Cardinality(removed'[q]) = Cardinality(removed[q]) + 1
          /\ Cardinality(removed[q]) \in Nat
      <4>1. IsFiniteSet(removed[q])
        BY <2>0, <3>1 DEF Gone
      <4>2. IsFiniteSet(removed[q] \cup {M[i]})
            /\ Cardinality(removed[q] \cup {M[i]}) = Cardinality(removed[q]) + 1
        BY <3>2, <4>1, FS_AddElement
      <4> QED
        BY <3>2, <4>1, <4>2, FS_CardinalityType
    <3>5. Gone(q)'
      <4>1. /\ removed[q] \cap Range(M) = {} /\ removed[q] \cap github.planned[f] = {}
            /\ added[q] \cap github.planned[f] = {} /\ IsFiniteSet(added[q])
        BY <2>0, <3>1 DEF Gone
      <4>2. /\ removed'[q] \cap Range(N) = {} /\ removed'[q] \cap github'.planned[f] = {}
            /\ added'[q] \cap github'.planned[f] = {} /\ IsFiniteSet(added'[q])
        BY <1>2, <1>3, <1>4, <1>6, <3>2, <4>1
      <4> QED
        BY <1>2, <3>1, <3>4, <4>2 DEF Gone
    <3>6. MissedInv(q)'
      <4>1. Missed(q)' \subseteq Missed(q) \cup {x}
        BY <1>2, <3>2, <3>3 DEF Missed
      <4>2. IsFiniteSet(Missed(q)) /\ Cardinality(Missed(q)) <= Cardinality(removed[q])
        BY <2>0, <3>1 DEF MissedInv
      <4>3. IsFiniteSet(Missed(q)') /\ Cardinality(Missed(q)') <= Cardinality(Missed(q)) + 1
            /\ Cardinality(Missed(q)') \in Nat /\ Cardinality(Missed(q)) \in Nat
        BY <4>1, <4>2, OneMore
      <4>4. Cardinality(Missed(q)') <= Cardinality(removed'[q])
        BY <3>4, <4>2, <4>3
      <4> QED
        BY <4>3, <4>4 DEF MissedInv
    <3>7. AgainInv(q)'
      <4>1. Again(q)' \subseteq Again(q)
        BY <1>2, <3>3 DEF Again
      <4>2. got[q] \in Seq(Tags) /\ IsFiniteSet(Range(got[q])) /\ Cardinality(Range(got[q])) \in Nat
            /\ Len(got[q]) \in Nat
        BY RangeCount DEF TypeOK
      <4>3. IsFiniteSet(Again(q))
        BY <4>2, NotMore DEF Again
      <4>4. Cardinality(Again(q)') <= Cardinality(Again(q))
            /\ Cardinality(Again(q)') \in Nat /\ Cardinality(Again(q)) \in Nat
        BY <4>1, <4>3, NotMore
      <4>5. Len(got[q]) + Cardinality(Again(q)) <= Cardinality(Range(got[q])) + Cardinality(added[q])
            /\ Cardinality(added[q]) \in Nat
        BY <2>0, <3>1, FS_CardinalityType DEF AgainInv, Gone
      <4>6. Len(got[q]) + Cardinality(Again(q)') <= Cardinality(Range(got[q])) + Cardinality(added[q])
        BY <4>2, <4>4, <4>5
      <4> QED
        BY <1>2, <4>6 DEF AgainInv
    <3> QED
      BY <3>1, <3>5, <3>6, <3>7 DEF Blank
  <2>2. CASE ~Reading(q, f)
    <3>1. removed'[q] = removed[q] /\ InList(q)' = InList(q)
      BY <1>1, <1>2, <2>2 DEF InList
    <3>2. CASE ~InList(q)
      BY <1>2, <2>0, <3>1, <3>2 DEF Blank, Gone, MissedInv, AgainInv
    <3>3. CASE InList(q)
      <4>1. at[q] \in Feeds \ {f}
        BY <2>2, <3>3 DEF InList, Reading
      <4>2. List(q)' = List(q) /\ github'.planned = github.planned /\ Ahead(q)' = Ahead(q)
        BY <1>2, <1>4, <1>5, <4>1 DEF List, Ahead
      <4>3. Missed(q)' = Missed(q) /\ Again(q)' = Again(q)
        BY <1>2, <3>1, <4>2 DEF Missed, Again
      <4> QED
        BY <1>2, <2>0, <3>1, <3>3, <4>2, <4>3 DEF Blank, Gone, MissedInv, AgainInv
    <3> QED
      BY <3>2, <3>3
  <2> QED
    BY <2>1, <2>2
<1> QED
  BY <1>7, <1>8 DEF ReadInv

\* A page is read: what was ahead in the page is not any more.
LEMMA FetchRead ==
  ASSUME TypeOK, ReadInv, NEW q \in Requests, FetchPage(q)
  PROVE  ReadInv'
<1> DEFINE M == List(q)
           k == cursor[q]
           page == Slice(M, k, ReleasePage)
           rest == Beyond(M, k + ReleasePage)
<1>1. /\ at[q] \in Feeds /\ more[q]
      /\ got' = [got EXCEPT ![q] = @ \o page]
      /\ cursor' = [cursor EXCEPT ![q] = @ + ReleasePage]
      /\ more' = [more EXCEPT ![q] = k + ReleasePage < Len(M)]
      /\ began' = IF k = 0 THEN [began EXCEPT ![q] = Range(M)] ELSE began
      /\ github' = github /\ at' = at /\ added' = added /\ removed' = removed
  BY DEF FetchPage, List
<1>2. /\ k \in Nat /\ ReleasePage \in Nat \ {0} /\ M \in Seq(Tags) /\ IsInjective(M)
      /\ got[q] \in Seq(Tags)
  BY <1>1, BoundsAssumption DEF TypeOK, WorldType, ReadInv, ListsInv, List
<1> HIDE DEF M, k
<1>3. /\ Beyond(M, k) = Range(page) \cup rest
      /\ Range(page) \cap rest = {} /\ IsInjective(page) /\ page \in Seq(Tags)
  <2>1. k \in Nat /\ ReleasePage \in Nat /\ M \in Seq(Tags) /\ IsInjective(M)
    BY <1>2
  <2> QED
    BY <2>1, BeyondSplit, SliceFacts, ZenonT(60)
<1> HIDE DEF page, rest
<1>4. /\ got'[q] = got[q] \o page /\ cursor'[q] = k + ReleasePage /\ cursor'[q] > 0
      /\ more'[q] = (k + ReleasePage < Len(M)) /\ began'[q] = IF k = 0 THEN Range(M) ELSE began[q]
  BY <1>1, <1>2 DEF TypeOK, k
<1>5. InList(q)' /\ List(q)' = M /\ Len(M) \in Nat
  BY <1>1, <1>2, <1>4 DEF InList, List, M
<1>6. Ahead(q)' = rest
  <2>1. k + ReleasePage >= Len(M) => rest = {}
    BY <1>2, <1>5 DEF rest, Beyond
  <2>2. Ahead(q)' = IF k + ReleasePage < Len(M) THEN rest ELSE {}
    BY <1>4, <1>5 DEF Ahead, rest
  <2>3. k + ReleasePage < Len(M) \/ k + ReleasePage >= Len(M)
    BY <1>2, <1>5
  <2> QED
    BY <2>1, <2>2, <2>3
<1>7. Range(got'[q]) = Range(got[q]) \cup Range(page) /\ Len(got'[q]) = Len(got[q]) + Len(page)
      /\ Len(got[q]) \in Nat /\ Len(page) \in Nat
  BY <1>2, <1>3, <1>4, RangeConcat
<1>8. ASSUME k = 0
      PROVE  Gone(q)' /\ MissedInv(q)' /\ AgainInv(q)'
  <2>1. got[q] = <<>> /\ added[q] = {} /\ removed[q] = {}
    BY <1>1, <1>8 DEF ReadInv, Blank, InList, k
  <2>2. Range(M) = Range(page) \cup rest
    <3>1. Range(M) = Beyond(M, 0)
      BY <1>2 DEF Range, Beyond
    <3> QED
      BY <1>3, <1>8, <3>1
  <2>3. Gone(q)'
    BY <1>1, <2>1, FS_EmptySet DEF Gone
  <2>4. Missed(q)' = {} /\ Again(q)' = {} /\ Range(got[q]) = {} /\ Len(got[q]) = 0
    <3>1. Range(got[q]) = {} /\ Len(got[q]) = 0
      BY <2>1 DEF Range
    <3> QED
      BY <1>1, <1>3, <1>4, <1>6, <1>7, <1>8, <2>1, <2>2, <3>1 DEF Missed, Again
  <2>5. MissedInv(q)'
    BY <1>1, <2>1, <2>4, FS_EmptySet DEF MissedInv
  <2>6. AgainInv(q)'
    <3>1. Cardinality(Range(page)) = Len(page)
      BY <1>3, RangeCount
    <3>2. Range(got'[q]) = Range(page) /\ Len(got'[q]) = Len(page)
      BY <1>7, <2>4
    <3> QED
      BY <1>1, <1>7, <2>1, <2>4, <3>1, <3>2, FS_EmptySet DEF AgainInv
  <2> QED
    BY <2>3, <2>5, <2>6
<1>9. ASSUME k # 0
      PROVE  Gone(q)' /\ MissedInv(q)' /\ AgainInv(q)'
  <2>1. InList(q) /\ began'[q] = began[q] /\ Ahead(q) = Range(page) \cup rest
    BY <1>1, <1>2, <1>3, <1>4, <1>9 DEF InList, Ahead, k, M
  <2>2. Gone(q) /\ MissedInv(q) /\ AgainInv(q)
    BY DEF ReadInv
  <2>3. Gone(q)'
    BY <1>1, <1>5, <2>1, <2>2 DEF Gone, M
  <2>4. MissedInv(q)'
    <3>1. Missed(q)' \subseteq Missed(q)
      BY <1>1, <1>6, <1>7, <2>1 DEF Missed
    <3>2. IsFiniteSet(Missed(q)) /\ Cardinality(Missed(q)) <= Cardinality(removed[q])
          /\ Cardinality(removed[q]) \in Nat
      BY <2>1, <2>2, FS_CardinalityType DEF MissedInv, Gone
    <3>3. IsFiniteSet(Missed(q)') /\ Cardinality(Missed(q)') <= Cardinality(Missed(q))
          /\ Cardinality(Missed(q)') \in Nat /\ Cardinality(Missed(q)) \in Nat
      BY <3>1, <3>2, NotMore
    <3>4. Cardinality(Missed(q)') <= Cardinality(removed'[q])
      BY <1>1, <3>2, <3>3
    <3> QED
      BY <3>3, <3>4 DEF MissedInv
  <2>5. AgainInv(q)'
    <3>1. /\ Again(q) = Range(got[q]) \cap (Range(page) \cup rest)
          /\ Again(q)' = Range(got'[q]) \cap rest
      BY <1>6, <2>1 DEF Again
    <3>2. /\ Len(got[q]) + Cardinality(Again(q)) <= Cardinality(Range(got[q])) + Cardinality(added[q])
          /\ Cardinality(added[q]) \in Nat
      BY <2>1, <2>2, FS_CardinalityType DEF AgainInv, Gone
    <3>3. Len(got'[q]) + Cardinality(Again(q)') <= Cardinality(Range(got'[q])) + Cardinality(added[q])
      <4> DEFINE g == got[q]
                 d == Cardinality(added[q])
      <4>1. /\ g \in Seq(Tags) /\ page \in Seq(Tags) /\ d \in Nat
            /\ IsInjective(page) /\ Range(page) \cap rest = {}
            /\ Len(g) + Cardinality(Range(g) \cap (Range(page) \cup rest)) <= Cardinality(Range(g)) + d
        BY <1>2, <1>3, <3>1, <3>2
      <4> HIDE DEF g, d
      <4>2. Len(g \o page) + Cardinality(Range(g \o page) \cap rest) <= Cardinality(Range(g \o page)) + d
        BY <4>1, PageAgain
      <4> QED
        BY <1>4, <3>1, <4>2 DEF g, d
    <3> QED
      BY <1>1, <3>3 DEF AgainInv
  <2> QED
    BY <2>3, <2>4, <2>5
<1>10. ASSUME NEW p \in Requests \ {q}
       PROVE  Blank(p)' /\ Gone(p)' /\ MissedInv(p)' /\ AgainInv(p)'
  <2>1. /\ Blank(p) /\ Gone(p) /\ MissedInv(p) /\ AgainInv(p)
        /\ github'.releases = github.releases /\ github'.planned = github.planned
        /\ at'[p] = at[p] /\ cursor'[p] = cursor[p] /\ more'[p] = more[p] /\ got'[p] = got[p]
        /\ began'[p] = began[p] /\ added'[p] = added[p] /\ removed'[p] = removed[p]
    BY <1>1 DEF ReadInv, TypeOK
  <2> QED
    BY <2>1, ReadFrame
<1>11. ListsInv' /\ Blank(q)'
  BY <1>1, <1>5 DEF ReadInv, ListsInv, Blank
<1> QED
  BY <1>8, <1>9, <1>10, <1>11 DEF ReadInv

\* A request that leaves a list, or is not at one, has nothing to keep.
LEMMA LeaveRead ==
  ASSUME ReadInv, NEW q \in Requests,
         github' = github, ~InList(q)', Blank(q)',
         \A p \in Requests \ {q} :
           /\ at'[p] = at[p] /\ cursor'[p] = cursor[p] /\ more'[p] = more[p] /\ got'[p] = got[p]
           /\ began'[p] = began[p] /\ added'[p] = added[p] /\ removed'[p] = removed[p]
  PROVE  ReadInv'
<1>1. ListsInv'
  BY DEF ReadInv, ListsInv
<1>2. Gone(q)' /\ MissedInv(q)' /\ AgainInv(q)'
  BY DEF Gone, MissedInv, AgainInv
<1>3. ASSUME NEW p \in Requests \ {q}
      PROVE  Blank(p)' /\ Gone(p)' /\ MissedInv(p)' /\ AgainInv(p)'
  BY ReadFrame DEF ReadInv
<1> QED
  BY <1>1, <1>2, <1>3 DEF ReadInv

LEMMA OtherRead ==
  ASSUME TypeOK, ReadInv, NEW q \in Requests,
         \/ Start(q) \/ Store(q) \/ StoreOrg(q) \/ RepoGone(q) \/ Fail(q)
         \/ MembersPage(q) \/ ReposPage(q) \/ Gathered(q)
         \/ \E r \in Repos : ContributorsPage(q, r)
  PROVE  ReadInv'
<1>0. Blank(q)
  BY DEF ReadInv
<1>1. CASE Start(q)
  <2>1. /\ at[q] = "idle" /\ at'[q] = "pm" /\ cursor'[q] = 0 /\ more'[q] /\ got' = got
        /\ added' = added /\ removed' = removed /\ began' = began /\ github' = github
        /\ \A p \in Requests \ {q} : at'[p] = at[p] /\ cursor'[p] = cursor[p] /\ more'[p] = more[p]
    BY <1>1 DEF Start, Turn, history, TypeOK
  <2>2. ~InList(q) /\ ~InList(q)'
    BY <2>1 DEF InList, Feeds
  <2>3. Blank(q)'
    BY <1>0, <2>1, <2>2 DEF Blank
  <2> QED
    BY <2>1, <2>2, <2>3, LeaveRead
<1>2. CASE Store(q)
  <2>1. /\ cursor'[q] = 0 /\ more'[q] /\ got'[q] = <<>>
        /\ added'[q] = {} /\ removed'[q] = {} /\ github' = github
    BY <1>2 DEF Store, Turn, Forget, TypeOK
  <2>2. \A p \in Requests \ {q} :
          /\ at'[p] = at[p] /\ cursor'[p] = cursor[p] /\ more'[p] = more[p] /\ got'[p] = got[p]
          /\ began'[p] = began[p] /\ added'[p] = added[p] /\ removed'[p] = removed[p]
    BY <1>2 DEF Store, Turn, Forget, TypeOK
  <2>3. ~InList(q)' /\ Blank(q)'
    BY <2>1 DEF InList, Blank
  <2> QED
    BY <2>1, <2>2, <2>3, LeaveRead
<1>3. CASE StoreOrg(q) \/ RepoGone(q) \/ Fail(q)
  <2>1. Finish(q) /\ github' = github
    BY <1>3 DEF StoreOrg, RepoGone, Fail
  <2>2. cursor'[q] = 0 /\ more'[q] /\ got'[q] = <<>> /\ added'[q] = {} /\ removed'[q] = {}
    BY <2>1 DEF Finish, Turn, Forget, TypeOK
  <2>3. \A p \in Requests \ {q} :
          /\ at'[p] = at[p] /\ cursor'[p] = cursor[p] /\ more'[p] = more[p] /\ got'[p] = got[p]
          /\ began'[p] = began[p] /\ added'[p] = added[p] /\ removed'[p] = removed[p]
    BY <2>1 DEF Finish, Turn, Forget, TypeOK
  <2>4. ~InList(q)' /\ Blank(q)'
    BY <2>2 DEF InList, Blank
  <2> QED
    BY <2>1, <2>3, <2>4, LeaveRead
<1>4. CASE \/ MembersPage(q) \/ ReposPage(q) \/ Gathered(q)
           \/ \E r \in Repos : ContributorsPage(q, r)
  <2>1. /\ at[q] \notin Feeds /\ at'[q] \notin Feeds /\ got' = got
        /\ added' = added /\ removed' = removed /\ began' = began /\ github' = github
    BY <1>4 DEF MembersPage, ReposPage, Gathered, ContributorsPage, Turn, history, Feeds, TypeOK
  <2>2. \A p \in Requests \ {q} : at'[p] = at[p] /\ cursor'[p] = cursor[p] /\ more'[p] = more[p]
    BY <1>4 DEF MembersPage, ReposPage, Gathered, ContributorsPage, Turn, TypeOK
  <2>3. ~InList(q)' /\ Blank(q)'
    BY <1>0, <2>1 DEF InList, Blank
  <2> QED
    BY <2>1, <2>2, <2>3, LeaveRead
<1> QED
  BY <1>1, <1>2, <1>3, <1>4

LEMMA ReadStep == TypeOK /\ ReadInv /\ [Next]_vars => ReadInv'
<1> SUFFICES ASSUME TypeOK, ReadInv, [Next]_vars PROVE ReadInv'
  OBVIOUS
<1>1. CASE UNCHANGED vars \/ Shifts \/ Moves
  <2>1. /\ at' = at /\ cursor' = cursor /\ more' = more /\ got' = got
        /\ began' = began /\ added' = added /\ removed' = removed
    <3>1. UNCHANGED vars \/ Shift \/ Move
      BY <1>1, ShiftFacts, ReposMove
    <3> QED
      BY <3>1 DEF vars, progress, history, Shift, Move
  <2>2. github'.releases = github.releases /\ github'.planned = github.planned
    BY <1>1, ShiftFacts, ReposMove DEF vars
  <2>3. ListsInv'
    BY <2>2 DEF ReadInv, ListsInv
  <2>4. ASSUME NEW q \in Requests PROVE Blank(q)' /\ Gone(q)' /\ MissedInv(q)' /\ AgainInv(q)'
    BY <2>1, <2>2, ReadFrame DEF ReadInv
  <2> QED
    BY <2>3, <2>4 DEF ReadInv
<1>2. ASSUME NEW q \in Requests, Start(q) \/ Step(q) \/ Fail(q) PROVE ReadInv'
  BY <1>2, FetchRead, OtherRead DEF Step
<1> QED
  BY <1>1, <1>2, PublishRead, TakeBackRead DEF Next, Shifts, Moves

LEMMA ReadInit == Init => ReadInv
<1> SUFFICES ASSUME Init PROVE ReadInv
  OBVIOUS
<1>1. ListsInv
  BY DistinctAssumption DEF Init, ListsInv
<1>2. ASSUME NEW q \in Requests PROVE ~InList(q) /\ Blank(q)
  BY DEF Init, InList, Blank, Feeds
<1> QED
  BY <1>1, <1>2 DEF ReadInv, Gone, MissedInv, AgainInv

\* What the two counts come to when all pages are read.
LEMMA ReadResult == TypeOK /\ ReadInv => MissesFew /\ RepeatsFew
<1> SUFFICES ASSUME TypeOK, ReadInv, NEW q \in Requests, ReadAll(q)
             PROVE  /\ Cardinality((began[q] \ removed[q]) \ Range(got[q])) <= Cardinality(removed[q])
                    /\ Len(got[q]) <= Cardinality(Range(got[q])) + Cardinality(added[q])
  BY DEF MissesFew, RepeatsFew, LeavesOutFew, HasTwiceFew
<1>1. Blank(q) /\ Gone(q) /\ MissedInv(q) /\ AgainInv(q) /\ at[q] \in Feeds /\ ~more[q]
  BY DEF ReadInv, ReadAll
<1>2. InList(q) /\ Ahead(q) = {}
  BY <1>1 DEF Blank, Ahead
<1>3. Missed(q) = (began[q] \ removed[q]) \ Range(got[q]) /\ Again(q) = {}
  BY <1>2 DEF Missed, Again
<1>4. Len(got[q]) + 0 <= Cardinality(Range(got[q])) + Cardinality(added[q])
  BY <1>1, <1>2, <1>3, FS_EmptySet DEF AgainInv
<1>5. Len(got[q]) \in Nat
  BY DEF TypeOK
<1> QED
  BY <1>1, <1>2, <1>3, <1>4, <1>5 DEF MissedInv

\* A release that is there all along is left out of a list at most once for
\* each that is taken back while the pages are read (components/github_stats.py:82-99),
\* for lists and pages of any length.
THEOREM MissesFewHolds == Spec => []MissesFew
BY TypeInit, TypeStep, ReadInit, ReadStep, ReadResult, PTL DEF Spec

\* A release is counted twice at most once for each that is published
\* meanwhile (components/github_stats.py:104-112).
THEOREM RepeatsFewHolds == Spec => []RepeatsFew
BY TypeInit, TypeStep, ReadInit, ReadStep, ReadResult, PTL DEF Spec

-----------------------------------------------------------------------------
(* The invariant of the repositories and of the lists of people.           *)

\* The first k entries, and those of the pages before page c, of which the
\* first two are the same.
Upto(s, k) == {s[i] : i \in {j \in 1..Len(s) : j <= k}}
PagesEnd(c) == IF c = 0 THEN 0 ELSE IF c = 1 THEN PeoplePage ELSE (c - 1) * PeoplePage

OrgStages == {"members", "repos", "contributors", "org"}

\* Who should have been seen of a list: the entries before the next page, or
\* all of them when it has ended.
DueMembers(q) ==
  IF at[q] = "members" THEN Upto(github.members, PagesEnd(cursor[q])) ELSE Range(github.members)
DueOf(q, r) ==
  IF tasks[q][r] # Ended THEN Upto(github.contributors[r], PagesEnd(tasks[q][r]))
  ELSE IF r \in Range(rows[q]) THEN Range(github.contributors[r]) ELSE {}
Due(q) == DueMembers(q) \cup UNION {DueOf(q, r) : r \in Eligible}
Lost(q) == Due(q) \ people[q]

\* The repositories that are yet to be read, those that are missed, and those
\* that were read and will be again.
ReposAhead(q) ==
  IF at[q] = "members" THEN Beyond(github.repos, 0)
  ELSE IF more[q] THEN Beyond(github.repos, cursor[q]) ELSE {}
MissedRepos(q) == Range(github.repos) \ (Range(rows[q]) \cup ReposAhead(q))
RepeatedRepos(q) == Range(rows[q]) \cap ReposAhead(q)

\* As long as the list has not changed, the repositories that have been read
\* are the first ones.
RowsInv(q) ==
  /\ at[q] # "contributors" => tasks[q] = NoTasks
  /\ at[q] \notin {"repos", "contributors", "org"} => rows[q] = <<>>
  /\ (at[q] = "repos" => more[q]) /\ (at[q] = "org" => ~more[q])
  /\ at[q] \in OrgStages => movesAt[q] <= moves
  /\ moves = movesAt[q] =>
       /\ at[q] \in {"repos", "contributors"} => rows[q] = Slice(github.repos, 0, cursor[q])
       /\ at[q] = "contributors" /\ ~more[q] => rows[q] = github.repos
       /\ at[q] = "org" => rows[q] = github.repos

\* Each change of a list of people costs at most one of them.
LostInv(q) ==
  at[q] \in OrgStages => IsFiniteSet(Lost(q)) /\ Cardinality(Lost(q)) <= shifts - shiftsAt[q]

\* Each change of the list of repositories makes at most one be missed, and
\* one be read again.
PagesInv(q) ==
  at[q] \in OrgStages =>
    /\ IsFiniteSet(MissedRepos(q)) /\ Cardinality(MissedRepos(q)) <= moves - movesAt[q]
    /\ Len(rows[q]) + Cardinality(RepeatedRepos(q))
         <= Cardinality(Range(rows[q])) + (moves - movesAt[q])

OrgInv ==
  IsInjective(github.repos) /\ \A q \in Requests : RowsInv(q) /\ LostInv(q) /\ PagesInv(q)

LEMMA SeqsEqual ==
  ASSUME NEW S, NEW s \in Seq(S), NEW t \in Seq(S), Len(s) = Len(t), \A i \in 1..Len(s) : s[i] = t[i]
  PROVE  s = t
OBVIOUS

\* Whoever gets past others is missed at most himself.
LEMMA OvertakeMoves ==
  ASSUME NEW S, NEW s \in Seq(S), NEW i \in 2..Len(s)
  PROVE  /\ Range(<<s[i]>> \o RemoveAt(s, i)) \subseteq Range(s)
         /\ \A k \in Nat : Upto(<<s[i]>> \o RemoveAt(s, i), k) \subseteq Upto(s, k) \cup {s[i]}
<1> DEFINE v == RemoveAt(s, i)
           u == <<s[i]>> \o v
<1>1. /\ v \in Seq(S) /\ Len(v) = Len(s) - 1 /\ Len(s) \in Nat /\ Len(v) \in Nat
      /\ \A j \in 1..Len(s) - 1 : v[j] = IF j < i THEN s[j] ELSE s[j + 1]
  <2>1. i \in 1..Len(s)
    OBVIOUS
  <2>2. /\ v \in Seq(S) /\ Len(v) = Len(s) - 1 /\ Len(s) \in Nat
        /\ \A j \in 1..Len(s) - 1 : v[j] = IF j < i THEN s[j] ELSE s[j + 1]
    BY <2>1, RemoveFacts
  <2>3. Len(v) \in Nat
    <3> HIDE DEF v
    <3> QED
      BY <2>2
  <2> QED
    BY <2>2, <2>3
<1> HIDE DEF v
<1>2. s[i] \in S /\ DOMAIN s = 1..Len(s)
  OBVIOUS
<1>3. /\ u \in Seq(S) /\ Len(u) = Len(v) + 1 /\ DOMAIN u = 1..Len(u)
      /\ u[1] = s[i] /\ \A j \in 1..Len(v) : u[j + 1] = v[j]
  BY <1>1, <1>2
<1> HIDE DEF u
<1>4. ASSUME NEW j \in 1..Len(u) PROVE u[j] = s[i] \/ \E h \in 1..Len(s) : u[j] = s[h] /\ h <= j
  <2>1. CASE j = 1
    BY <1>3, <2>1
  <2>2. CASE j > 1
    <3>1. j - 1 \in 1..Len(v) /\ j - 1 \in 1..Len(s) - 1 /\ (j - 1) + 1 = j
      BY <1>1, <1>3, <2>2
    <3>2. u[j] = v[j - 1]
      BY <1>3, <3>1
    <3>3. CASE j - 1 < i
      <4>1. u[j] = s[j - 1] /\ j - 1 \in 1..Len(s) /\ j - 1 <= j
        BY <1>1, <3>1, <3>2, <3>3
      <4> QED
        BY <4>1
    <3>4. CASE ~(j - 1 < i)
      <4>1. u[j] = s[j] /\ j \in 1..Len(s) /\ j <= j
        BY <1>1, <3>1, <3>2, <3>4
      <4> QED
        BY <4>1
    <3> QED
      BY <3>3, <3>4
  <2> QED
    BY <2>1, <2>2
<1>5. Range(u) \subseteq Range(s)
  BY <1>2, <1>3, <1>4 DEF Range
<1>6. ASSUME NEW k \in Nat PROVE Upto(u, k) \subseteq Upto(s, k) \cup {s[i]}
  <2>1. ASSUME NEW j \in 1..Len(u), j <= k PROVE u[j] \in Upto(s, k) \cup {s[i]}
    <3>1. CASE u[j] = s[i]
      BY <3>1
    <3>2. ASSUME NEW h \in 1..Len(s), u[j] = s[h], h <= j PROVE u[j] \in Upto(s, k)
      <4>1. h <= k
        BY <1>1, <1>3, <2>1, <3>2
      <4> QED
        BY <3>2, <4>1 DEF Upto
    <3> QED
      BY <1>4, <3>1, <3>2
  <2> QED
    BY <2>1 DEF Upto
<1> QED
  BY <1>5, <1>6 DEF u, v

\* Who leaves makes at most one other be missed.
LEMMA LeaveMoves ==
  ASSUME NEW S, NEW s \in Seq(S), NEW i \in 1..Len(s), NEW k \in Nat
  PROVE  \E x : Upto(RemoveAt(s, i), k) \subseteq Upto(s, k) \cup {x}
<1> DEFINE v == RemoveAt(s, i)
<1>1. /\ v \in Seq(S) /\ Len(v) = Len(s) - 1 /\ Len(s) \in Nat /\ Len(v) \in Nat
      /\ \A j \in 1..Len(s) - 1 : v[j] = IF j < i THEN s[j] ELSE s[j + 1]
  <2>1. i \in 1..Len(s)
    OBVIOUS
  <2>2. /\ v \in Seq(S) /\ Len(v) = Len(s) - 1 /\ Len(s) \in Nat
        /\ \A j \in 1..Len(s) - 1 : v[j] = IF j < i THEN s[j] ELSE s[j + 1]
    BY <2>1, RemoveFacts
  <2>3. Len(v) \in Nat
    <3> HIDE DEF v
    <3> QED
      BY <2>2
  <2> QED
    BY <2>2, <2>3
<1> HIDE DEF v
<1>2. ASSUME NEW j \in 1..Len(v), j <= k PROVE v[j] \in Upto(s, k) \cup {s[k + 1]}
  <2>1. j \in 1..Len(s) - 1 /\ j \in 1..Len(s) /\ j + 1 \in 1..Len(s)
    BY <1>1
  <2>2. CASE j < i
    BY <1>1, <1>2, <2>1, <2>2 DEF Upto
  <2>3. CASE ~(j < i)
    <3>1. v[j] = s[j + 1]
      BY <1>1, <2>1, <2>3
    <3>2. CASE j = k
      BY <3>1, <3>2
    <3>3. CASE j # k
      <4>1. j + 1 <= k
        BY <1>2, <2>1, <3>3
      <4> QED
        BY <2>1, <3>1, <4>1 DEF Upto
    <3> QED
      BY <3>2, <3>3
  <2> QED
    BY <2>2, <2>3
<1> QED
  BY <1>2 DEF Upto, v

\* Who comes is missed at most himself.
LEMMA JoinMoves ==
  ASSUME NEW S, NEW s \in Seq(S), NEW x \in S, NEW i \in 1..Len(s) + 1, NEW k \in Nat
  PROVE  Upto(InsertAt(s, i, x), k) \subseteq Upto(s, k) \cup {x}
<1> DEFINE u == InsertAt(s, i, x)
<1>1. /\ u \in Seq(S) /\ Len(u) = Len(s) + 1 /\ Len(s) \in Nat /\ Len(u) \in Nat
      /\ \A j \in 1..Len(u) : u[j] = IF j < i THEN s[j] ELSE IF j = i THEN x ELSE s[j - 1]
  <2>1. /\ u \in Seq(S) /\ Len(u) = Len(s) + 1 /\ Len(s) \in Nat
        /\ \A j \in 1..Len(s) + 1 : u[j] = IF j < i THEN s[j] ELSE IF j = i THEN x ELSE s[j - 1]
    BY InsertFacts
  <2> HIDE DEF u
  <2> QED
    BY <2>1
<1> HIDE DEF u
<1>2. ASSUME NEW j \in 1..Len(u), j <= k PROVE u[j] \in Upto(s, k) \cup {x}
  <2>1. CASE j < i
    <3>1. j \in 1..Len(s) /\ u[j] = s[j]
      BY <1>1, <2>1
    <3> QED
      BY <1>2, <3>1 DEF Upto
  <2>2. CASE j = i
    BY <1>1, <2>2
  <2>3. CASE j > i
    <3>1. j - 1 \in 1..Len(s) /\ j - 1 <= k /\ u[j] = s[j - 1]
      BY <1>1, <1>2, <2>3
    <3> QED
      BY <3>1 DEF Upto
  <2>4. j < i \/ j = i \/ j > i
    OBVIOUS
  <2> QED
    BY <2>1, <2>2, <2>3, <2>4
<1> QED
  BY <1>2 DEF Upto, u

LEMMA BeyondNone ==
  ASSUME NEW S, NEW s \in Seq(S)
  PROVE  Beyond(s, 0) = Range(s)
BY DEF Beyond, Range

\* A page takes up where those before it end, and is empty only at the end.
LEMMA PageFacts ==
  ASSUME NEW S, NEW s \in Seq(S), NEW c \in Nat
  PROVE  /\ Upto(s, PagesEnd(c + 1)) \subseteq Upto(s, PagesEnd(c)) \cup Range(PageOf(s, c))
         /\ PageOf(s, c) = <<>> => Range(s) \subseteq Upto(s, PagesEnd(c))
<1> DEFINE k == IF c = 0 THEN 0 ELSE (c - 1) * PeoplePage
           p == Slice(s, k, PeoplePage)
<1>1. PeoplePage \in Nat /\ PeoplePage > 0 /\ k \in Nat /\ PagesEnd(c) \in Nat
      /\ k <= PagesEnd(c)
  <2>1. PeoplePage \in Nat /\ PeoplePage > 0
    BY BoundsAssumption
  <2>2. CASE c = 0 \/ c = 1
    BY <2>1, <2>2 DEF PagesEnd
  <2>3. CASE c > 1
    BY <2>1, <2>3 DEF PagesEnd
  <2> QED
    BY <2>1, <2>2, <2>3
<1>2. PagesEnd(c + 1) = k + PeoplePage
  <2>1. CASE c = 0
    BY <1>1, <2>1 DEF PagesEnd
  <2>2. CASE c # 0
    <3>1. PagesEnd(c + 1) = c * PeoplePage /\ k = (c - 1) * PeoplePage
      BY <2>2 DEF PagesEnd
    <3>2. c * PeoplePage = (c - 1) * PeoplePage + PeoplePage
      BY <1>1
    <3> QED
      BY <3>1, <3>2
  <2> QED
    BY <2>1, <2>2
<1>3. PageOf(s, c) = p
  BY DEF PageOf
<1> HIDE DEF k
<1>4. /\ p \in Seq(S) /\ Len(s) \in Nat
      /\ Len(p) = IF k >= Len(s) THEN 0 ELSE IF k + PeoplePage < Len(s) THEN PeoplePage ELSE Len(s) - k
      /\ \A i \in 1..Len(p) : p[i] = s[k + i]
  <2>1. k \in Nat /\ PeoplePage \in Nat
    BY <1>1
  <2>2. /\ p \in Seq(S)
        /\ Len(p) = IF k >= Len(s) THEN 0 ELSE IF k + PeoplePage < Len(s) THEN PeoplePage ELSE Len(s) - k
        /\ \A i \in 1..Len(p) : p[i] = s[k + i]
    BY <2>1, SliceFacts
  <2>3. Len(s) \in Nat
    OBVIOUS
  <2> QED
    BY <2>2, <2>3
<1> HIDE DEF p
<1>5. DOMAIN p = 1..Len(p) /\ DOMAIN s = 1..Len(s)
  BY <1>4
<1>6. ASSUME NEW j \in 1..Len(s), j <= k + PeoplePage
      PROVE  s[j] \in Upto(s, PagesEnd(c)) \cup Range(p)
  <2>1. CASE j <= k
    <3>1. j <= PagesEnd(c)
      BY <1>1, <1>4, <2>1
    <3> QED
      BY <3>1 DEF Upto
  <2>2. CASE j > k
    <3>1. j - k \in 1..Len(p) /\ k + (j - k) = j
      BY <1>1, <1>4, <1>6, <2>2
    <3>2. s[j] = p[j - k]
      BY <1>4, <3>1
    <3> QED
      BY <1>5, <3>1, <3>2 DEF Range
  <2> QED
    BY <1>1, <1>4, <2>1, <2>2
<1>7. Upto(s, PagesEnd(c + 1)) \subseteq Upto(s, PagesEnd(c)) \cup Range(p)
  BY <1>2, <1>6 DEF Upto
<1>8. ASSUME p = <<>> PROVE Range(s) \subseteq Upto(s, PagesEnd(c))
  <2>1. Len(p) = 0
    BY <1>8
  <2>2. k >= Len(s)
    BY <1>1, <1>4, <2>1
  <2>3. \A j \in 1..Len(s) : j <= PagesEnd(c)
    BY <1>1, <1>4, <2>2
  <2> QED
    BY <1>5, <2>3 DEF Range, Upto
<1> QED
  BY <1>3, <1>7, <1>8

\* The pages of a list, put together, are its beginning.
LEMMA SlicesJoin ==
  ASSUME NEW S, NEW s \in Seq(S), NEW k \in Nat, NEW n \in Nat
  PROVE  /\ Slice(s, 0, k) \o Slice(s, k, n) = Slice(s, 0, k + n)
         /\ k + n >= Len(s) => Slice(s, 0, k + n) = s
         /\ Slice(s, 0, 0) = <<>>
<1> DEFINE a == Slice(s, 0, k)
           b == Slice(s, k, n)
           d == Slice(s, 0, k + n)
<1>1. Len(s) \in Nat /\ 0 \in Nat /\ k + n \in Nat
  OBVIOUS
<1>2. /\ a \in Seq(S) /\ Len(a) = (IF k < Len(s) THEN k ELSE Len(s))
      /\ \A i \in 1..Len(a) : a[i] = s[i]
  <2>1. /\ Slice(s, 0, k) \in Seq(S)
        /\ Len(Slice(s, 0, k)) = IF 0 >= Len(s) THEN 0 ELSE IF 0 + k < Len(s) THEN k ELSE Len(s) - 0
        /\ \A i \in 1..Len(Slice(s, 0, k)) : Slice(s, 0, k)[i] = s[0 + i]
    BY <1>1, SliceFacts, ZenonT(60)
  <2> HIDE DEF Slice
  <2> QED
    BY <1>1, <2>1
<1>3. /\ b \in Seq(S)
      /\ Len(b) = IF k >= Len(s) THEN 0 ELSE IF k + n < Len(s) THEN n ELSE Len(s) - k
      /\ \A i \in 1..Len(b) : b[i] = s[k + i]
  BY <1>1, SliceFacts, ZenonT(60)
<1>4. /\ d \in Seq(S) /\ Len(d) = (IF k + n < Len(s) THEN k + n ELSE Len(s))
      /\ \A i \in 1..Len(d) : d[i] = s[i]
  <2>1. /\ Slice(s, 0, k + n) \in Seq(S)
        /\ Len(Slice(s, 0, k + n)) = IF 0 >= Len(s) THEN 0 ELSE IF 0 + (k + n) < Len(s) THEN k + n ELSE Len(s) - 0
        /\ \A i \in 1..Len(Slice(s, 0, k + n)) : Slice(s, 0, k + n)[i] = s[0 + i]
    BY <1>1, SliceFacts, ZenonT(60)
  <2> QED
    BY <1>1, <2>1
<1>5. Slice(s, 0, 0) = <<>>
  BY <1>1 DEF Slice
<1> HIDE DEF a, b, d
<1>6. a \o b = d
  <2>1. /\ a \o b \in Seq(S) /\ Len(a \o b) = Len(a) + Len(b)
        /\ \A i \in 1..Len(a) + Len(b) : (a \o b)[i] = IF i <= Len(a) THEN a[i] ELSE b[i - Len(a)]
    <3>1. a \in Seq(S) /\ b \in Seq(S)
      BY <1>2, <1>3
    <3> QED
      BY <3>1
  <2>2. Len(a) + Len(b) = Len(d) /\ Len(a) \in Nat /\ Len(b) \in Nat
    <3>1. CASE k >= Len(s)
      BY <1>1, <1>2, <1>3, <1>4, <3>1
    <3>2. CASE k < Len(s) /\ k + n < Len(s)
      BY <1>1, <1>2, <1>3, <1>4, <3>2
    <3>3. CASE k < Len(s) /\ k + n >= Len(s)
      BY <1>1, <1>2, <1>3, <1>4, <3>3
    <3> QED
      BY <1>1, <3>1, <3>2, <3>3
  <2>3. ASSUME NEW i \in 1..Len(d) PROVE (a \o b)[i] = d[i]
    <3>1. CASE i <= Len(a)
      <4>1. i \in 1..Len(a)
        BY <2>2, <3>1
      <4> QED
        BY <1>2, <1>4, <2>1, <2>2, <3>1, <4>1
    <3>2. CASE ~(i <= Len(a))
      <4>1. i - Len(a) \in 1..Len(b)
        BY <2>2, <3>2
      <4>2. Len(a) = k
        BY <1>1, <1>2, <1>3, <4>1
      <4>3. b[i - Len(a)] = s[k + (i - Len(a))] /\ k + (i - Len(a)) = i
        BY <1>3, <2>2, <4>1, <4>2
      <4> QED
        BY <1>4, <2>1, <2>2, <3>2, <4>3
    <3> QED
      BY <3>1, <3>2
  <2> QED
    BY <1>4, <2>1, <2>2, <2>3, SeqsEqual
<1>7. ASSUME k + n >= Len(s) PROVE d = s
  <2>1. Len(d) = Len(s)
    BY <1>1, <1>4, <1>7
  <2> QED
    BY <1>4, <2>1, SeqsEqual
<1> QED
  BY <1>5, <1>6, <1>7 DEF a, b, d

LEMMA PagesEndType == \A c \in Nat : PagesEnd(c) \in Nat
BY BoundsAssumption DEF PagesEnd

\* A request that does not move keeps what holds of it while the lists of
\* people and of repositories do not change.
LEMMA OrgFrame ==
  ASSUME NEW q \in Requests, RowsInv(q), LostInv(q), PagesInv(q),
         github'.members = github.members, github'.contributors = github.contributors,
         github'.repos = github.repos, shifts' = shifts, moves' = moves,
         at'[q] = at[q], cursor'[q] = cursor[q], more'[q] = more[q], rows'[q] = rows[q],
         people'[q] = people[q], tasks'[q] = tasks[q], shiftsAt'[q] = shiftsAt[q],
         movesAt'[q] = movesAt[q]
  PROVE  RowsInv(q)' /\ LostInv(q)' /\ PagesInv(q)'
<1>1. Lost(q)' = Lost(q)
  BY DEF Lost, Due, DueMembers, DueOf, Eligible
<1>2. MissedRepos(q)' = MissedRepos(q) /\ RepeatedRepos(q)' = RepeatedRepos(q)
  BY DEF MissedRepos, RepeatedRepos, ReposAhead
<1>3. RowsInv(q)'
  BY DEF RowsInv
<1>4. LostInv(q)' /\ PagesInv(q)'
  BY <1>1, <1>2 DEF LostInv, PagesInv
<1> QED
  BY <1>3, <1>4

\* The change of one list of people may cost each request one of them.
LEMMA ShiftLost ==
  ASSUME TypeOK, NEW q \in Requests, LostInv(q), NEW x, Due(q)' \subseteq Due(q) \cup {x},
         people' = people, at' = at, shiftsAt' = shiftsAt, shifts' = shifts + 1
  PROVE  LostInv(q)'
<1> SUFFICES ASSUME at[q] \in OrgStages
             PROVE  IsFiniteSet(Lost(q)') /\ Cardinality(Lost(q)') <= shifts' - shiftsAt'[q]
  BY DEF LostInv
<1>1. Lost(q)' \subseteq Lost(q) \cup {x}
  BY DEF Lost
<1>2. IsFiniteSet(Lost(q)) /\ Cardinality(Lost(q)) <= shifts - shiftsAt[q]
  BY DEF LostInv
<1>3. /\ IsFiniteSet(Lost(q)') /\ Cardinality(Lost(q)') <= Cardinality(Lost(q)) + 1
      /\ Cardinality(Lost(q)') \in Nat /\ Cardinality(Lost(q)) \in Nat
  BY <1>1, <1>2, OneMore
<1>4. shifts \in Nat /\ shiftsAt[q] \in Nat
  BY BoundsAssumption DEF TypeOK
<1> QED
  BY <1>2, <1>3, <1>4

LEMMA ContributorsLost ==
  ASSUME TypeOK, NEW r \in Repos, Overtake(r) \/ Contribute(r), NEW q \in Requests, LostInv(q)
  PROVE  LostInv(q)'
<1> DEFINE C == github.contributors[r]
<1>0. C \in Seq(People) /\ github.contributors \in [Repos -> Seq(People)]
  BY DEF TypeOK, WorldType
<1>1. Shift /\ github'.members = github.members
  BY OvertakeShift, ContributeShift
<1>2. PICK D, x : /\ github'.contributors = [github.contributors EXCEPT ![r] = D]
                  /\ Range(D) \subseteq Range(C) \cup {x}
                  /\ \A k \in Nat : Upto(D, k) \subseteq Upto(C, k) \cup {x}
  <2>1. CASE Overtake(r)
    <3>1. PICK i \in 2..Len(C) :
            github'.contributors = [github.contributors EXCEPT ![r] = <<@[i]>> \o RemoveAt(@, i)]
      BY <2>1, OvertakeShift
    <3> DEFINE D == <<C[i]>> \o RemoveAt(C, i)
    <3>2. github'.contributors = [github.contributors EXCEPT ![r] = D]
      BY <3>1
    <3>3. Range(D) \subseteq Range(C) /\ \A k \in Nat : Upto(D, k) \subseteq Upto(C, k) \cup {C[i]}
      <4> HIDE DEF C
      <4> QED
        BY <1>0, OvertakeMoves
    <3>4. /\ Range(D) \subseteq Range(C) \cup {C[i]}
          /\ \A k \in Nat : Upto(D, k) \subseteq Upto(C, k) \cup {C[i]}
      BY <3>3
    <3> HIDE DEF C, D
    <3> QED
      BY <3>2, <3>4
  <2>2. CASE Contribute(r)
    <3>1. PICK p \in People, i \in 1..Len(C) + 1 :
            github'.contributors = [github.contributors EXCEPT ![r] = InsertAt(@, i, p)]
      BY <2>2, ContributeShift
    <3> DEFINE D == InsertAt(C, i, p)
    <3>2. github'.contributors = [github.contributors EXCEPT ![r] = D]
      BY <3>1
    <3>3. Range(D) \subseteq Range(C) \cup {p} /\ \A k \in Nat : Upto(D, k) \subseteq Upto(C, k) \cup {p}
      <4>1. 0 \in Nat
        OBVIOUS
      <4> HIDE DEF C
      <4>2. Range(D) = Range(C) \cup {p}
        BY <1>0, <4>1, InsertMoves
      <4>3. \A k \in Nat : Upto(D, k) \subseteq Upto(C, k) \cup {p}
        BY <1>0, JoinMoves
      <4> QED
        BY <4>2, <4>3
    <3> HIDE DEF D
    <3> QED
      BY <3>2, <3>3
  <2> QED
    BY <2>1, <2>2
<1>3. /\ at' = at /\ cursor' = cursor /\ rows' = rows /\ people' = people
      /\ tasks' = tasks /\ shiftsAt' = shiftsAt /\ shifts' = shifts + 1
  BY <1>1 DEF Shift, progress
<1>4. github'.contributors[r] = D /\ \A p \in Repos \ {r} : github'.contributors[p] = github.contributors[p]
  BY <1>0, <1>2
<1>5. DueMembers(q)' = DueMembers(q)
  BY <1>1, <1>3 DEF DueMembers
<1>6. ASSUME NEW p \in Repos PROVE DueOf(q, p)' \subseteq DueOf(q, p) \cup {x}
  <2>1. CASE p = r
    <3>1. CASE tasks[q][r] # Ended
      <4>1. PagesEnd(tasks[q][r]) \in Nat
        <5>1. tasks[q][r] \in Nat
          BY <3>1 DEF TypeOK
        <5> QED
          BY <5>1, PagesEndType
      <4>2. DueOf(q, p) = Upto(C, PagesEnd(tasks[q][r])) /\ DueOf(q, p)' = Upto(D, PagesEnd(tasks[q][r]))
        BY <1>3, <1>4, <2>1, <3>1 DEF DueOf
      <4> QED
        BY <1>2, <4>1, <4>2
    <3>2. CASE tasks[q][r] = Ended
      BY <1>2, <1>3, <1>4, <2>1, <3>2 DEF DueOf
    <3> QED
      BY <3>1, <3>2
  <2>2. CASE p # r
    BY <1>3, <1>4, <2>2 DEF DueOf
  <2> QED
    BY <2>1, <2>2
<1>7. Eligible \subseteq Repos /\ Eligible' = Eligible
  BY WorldsAssumption DEF Eligible
<1>8. Due(q)' \subseteq Due(q) \cup {x}
  BY <1>5, <1>6, <1>7 DEF Due
<1> QED
  BY <1>3, <1>8, ShiftLost

LEMMA MembersLost ==
  ASSUME TypeOK, Join \/ Leave, NEW q \in Requests, LostInv(q)
  PROVE  LostInv(q)'
<1> DEFINE C == github.members
           D == github'.members
<1>0. C \in Seq(People) /\ 0 \in Nat
  BY DEF TypeOK, WorldType
<1>1. Shift /\ github'.contributors = github.contributors
  BY MembersShift
<1>2. /\ \E x : Range(D) \subseteq Range(C) \cup {x}
      /\ \A k \in Nat : \E x : Upto(D, k) \subseteq Upto(C, k) \cup {x}
  <2>1. ASSUME NEW p \in People, NEW i \in 1..Len(C) + 1, D = InsertAt(C, i, p)
        PROVE  /\ Range(D) = Range(C) \cup {p}
               /\ \A k \in Nat : Upto(D, k) \subseteq Upto(C, k) \cup {p}
    <3> HIDE DEF C, D
    <3>1. Range(D) = Range(C) \cup {p}
      BY <1>0, <2>1, InsertMoves
    <3>2. \A k \in Nat : Upto(D, k) \subseteq Upto(C, k) \cup {p}
      BY <1>0, <2>1, JoinMoves
    <3> QED
      BY <3>1, <3>2
  <2>2. ASSUME NEW i \in 1..Len(C), D = RemoveAt(C, i)
        PROVE  /\ Range(D) \subseteq Range(C)
               /\ \A k \in Nat : \E x : Upto(D, k) \subseteq Upto(C, k) \cup {x}
    <3> HIDE DEF C, D
    <3>1. Range(D) \subseteq Range(C)
      BY <1>0, <2>2, RemoveMoves
    <3>2. \A k \in Nat : \E x : Upto(D, k) \subseteq Upto(C, k) \cup {x}
      BY <1>0, <2>2, LeaveMoves
    <3> QED
      BY <3>1, <3>2
  <2>3. \/ \E p \in People, i \in 1..Len(C) + 1 : D = InsertAt(C, i, p)
        \/ \E i \in 1..Len(C) : D = RemoveAt(C, i)
    BY MembersShift
  <2> HIDE DEF C, D
  <2>4. CASE \E p \in People, i \in 1..Len(C) + 1 : D = InsertAt(C, i, p)
    <3>1. PICK p \in People, i \in 1..Len(C) + 1 : D = InsertAt(C, i, p)
      BY <2>4
    <3> QED
      BY <2>1, <3>1
  <2>5. CASE \E i \in 1..Len(C) : D = RemoveAt(C, i)
    <3>1. PICK i \in 1..Len(C) : D = RemoveAt(C, i)
      BY <2>5
    <3> QED
      BY <2>2, <3>1
  <2> QED
    BY <2>3, <2>4, <2>5
<1>3. /\ at' = at /\ cursor' = cursor /\ rows' = rows /\ people' = people
      /\ tasks' = tasks /\ shiftsAt' = shiftsAt /\ shifts' = shifts + 1
  BY <1>1 DEF Shift, progress
<1>4. \A p : DueOf(q, p)' = DueOf(q, p)
  BY <1>1, <1>3 DEF DueOf
<1>5. PICK x : DueMembers(q)' \subseteq DueMembers(q) \cup {x}
  <2>1. CASE at[q] = "members"
    <3>1. PagesEnd(cursor[q]) \in Nat
      BY PagesEndType DEF TypeOK
    <3>2. PICK y : Upto(D, PagesEnd(cursor[q])) \subseteq Upto(C, PagesEnd(cursor[q])) \cup {y}
      BY <1>2, <3>1
    <3>3. DueMembers(q)' \subseteq DueMembers(q) \cup {y}
      BY <1>3, <2>1, <3>2 DEF DueMembers
    <3> QED
      BY <3>3
  <2>2. CASE at[q] # "members"
    <3>1. PICK y : Range(D) \subseteq Range(C) \cup {y}
      BY <1>2
    <3>2. DueMembers(q)' \subseteq DueMembers(q) \cup {y}
      BY <1>3, <2>2, <3>1 DEF DueMembers
    <3> QED
      BY <3>2
  <2> QED
    BY <2>1, <2>2
<1>6. Eligible' = Eligible
  BY DEF Eligible
<1>7. Due(q)' \subseteq Due(q) \cup {x}
  BY <1>4, <1>5, <1>6 DEF Due
<1> QED
  BY <1>3, <1>7, ShiftLost

LEMMA ShiftOrg ==
  ASSUME TypeOK, OrgInv, Shifts
  PROVE  OrgInv'
<1>1. Shift /\ github'.repos = github.repos
  BY ShiftFacts
<1>2. /\ at' = at /\ cursor' = cursor /\ more' = more /\ rows' = rows /\ tasks' = tasks
      /\ moves' = moves /\ movesAt' = movesAt
  BY <1>1 DEF Shift, progress
<1>3. ASSUME NEW q \in Requests PROVE RowsInv(q)' /\ LostInv(q)' /\ PagesInv(q)'
  <2>1. RowsInv(q) /\ LostInv(q) /\ PagesInv(q)
    BY DEF OrgInv
  <2>2. LostInv(q)'
    BY <2>1, ContributorsLost, MembersLost DEF Shifts
  <2>3. RowsInv(q)'
    BY <1>1, <1>2, <2>1 DEF RowsInv
  <2>4. MissedRepos(q)' = MissedRepos(q) /\ RepeatedRepos(q)' = RepeatedRepos(q)
    BY <1>1, <1>2 DEF MissedRepos, RepeatedRepos, ReposAhead
  <2>5. PagesInv(q)'
    BY <1>2, <2>1, <2>4 DEF PagesInv
  <2> QED
    BY <2>2, <2>3, <2>5
<1> QED
  BY <1>1, <1>3 DEF OrgInv

\* A repository is created or deleted: each request misses at most one more,
\* and reads at most one more twice.
LEMMA MovePages ==
  ASSUME TypeOK, OrgInv, Moves, NEW q \in Requests, at[q] \in OrgStages
  PROVE  /\ \E x : MissedRepos(q)' \subseteq MissedRepos(q) \cup {x}
         /\ \E x : RepeatedRepos(q)' \subseteq RepeatedRepos(q) \cup {x}
<1> DEFINE R == github.repos
           D == github'.repos
           k == IF at[q] = "members" THEN 0 ELSE cursor[q]
           A == ReposAhead(q)
           B == ReposAhead(q)'
<1>1. R \in Seq(Repos) /\ k \in Nat
  BY DEF TypeOK, WorldType
<1>2. at' = at /\ cursor' = cursor /\ more' = more /\ rows' = rows
  BY ReposMove DEF Move, progress
<1>3. \/ A = {} /\ B = {}
      \/ A = Beyond(R, k) /\ B = Beyond(D, k)
  BY <1>2 DEF ReposAhead
<1>4. /\ MissedRepos(q) = Range(R) \ (Range(rows[q]) \cup A)
      /\ MissedRepos(q)' = Range(D) \ (Range(rows[q]) \cup B)
      /\ RepeatedRepos(q) = Range(rows[q]) \cap A
      /\ RepeatedRepos(q)' = Range(rows[q]) \cap B
  BY <1>2 DEF MissedRepos, RepeatedRepos
<1>5. \/ \E r \in Repos \ Range(R), i \in 1..Len(R) + 1 : D = InsertAt(R, i, r)
      \/ \E i \in 1..Len(R) : D = RemoveAt(R, i)
  BY ReposMove
<1> HIDE DEF R, D, k, A, B
<1>6. ASSUME NEW r \in Repos, NEW i \in 1..Len(R) + 1, D = InsertAt(R, i, r)
      PROVE  /\ Range(D) = Range(R) \cup {r}
             /\ \E x : A \subseteq B /\ B \subseteq A \cup {x}
  <2>1. /\ Range(D) = Range(R) \cup {r} /\ Beyond(R, k) \subseteq Beyond(D, k)
        /\ \E x : Beyond(D, k) \subseteq Beyond(R, k) \cup {x}
    <3> DEFINE u == InsertAt(R, i, r)
    <3>1. Range(u) = Range(R) \cup {r}
      BY <1>1, InsertMoves
    <3>2. Beyond(R, k) \subseteq Beyond(u, k)
      BY <1>1, InsertMoves
    <3>3. \E x : Beyond(u, k) \subseteq Beyond(R, k) \cup {x}
      BY <1>1, InsertMoves
    <3>4. u = D
      BY <1>6
    <3> HIDE DEF u
    <3> QED
      BY <3>1, <3>2, <3>3, <3>4
  <2>2. CASE A = {} /\ B = {}
    BY <2>1, <2>2
  <2>3. CASE A = Beyond(R, k) /\ B = Beyond(D, k)
    BY <2>1, <2>3
  <2> QED
    BY <1>3, <2>2, <2>3
<1>7. ASSUME NEW i \in 1..Len(R), D = RemoveAt(R, i)
      PROVE  /\ Range(D) \subseteq Range(R)
             /\ \E x : B \subseteq A /\ A \subseteq B \cup {x}
  <2>1. /\ Range(D) \subseteq Range(R) /\ Beyond(D, k) \subseteq Beyond(R, k)
        /\ \E x : Beyond(R, k) \subseteq Beyond(D, k) \cup {x}
    BY <1>1, <1>7, RemoveMoves
  <2>2. CASE A = {} /\ B = {}
    BY <2>1, <2>2
  <2>3. CASE A = Beyond(R, k) /\ B = Beyond(D, k)
    BY <2>1, <2>3
  <2> QED
    BY <1>3, <2>2, <2>3
<1>8. CASE \E r \in Repos, i \in 1..Len(R) + 1 : D = InsertAt(R, i, r)
  <2>1. PICK r \in Repos, i \in 1..Len(R) + 1 : D = InsertAt(R, i, r)
    BY <1>8
  <2>2. PICK x : Range(D) = Range(R) \cup {r} /\ A \subseteq B /\ B \subseteq A \cup {x}
    BY <1>6, <2>1
  <2>3. /\ MissedRepos(q)' \subseteq MissedRepos(q) \cup {r}
        /\ RepeatedRepos(q)' \subseteq RepeatedRepos(q) \cup {x}
    BY <1>4, <2>2
  <2> QED
    BY <2>3
<1>9. CASE \E i \in 1..Len(R) : D = RemoveAt(R, i)
  <2>1. PICK i \in 1..Len(R) : D = RemoveAt(R, i)
    BY <1>9
  <2>2. PICK x : Range(D) \subseteq Range(R) /\ B \subseteq A /\ A \subseteq B \cup {x}
    BY <1>7, <2>1
  <2>3. /\ MissedRepos(q)' \subseteq MissedRepos(q) \cup {x}
        /\ RepeatedRepos(q)' \subseteq RepeatedRepos(q) \cup {x}
    BY <1>4, <2>2
  <2> QED
    BY <2>3
<1> QED
  BY <1>5, <1>8, <1>9

LEMMA MoveOrg ==
  ASSUME TypeOK, OrgInv, Moves
  PROVE  OrgInv'
<1>1. /\ Move /\ github'.members = github.members /\ github'.contributors = github.contributors
      /\ github' \in WorldType
  BY ReposMove
<1>2. /\ at' = at /\ cursor' = cursor /\ more' = more /\ rows' = rows /\ people' = people
      /\ tasks' = tasks /\ shiftsAt' = shiftsAt /\ shifts' = shifts
      /\ moves' = moves + 1 /\ movesAt' = movesAt
  BY <1>1 DEF Move, progress
<1>3. IsInjective(github'.repos)
  <2> DEFINE R == github.repos
  <2>1. R \in Seq(Repos) /\ IsInjective(R) /\ 0 \in Nat
    BY DEF OrgInv, TypeOK, WorldType
  <2>2. \/ \E r \in Repos \ Range(R), i \in 1..Len(R) + 1 : github'.repos = InsertAt(R, i, r)
        \/ \E i \in 1..Len(R) : github'.repos = RemoveAt(R, i)
    BY ReposMove
  <2> HIDE DEF R
  <2>3. \A r \in Repos \ Range(R), i \in 1..Len(R) + 1 : IsInjective(InsertAt(R, i, r))
    BY <2>1, InsertMoves
  <2>4. \A i \in 1..Len(R) : IsInjective(RemoveAt(R, i))
    BY <2>1, RemoveMoves
  <2> QED
    BY <2>2, <2>3, <2>4
<1>4. ASSUME NEW q \in Requests PROVE RowsInv(q)' /\ LostInv(q)' /\ PagesInv(q)'
  <2>1. RowsInv(q) /\ LostInv(q) /\ PagesInv(q)
    BY DEF OrgInv
  <2>2. moves \in Nat /\ movesAt[q] \in Nat
    BY BoundsAssumption DEF TypeOK
  <2>3. at[q] \in OrgStages => movesAt'[q] <= moves' /\ moves' # movesAt'[q]
    BY <1>2, <2>1, <2>2 DEF RowsInv
  <2>4. RowsInv(q)'
    BY <1>2, <2>1, <2>3 DEF RowsInv, OrgStages
  <2>5. LostInv(q)'
    <3>1. Lost(q)' = Lost(q)
      BY <1>1, <1>2 DEF Lost, Due, DueMembers, DueOf, Eligible
    <3> QED
      BY <1>2, <2>1, <3>1 DEF LostInv
  <2>6. ASSUME at[q] \in OrgStages
        PROVE  /\ IsFiniteSet(MissedRepos(q)') /\ Cardinality(MissedRepos(q)') <= moves' - movesAt'[q]
               /\ Len(rows'[q]) + Cardinality(RepeatedRepos(q)')
                    <= Cardinality(Range(rows'[q])) + (moves' - movesAt'[q])
    <3>1. /\ IsFiniteSet(MissedRepos(q)) /\ Cardinality(MissedRepos(q)) <= moves - movesAt[q]
          /\ Len(rows[q]) + Cardinality(RepeatedRepos(q))
               <= Cardinality(Range(rows[q])) + (moves - movesAt[q])
      BY <2>1, <2>6 DEF PagesInv
    <3>2. PICK x : MissedRepos(q)' \subseteq MissedRepos(q) \cup {x}
      BY <2>6, MovePages
    <3>3. PICK y : RepeatedRepos(q)' \subseteq RepeatedRepos(q) \cup {y}
      BY <2>6, MovePages
    <3>4. rows[q] \in Seq(Repos) /\ Len(rows[q]) \in Nat
      BY DEF TypeOK
    <3>5. IsFiniteSet(Range(rows[q])) /\ Cardinality(Range(rows[q])) \in Nat
      BY <3>4, RangeCount
    <3>6. IsFiniteSet(RepeatedRepos(q))
      BY <3>5, NotMore DEF RepeatedRepos
    <3>7. /\ IsFiniteSet(MissedRepos(q)')
          /\ Cardinality(MissedRepos(q)') <= Cardinality(MissedRepos(q)) + 1
          /\ Cardinality(MissedRepos(q)') \in Nat /\ Cardinality(MissedRepos(q)) \in Nat
      BY <3>1, <3>2, OneMore
    <3>8. /\ Cardinality(RepeatedRepos(q)') <= Cardinality(RepeatedRepos(q)) + 1
          /\ Cardinality(RepeatedRepos(q)') \in Nat /\ Cardinality(RepeatedRepos(q)) \in Nat
      BY <3>3, <3>6, OneMore
    <3>11. moves' = moves + 1 /\ movesAt'[q] = movesAt[q] /\ rows'[q] = rows[q]
           /\ moves \in Nat /\ movesAt[q] \in Nat
      BY <1>2, <2>2 DEF TypeOK
    <3>9. Cardinality(MissedRepos(q)') <= moves' - movesAt'[q]
      BY <3>1, <3>7, <3>11
    <3>10. Len(rows'[q]) + Cardinality(RepeatedRepos(q)')
             <= Cardinality(Range(rows'[q])) + (moves' - movesAt'[q])
      BY <3>1, <3>4, <3>5, <3>8, <3>11
    <3> QED
      BY <3>7, <3>9, <3>10
  <2>7. PagesInv(q)'
    BY <1>2, <2>6 DEF PagesInv
  <2> QED
    BY <2>4, <2>5, <2>7
<1> QED
  BY <1>3, <1>4 DEF OrgInv

\* A step of one request leaves what holds of the others.
LEMMA OrgOthers ==
  ASSUME OrgInv, NEW q \in Requests, RowsInv(q)', LostInv(q)', PagesInv(q)',
         github' = github, shifts' = shifts, moves' = moves,
         \A p \in Requests \ {q} :
           /\ at'[p] = at[p] /\ cursor'[p] = cursor[p] /\ more'[p] = more[p] /\ rows'[p] = rows[p]
           /\ people'[p] = people[p] /\ tasks'[p] = tasks[p] /\ shiftsAt'[p] = shiftsAt[p]
           /\ movesAt'[p] = movesAt[p]
  PROVE  OrgInv'
<1>1. ASSUME NEW p \in Requests \ {q} PROVE RowsInv(p)' /\ LostInv(p)' /\ PagesInv(p)'
  BY OrgFrame DEF OrgInv
<1> QED
  BY <1>1 DEF OrgInv

\* A page that is added to what was seen before.
LEMMA PageLost ==
  ASSUME NEW q \in Requests, NEW P, at[q] \in OrgStages, LostInv(q), shifts' = shifts,
         shiftsAt'[q] = shiftsAt[q], people'[q] = people[q] \cup P, Due(q)' \subseteq Due(q) \cup P,
         TypeOK
  PROVE  LostInv(q)'
<1>1. Lost(q)' \subseteq Lost(q)
  BY DEF Lost
<1>2. IsFiniteSet(Lost(q)) /\ Cardinality(Lost(q)) <= shifts - shiftsAt[q]
  BY DEF LostInv
<1>3. /\ IsFiniteSet(Lost(q)') /\ Cardinality(Lost(q)') <= Cardinality(Lost(q))
      /\ Cardinality(Lost(q)') \in Nat /\ Cardinality(Lost(q)) \in Nat
  BY <1>1, <1>2, NotMore
<1>4. shifts \in Nat /\ shiftsAt[q] \in Nat
  BY BoundsAssumption DEF TypeOK
<1>5. Cardinality(Lost(q)') <= shifts' - shiftsAt'[q]
  BY <1>2, <1>3, <1>4
<1> QED
  BY <1>3, <1>5 DEF LostInv

LEMMA BeforeOrg ==
  ASSUME TypeOK, OrgInv, NEW q \in Requests, Start(q) \/ FetchPage(q)
  PROVE  OrgInv'
<1>1. /\ at[q] \in Feeds \cup {"idle"} /\ at'[q] \in Feeds
      /\ github' = github /\ shifts' = shifts /\ shiftsAt' = shiftsAt
      /\ moves' = moves /\ movesAt' = movesAt
      /\ rows' = rows /\ people' = people /\ tasks' = tasks
  BY DEF Start, FetchPage, Turn, history, counts, Feeds, TypeOK
<1>2. \A p \in Requests \ {q} : at'[p] = at[p] /\ cursor'[p] = cursor[p] /\ more'[p] = more[p]
  BY DEF Start, FetchPage, Turn, TypeOK
<1>3. RowsInv(q)
  BY DEF OrgInv
<1>4. RowsInv(q)'
  BY <1>1, <1>3 DEF RowsInv, OrgStages, Feeds
<1>5. LostInv(q)' /\ PagesInv(q)'
  BY <1>1 DEF LostInv, PagesInv, OrgStages, Feeds
<1> QED
  BY <1>1, <1>2, <1>4, <1>5, OrgOthers

\* Nobody is due and no repository is missed when their reading begins.
LEMMA StoreOrgInv ==
  ASSUME TypeOK, OrgInv, NEW q \in Requests, Store(q)
  PROVE  OrgInv'
<1>1. /\ at[q] \in Feeds /\ at'[q] = After(at[q]) /\ cursor'[q] = 0
      /\ github' = github /\ shifts' = shifts /\ moves' = moves
      /\ rows' = rows /\ people' = people /\ tasks' = tasks
      /\ After(at[q]) = "members" => shiftsAt'[q] = shifts /\ movesAt'[q] = moves
  BY DEF Store, Turn, Forget, TypeOK
<1>2. \A p \in Requests \ {q} :
        /\ at'[p] = at[p] /\ cursor'[p] = cursor[p] /\ more'[p] = more[p]
        /\ shiftsAt'[p] = shiftsAt[p] /\ movesAt'[p] = movesAt[p]
  BY DEF Store, Turn, Forget, TypeOK
<1>3. RowsInv(q) /\ tasks[q] = NoTasks /\ rows[q] = <<>>
  BY <1>1 DEF OrgInv, RowsInv, Feeds
<1>4. at'[q] \in Feeds \cup {"members"}
  BY <1>1 DEF After, Feeds
<1>5. RowsInv(q)'
  <2>1. at'[q] = "members" => movesAt'[q] <= moves'
    BY <1>1, BoundsAssumption DEF TypeOK
  <2> QED
    BY <1>1, <1>3, <1>4, <2>1 DEF RowsInv, OrgStages, Feeds
<1>6. LostInv(q)'
  <2>1. CASE at'[q] \in Feeds
    BY <2>1 DEF LostInv, OrgStages, Feeds
  <2>2. CASE at'[q] = "members"
    <3>1. \A s : Upto(s, 0) = {}
      BY DEF Upto
    <3>2. DueMembers(q)' = {}
      BY <1>1, <2>2, <3>1 DEF DueMembers, PagesEnd
    <3>3. ASSUME NEW p \in Repos PROVE DueOf(q, p)' = {}
      BY <1>1, <1>3 DEF DueOf, NoTasks, Range
    <3>4. Lost(q)' = {}
      BY <3>2, <3>3, WorldsAssumption DEF Lost, Due, Eligible
    <3>5. shiftsAt'[q] = shifts /\ shifts \in Nat
      BY <1>1, <2>2, BoundsAssumption DEF TypeOK
    <3> QED
      BY <1>1, <3>4, <3>5, FS_EmptySet DEF LostInv
  <2> QED
    BY <1>4, <2>1, <2>2
<1>7. PagesInv(q)'
  <2>1. CASE at'[q] \in Feeds
    BY <2>1 DEF PagesInv, OrgStages, Feeds
  <2>2. CASE at'[q] = "members"
    <3>1. github.repos \in Seq(Repos) /\ rows'[q] = <<>>
      BY <1>1, <1>3 DEF TypeOK, WorldType
    <3>2. ReposAhead(q)' = Range(github.repos)
      BY <1>1, <2>2, <3>1, BeyondNone DEF ReposAhead
    <3>3. MissedRepos(q)' = {} /\ RepeatedRepos(q)' = {} /\ Range(rows'[q]) = {} /\ Len(rows'[q]) = 0
      BY <1>1, <3>1, <3>2 DEF MissedRepos, RepeatedRepos, Range
    <3>4. movesAt'[q] = moves' /\ moves' \in Nat
      BY <1>1, <2>2, BoundsAssumption DEF TypeOK
    <3> QED
      BY <3>3, <3>4, FS_EmptySet DEF PagesInv
  <2> QED
    BY <1>4, <2>1, <2>2
<1> QED
  BY <1>1, <1>2, <1>5, <1>6, <1>7, OrgOthers

LEMMA EndOrg ==
  ASSUME TypeOK, OrgInv, NEW q \in Requests, StoreOrg(q) \/ RepoGone(q) \/ Fail(q)
  PROVE  OrgInv'
<1>1. Finish(q) /\ github' = github
  BY DEF StoreOrg, RepoGone, Fail
<1>2. /\ at'[q] = "idle" /\ rows'[q] = <<>> /\ tasks'[q] = NoTasks
      /\ shifts' = shifts /\ moves' = moves
  BY <1>1 DEF Finish, Turn, Forget, TypeOK
<1>3. \A p \in Requests \ {q} :
        /\ at'[p] = at[p] /\ cursor'[p] = cursor[p] /\ more'[p] = more[p] /\ rows'[p] = rows[p]
        /\ people'[p] = people[p] /\ tasks'[p] = tasks[p] /\ shiftsAt'[p] = shiftsAt[p]
        /\ movesAt'[p] = movesAt[p]
  BY <1>1 DEF Finish, Turn, Forget, TypeOK
<1>4. RowsInv(q)' /\ LostInv(q)' /\ PagesInv(q)'
  BY <1>2 DEF RowsInv, LostInv, PagesInv, OrgStages, NoTasks
<1> QED
  BY <1>1, <1>2, <1>3, <1>4, OrgOthers

LEMMA MembersOrg ==
  ASSUME TypeOK, OrgInv, NEW q \in Requests, MembersPage(q)
  PROVE  OrgInv'
<1> DEFINE C == github.members
           c == cursor[q]
           page == PageOf(C, c)
<1>1. /\ at[q] = "members" /\ people'[q] = people[q] \cup Range(page)
      /\ github' = github /\ shifts' = shifts /\ shiftsAt' = shiftsAt /\ rows' = rows /\ tasks' = tasks
      /\ moves' = moves /\ movesAt' = movesAt
      /\ \A p \in Requests \ {q} : people'[p] = people[p]
  BY DEF MembersPage, history, counts, TypeOK
<1>2. C \in Seq(People) /\ c \in Nat
  BY DEF TypeOK, WorldType
<1>3. /\ Upto(C, PagesEnd(c + 1)) \subseteq Upto(C, PagesEnd(c)) \cup Range(page)
      /\ page = <<>> => Range(C) \subseteq Upto(C, PagesEnd(c))
  <2> HIDE DEF C, c
  <2> QED
    BY <1>2, PageFacts
<1> HIDE DEF page
<1>4. /\ \/ page = <<>> /\ at'[q] = "repos" /\ cursor'[q] = 0 /\ more'[q] = TRUE
         \/ page # <<>> /\ at'[q] = "members" /\ cursor'[q] = c + 1
      /\ \A p \in Requests \ {q} : at'[p] = at[p] /\ cursor'[p] = cursor[p] /\ more'[p] = more[p]
  <2>1. CASE page = <<>>
    <3>1. Turn(q, "repos")
      BY <2>1 DEF MembersPage, page
    <3> QED
      BY <2>1, <3>1 DEF Turn, TypeOK
  <2>2. CASE page # <<>>
    <3>1. cursor' = [cursor EXCEPT ![q] = @ + 1] /\ at' = at /\ more' = more
      BY <2>2, Zenon DEF MembersPage, page
    <3> QED
      BY <1>1, <2>2, <3>1 DEF TypeOK
  <2> QED
    BY <2>1, <2>2
<1>5. RowsInv(q) /\ LostInv(q) /\ PagesInv(q) /\ tasks[q] = NoTasks /\ rows[q] = <<>>
  BY <1>1 DEF OrgInv, RowsInv
<1>6. RowsInv(q)'
  <2>1. Slice(github.repos, 0, 0) = <<>>
    BY SlicesJoin DEF TypeOK, WorldType
  <2> QED
    BY <1>1, <1>4, <1>5, <2>1 DEF RowsInv, OrgStages
<1>7. LostInv(q)'
  <2>1. DueMembers(q)' \subseteq DueMembers(q) \cup Range(page)
    BY <1>1, <1>3, <1>4 DEF DueMembers
  <2>2. \A p : DueOf(q, p)' = DueOf(q, p)
    BY <1>1 DEF DueOf
  <2>3. Due(q)' \subseteq Due(q) \cup Range(page)
    BY <2>1, <2>2 DEF Due, Eligible
  <2> QED
    BY <1>1, <1>5, <2>3, PageLost DEF OrgStages
<1>8. PagesInv(q)'
  <2>1. ReposAhead(q)' = ReposAhead(q)
    BY <1>1, <1>4 DEF ReposAhead
  <2>2. MissedRepos(q)' = MissedRepos(q) /\ RepeatedRepos(q)' = RepeatedRepos(q)
    BY <1>1, <2>1 DEF MissedRepos, RepeatedRepos
  <2> QED
    BY <1>1, <1>5, <2>2 DEF PagesInv, OrgStages
<1> QED
  BY <1>1, <1>4, <1>6, <1>7, <1>8, OrgOthers

LEMMA ReposOrg ==
  ASSUME TypeOK, OrgInv, NEW q \in Requests, ReposPage(q)
  PROVE  OrgInv'
<1> DEFINE R == github.repos
           k == cursor[q]
           page == Slice(R, k, RepoPage)
<1>1. /\ at[q] = "repos" /\ at'[q] = "contributors" /\ cursor'[q] = k + RepoPage
      /\ rows'[q] = rows[q] \o page /\ more'[q] = (k + RepoPage < Len(R))
      /\ tasks'[q] = [r \in Repos |-> IF r \in Range(page) \cap Eligible THEN 0 ELSE Ended]
      /\ github' = github /\ shifts' = shifts /\ shiftsAt' = shiftsAt /\ people' = people
      /\ moves' = moves /\ movesAt' = movesAt
  BY DEF ReposPage, history, counts, TypeOK
<1>2. \A p \in Requests \ {q} :
        /\ at'[p] = at[p] /\ cursor'[p] = cursor[p] /\ more'[p] = more[p] /\ rows'[p] = rows[p]
        /\ tasks'[p] = tasks[p]
  BY DEF ReposPage, TypeOK
<1>3. R \in Seq(Repos) /\ k \in Nat /\ RepoPage \in Nat /\ rows[q] \in Seq(Repos) /\ Len(R) \in Nat
  BY BoundsAssumption DEF TypeOK, WorldType
<1>4. /\ RowsInv(q) /\ LostInv(q) /\ PagesInv(q) /\ tasks[q] = NoTasks /\ more[q]
      /\ moves = movesAt[q] => rows[q] = Slice(R, 0, k)
      /\ movesAt[q] <= moves /\ movesAt[q] \in Nat /\ moves \in Nat /\ IsInjective(R)
  BY <1>1, BoundsAssumption DEF OrgInv, RowsInv, OrgStages, TypeOK
<1>a. ReposAhead(q) = Beyond(R, k)
  BY <1>1, <1>4 DEF ReposAhead
<1> HIDE DEF R, k
<1>5. /\ Slice(R, 0, k) \o page = Slice(R, 0, k + RepoPage)
      /\ k + RepoPage >= Len(R) => Slice(R, 0, k + RepoPage) = R
      /\ page \in Seq(Repos)
  BY <1>3, SlicesJoin, SliceFacts
<1> HIDE DEF page
<1>6. RowsInv(q)'
  <2>1. R = github'.repos /\ (moves = movesAt[q] => rows'[q] = Slice(R, 0, cursor'[q]))
    BY <1>1, <1>4, <1>5 DEF R
  <2>2. ASSUME moves = movesAt[q], ~more'[q] PROVE rows'[q] = R
    <3>1. ~(k + RepoPage < Len(R))
      BY <1>1, <2>2, Zenon
    <3>2. k + RepoPage >= Len(R)
      BY <1>3, <3>1
    <3>3. rows'[q] = rows[q] \o page
      BY <1>1, Zenon
    <3> QED
      BY <1>4, <1>5, <2>2, <3>2, <3>3, Zenon
  <2>3. at'[q] = "contributors" /\ movesAt'[q] <= moves' /\ (moves' = movesAt'[q] => moves = movesAt[q])
    BY <1>1, <1>4
  <2> QED
    BY <2>1, <2>2, <2>3 DEF RowsInv
<1>7. LostInv(q)'
  <2>1. DueMembers(q)' = DueMembers(q)
    BY <1>1 DEF DueMembers
  <2>2. Range(rows'[q]) = Range(rows[q]) \cup Range(page)
    BY <1>1, <1>3, <1>5, RangeConcat
  <2>3. Eligible \subseteq Repos /\ Eligible' = Eligible
    BY WorldsAssumption DEF Eligible
  <2>4. ASSUME NEW r \in Eligible PROVE DueOf(q, r)' \subseteq DueOf(q, r)
    <3>1. r \in Repos /\ tasks[q][r] = Ended
      BY <1>4, <2>3 DEF NoTasks
    <3>2. CASE r \in Range(page)
      <4>1. tasks'[q][r] = 0 /\ 0 # Ended /\ PagesEnd(0) = 0
        BY <1>1, <3>1, <3>2 DEF Ended, PagesEnd
      <4>2. DueOf(q, r)' = Upto(github'.contributors[r], 0)
        BY <4>1 DEF DueOf
      <4> QED
        BY <4>2 DEF Upto
    <3>3. CASE r \notin Range(page)
      BY <1>1, <2>2, <3>1, <3>3 DEF DueOf
    <3> QED
      BY <3>2, <3>3
  <2>5. Due(q)' \subseteq Due(q) \cup {}
    BY <2>1, <2>3, <2>4 DEF Due
  <2>6. /\ at[q] \in OrgStages /\ LostInv(q) /\ shifts' = shifts /\ shiftsAt'[q] = shiftsAt[q]
        /\ people'[q] = people[q] \cup {}
    <3>1. people' = people /\ shiftsAt' = shiftsAt /\ shifts' = shifts /\ at[q] = "repos"
      BY <1>1, Zenon
    <3> QED
      BY <1>4, <3>1 DEF OrgStages
  <2> QED
    BY <2>5, <2>6, PageLost
<1>8. PagesInv(q)'
  <2> DEFINE rest == Beyond(R, k + RepoPage)
  <2>1. /\ Beyond(R, k) = Range(page) \cup rest
        /\ Range(page) \cap rest = {} /\ IsInjective(page)
    BY <1>3, <1>4, BeyondSplit, ZenonT(60) DEF page
  <2>2. k + RepoPage >= Len(R) => rest = {}
    BY <1>3 DEF Beyond
  <2> HIDE DEF rest
  <2>3. ReposAhead(q)' = rest
    <3>1. ReposAhead(q)' = IF k + RepoPage < Len(R) THEN rest ELSE {}
      BY <1>1 DEF ReposAhead, rest, R
    <3>2. k + RepoPage < Len(R) \/ k + RepoPage >= Len(R)
      BY <1>3
    <3> QED
      BY <2>2, <3>1, <3>2
  <2> DEFINE g == rows[q]
             d == moves - movesAt[q]
  <2>4. d \in Nat /\ g \in Seq(Repos) /\ rows'[q] = g \o page /\ moves' - movesAt'[q] = d
    BY <1>1, <1>3, <1>4
  <2>5. Range(g \o page) = Range(g) \cup Range(page)
    BY <1>5, <2>4, RangeConcat
  <2>6. /\ IsFiniteSet(MissedRepos(q)) /\ Cardinality(MissedRepos(q)) <= d
        /\ Len(g) + Cardinality(RepeatedRepos(q)) <= Cardinality(Range(g)) + d
    BY <1>1, <1>4 DEF PagesInv, OrgStages
  <2>7. RepeatedRepos(q) = Range(g) \cap (Range(page) \cup rest)
    BY <1>a, <2>1 DEF RepeatedRepos
  <2> HIDE DEF g, d
  <2>8. Len(g \o page) + Cardinality(Range(g \o page) \cap rest) <= Cardinality(Range(g \o page)) + d
    BY <1>5, <2>1, <2>4, <2>6, <2>7, PageAgain
  <2>9. RepeatedRepos(q)' = Range(g \o page) \cap rest
    BY <2>3, <2>4 DEF RepeatedRepos
  <2>10. MissedRepos(q)' = MissedRepos(q)
    BY <1>1, <1>a, <2>1, <2>3, <2>4, <2>5 DEF MissedRepos, g
  <2> QED
    BY <2>4, <2>6, <2>8, <2>9, <2>10 DEF PagesInv
<1> QED
  BY <1>1, <1>2, <1>6, <1>7, <1>8, OrgOthers

LEMMA ContributorsOrg ==
  ASSUME TypeOK, OrgInv, NEW q \in Requests, NEW r \in Repos, ContributorsPage(q, r)
  PROVE  OrgInv'
<1> DEFINE C == github.contributors[r]
           c == tasks[q][r]
           page == PageOf(C, c)
<1>1. /\ at[q] = "contributors" /\ c # Ended /\ people'[q] = people[q] \cup Range(page)
      /\ tasks'[q] = [tasks[q] EXCEPT ![r] = IF page = <<>> THEN Ended ELSE c + 1]
      /\ github' = github /\ shifts' = shifts /\ shiftsAt' = shiftsAt
      /\ moves' = moves /\ movesAt' = movesAt
      /\ at' = at /\ cursor' = cursor /\ more' = more /\ rows' = rows
      /\ \A p \in Requests \ {q} : people'[p] = people[p] /\ tasks'[p] = tasks[p]
  BY DEF ContributorsPage, history, counts, TypeOK
<1>2. C \in Seq(People) /\ c \in Nat /\ tasks[q] \in [Repos -> Nat \cup {Ended}]
  BY <1>1 DEF TypeOK, WorldType
<1>3. /\ Upto(C, PagesEnd(c + 1)) \subseteq Upto(C, PagesEnd(c)) \cup Range(page)
      /\ page = <<>> => Range(C) \subseteq Upto(C, PagesEnd(c))
  <2> HIDE DEF C, c
  <2> QED
    BY <1>2, PageFacts
<1> HIDE DEF page
<1>4. RowsInv(q) /\ LostInv(q) /\ PagesInv(q)
  BY DEF OrgInv
<1>5. RowsInv(q)'
  BY <1>1, <1>4 DEF RowsInv
<1>6. LostInv(q)'
  <2>1. DueMembers(q)' = DueMembers(q)
    BY <1>1 DEF DueMembers
  <2>2. DueOf(q, r)' \subseteq DueOf(q, r) \cup Range(page)
    <3>1. DueOf(q, r) = Upto(C, PagesEnd(c))
      BY <1>1 DEF DueOf
    <3>2. CASE page = <<>>
      <4>1. tasks'[q][r] = Ended
        BY <1>1, <1>2, <3>2
      <4>2. DueOf(q, r)' \subseteq Range(C)
        BY <1>1, <4>1 DEF DueOf
      <4> QED
        BY <1>3, <3>1, <3>2, <4>2
    <3>3. CASE page # <<>>
      <4>1. tasks'[q][r] = c + 1 /\ c + 1 # Ended
        BY <1>1, <1>2, <3>3 DEF Ended
      <4>2. DueOf(q, r)' = Upto(C, PagesEnd(c + 1))
        BY <1>1, <4>1 DEF DueOf
      <4> QED
        BY <1>3, <3>1, <4>2
    <3> QED
      BY <3>2, <3>3
  <2>3. ASSUME NEW p \in Repos \ {r} PROVE DueOf(q, p)' = DueOf(q, p)
    <3>1. tasks'[q][p] = tasks[q][p]
      BY <1>1, <1>2
    <3> QED
      BY <1>1, <3>1 DEF DueOf
  <2>4. Eligible \subseteq Repos /\ Eligible' = Eligible
    BY WorldsAssumption DEF Eligible
  <2>5. Due(q)' \subseteq Due(q) \cup Range(page)
    BY <2>1, <2>2, <2>3, <2>4 DEF Due
  <2> QED
    BY <1>1, <1>4, <2>5, PageLost DEF OrgStages
<1>7. PagesInv(q)'
  <2>1. MissedRepos(q)' = MissedRepos(q) /\ RepeatedRepos(q)' = RepeatedRepos(q)
    BY <1>1 DEF MissedRepos, RepeatedRepos, ReposAhead
  <2> QED
    BY <1>1, <1>4, <2>1 DEF PagesInv
<1> QED
  BY <1>1, <1>5, <1>6, <1>7, OrgOthers

LEMMA GatheredOrg ==
  ASSUME TypeOK, OrgInv, NEW q \in Requests, Gathered(q)
  PROVE  OrgInv'
<1>1. /\ at[q] = "contributors" /\ tasks[q] = NoTasks
      /\ at'[q] = (IF more[q] THEN "repos" ELSE "org")
      /\ github' = github /\ shifts' = shifts /\ shiftsAt' = shiftsAt /\ people' = people
      /\ moves' = moves /\ movesAt' = movesAt
      /\ cursor' = cursor /\ more' = more /\ rows' = rows /\ tasks' = tasks
      /\ \A p \in Requests \ {q} : at'[p] = at[p]
  BY DEF Gathered, history, counts, TypeOK
<1>2. RowsInv(q) /\ LostInv(q) /\ PagesInv(q)
  BY DEF OrgInv
<1>3. RowsInv(q)'
  BY <1>1, <1>2 DEF RowsInv, OrgStages
<1>4. Due(q)' = Due(q)
  BY <1>1 DEF Due, DueMembers, DueOf, Eligible
<1>5. Due(q)' \subseteq Due(q) \cup {} /\ people'[q] = people[q] \cup {}
  BY <1>1, <1>4
<1>6. LostInv(q)'
  BY <1>1, <1>2, <1>5, PageLost DEF OrgStages
<1>7. PagesInv(q)'
  <2>1. MissedRepos(q)' = MissedRepos(q) /\ RepeatedRepos(q)' = RepeatedRepos(q)
    BY <1>1 DEF MissedRepos, RepeatedRepos, ReposAhead
  <2> QED
    BY <1>1, <1>2, <2>1 DEF PagesInv, OrgStages
<1> QED
  BY <1>1, <1>3, <1>6, <1>7, OrgOthers

LEMMA OrgStep == TypeOK /\ OrgInv /\ [Next]_vars => OrgInv'
<1> SUFFICES ASSUME TypeOK, OrgInv, [Next]_vars PROVE OrgInv'
  OBVIOUS
<1>1. CASE \/ UNCHANGED vars
           \/ \E f \in Feeds : Publish(f) \/ TakeBack(f)
  <2>1. /\ at' = at /\ cursor' = cursor /\ more' = more /\ rows' = rows /\ people' = people
        /\ tasks' = tasks /\ shiftsAt' = shiftsAt /\ shifts' = shifts
        /\ moves' = moves /\ movesAt' = movesAt
    BY <1>1 DEF vars, progress, history, counts, Publish, TakeBack
  <2>2. /\ github'.members = github.members /\ github'.contributors = github.contributors
        /\ github'.repos = github.repos
    BY <1>1 DEF vars, Publish, TakeBack, TypeOK, WorldType
  <2>3. ASSUME NEW q \in Requests PROVE RowsInv(q)' /\ LostInv(q)' /\ PagesInv(q)'
    BY <2>1, <2>2, OrgFrame DEF OrgInv
  <2> QED
    BY <2>2, <2>3 DEF OrgInv
<1>2. ASSUME NEW q \in Requests, Start(q) \/ Step(q) \/ Fail(q) PROVE OrgInv'
  BY <1>2, BeforeOrg, StoreOrgInv, EndOrg, MembersOrg, ReposOrg, ContributorsOrg, GatheredOrg DEF Step
<1> QED
  BY <1>1, <1>2, ShiftOrg, MoveOrg DEF Next, Shifts, Moves

LEMMA OrgInit == Init => OrgInv
BY DistinctAssumption DEF Init, OrgInv, RowsInv, LostInv, PagesInv, OrgStages, NoTasks

\* Who is missed in the end was lost on the way.
LEMMA OrgLost ==
  ASSUME TypeOK, OrgInv, NEW q \in Requests, at[q] = "org"
  PROVE  Contributors(Eligible \cap Range(rows[q])) \ people[q] \subseteq Lost(q)
<1>1. tasks[q] = NoTasks
  BY DEF OrgInv, RowsInv
<1>2. DueMembers(q) = Range(github.members)
  BY DEF DueMembers
<1>3. ASSUME NEW r \in Eligible \cap Range(rows[q])
      PROVE  DueOf(q, r) = Range(github.contributors[r])
  <2>1. r \in Repos
    BY WorldsAssumption DEF Eligible
  <2> QED
    BY <1>1, <2>1 DEF DueOf, NoTasks
<1>4. Contributors(Eligible \cap Range(rows[q])) \subseteq Due(q)
  BY <1>2, <1>3 DEF Contributors, Due
<1> QED
  BY <1>4 DEF Lost

\* What the invariant comes to when the request has read all there is.
LEMMA OrgResult == TypeOK /\ OrgInv => OrgComplete
<1> SUFFICES ASSUME TypeOK, OrgInv, NEW q \in Requests, at[q] = "org"
             PROVE  OrgWhole(q, rows[q], people[q])
  BY DEF OrgComplete
<1> DEFINE P == Contributors(Eligible \cap Range(rows[q])) \ people[q]
<1>1. P \subseteq Lost(q)
  BY OrgLost
<1>2. IsFiniteSet(Lost(q)) /\ Cardinality(Lost(q)) <= shifts - shiftsAt[q]
  BY DEF OrgInv, LostInv, OrgStages
<1> HIDE DEF P
<1>3. /\ Cardinality(P) <= Cardinality(Lost(q))
      /\ Cardinality(P) \in Nat /\ Cardinality(Lost(q)) \in Nat
  BY <1>1, <1>2, NotMore
<1>4. shifts \in Nat /\ shiftsAt[q] \in Nat /\ Len(rows[q]) \in Nat
  BY BoundsAssumption DEF TypeOK
<1>5. Cardinality(P) <= shifts - shiftsAt[q]
  BY <1>2, <1>3, <1>4
<1>6. ReposAhead(q) = {}
  BY DEF OrgInv, RowsInv, ReposAhead
<1>7. MissedRepos(q) = Range(github.repos) \ Range(rows[q]) /\ Cardinality(RepeatedRepos(q)) = 0
  BY <1>6, FS_EmptySet DEF MissedRepos, RepeatedRepos
<1>8. /\ Cardinality(MissedRepos(q)) <= moves - movesAt[q]
      /\ Len(rows[q]) + Cardinality(RepeatedRepos(q))
           <= Cardinality(Range(rows[q])) + (moves - movesAt[q])
  BY DEF OrgInv, PagesInv, OrgStages
<1>9. Len(rows[q]) <= Cardinality(Range(rows[q])) + (moves - movesAt[q])
  BY <1>4, <1>7, <1>8
<1> QED
  BY <1>5, <1>7, <1>8, <1>9 DEF OrgWhole, P

\* What is read of the organisation leaves out or doubles at most one
\* repository for each that is created or deleted while they are read
\* (components/github_stats.py:267-306), and of the members and contributors
\* at most one for each change of a list of people (lines 153-215), for lists
\* and pages of any length and any changes.
THEOREM OrgCompleteHolds == Spec => []OrgComplete
BY TypeInit, TypeStep, OrgInit, OrgStep, OrgResult, PTL DEF Spec

-----------------------------------------------------------------------------
(* The invariant of what did not change while it was read.                 *)

\* As long as a list of releases has not changed, its first entries are read.
StillList(q) ==
  at[q] \in Feeds /\ added[q] = {} /\ removed[q] = {} =>
    /\ got[q] = Slice(List(q), 0, cursor[q])
    /\ ~more[q] => cursor[q] >= Len(List(q))

\* As long as no list of people and of repositories has changed, nobody is
\* read who is not there, and only of the repositories that are asked for.
StillPeople(q) ==
  /\ at[q] \notin OrgStages => people[q] = {}
  /\ at[q] \in OrgStages => shiftsAt[q] <= shifts
  /\ at[q] \in OrgStages /\ shifts = shiftsAt[q] /\ moves = movesAt[q] =>
       people[q] \subseteq Contributors(Eligible)
  /\ \A r \in Repos : tasks[q][r] # Ended => r \in Eligible

StillInv == \A q \in Requests : StillList(q) /\ StillPeople(q)

LEMMA SliceRange ==
  ASSUME NEW S, NEW s \in Seq(S), NEW k \in Nat, NEW n \in Nat
  PROVE  Range(Slice(s, k, n)) \subseteq Range(s)
<1> DEFINE p == Slice(s, k, n)
<1>1. /\ p \in Seq(S)
      /\ Len(p) = IF k >= Len(s) THEN 0 ELSE IF k + n < Len(s) THEN n ELSE Len(s) - k
      /\ \A i \in 1..Len(p) : p[i] = s[k + i]
  BY SliceFacts
<1> HIDE DEF p
<1>2. ASSUME NEW i \in 1..Len(p) PROVE k + i \in 1..Len(s)
  BY <1>1
<1>3. Range(p) = {p[i] : i \in 1..Len(p)} /\ Range(s) = {s[i] : i \in 1..Len(s)}
  BY <1>1 DEF Range
<1>4. Range(p) \subseteq Range(s)
  BY <1>1, <1>2, <1>3
<1> QED
  BY <1>4 DEF p

LEMMA PageRange ==
  ASSUME NEW S, NEW s \in Seq(S), NEW c \in Nat
  PROVE  Range(PageOf(s, c)) \subseteq Range(s)
<1> DEFINE k == IF c = 0 THEN 0 ELSE (c - 1) * PeoplePage
<1>1. k \in Nat /\ PeoplePage \in Nat
  BY BoundsAssumption
<1> HIDE DEF k
<1>2. Range(Slice(s, k, PeoplePage)) \subseteq Range(s)
  BY <1>1, SliceRange
<1> QED
  BY <1>2 DEF PageOf, k

\* A request that does not move keeps what holds of it.
LEMMA StillFrame ==
  ASSUME NEW q \in Requests, StillList(q), StillPeople(q), github' = github, shifts' = shifts,
         moves' = moves, at'[q] = at[q], cursor'[q] = cursor[q], more'[q] = more[q], got'[q] = got[q],
         added'[q] = added[q], removed'[q] = removed[q], people'[q] = people[q],
         tasks'[q] = tasks[q], shiftsAt'[q] = shiftsAt[q], movesAt'[q] = movesAt[q]
  PROVE  StillList(q)' /\ StillPeople(q)'
<1>1. Contributors(Eligible)' = Contributors(Eligible) /\ Eligible' = Eligible /\ List(q)' = List(q)
  BY DEF Contributors, Eligible, List
<1> QED
  BY <1>1 DEF StillList, StillPeople

\* A list of releases changes: the requests that are reading it know.
LEMMA ReleasesStill ==
  ASSUME TypeOK, ReadInv, StillInv, NEW f \in Feeds, Publish(f) \/ TakeBack(f)
  PROVE  StillInv'
<1> SUFFICES ASSUME NEW q \in Requests PROVE StillList(q)' /\ StillPeople(q)'
  BY DEF StillInv
<1>0. StillList(q) /\ StillPeople(q) /\ Blank(q)
  BY DEF StillInv, ReadInv
<1>1. /\ at' = at /\ cursor' = cursor /\ more' = more /\ got' = got /\ people' = people
      /\ tasks' = tasks /\ shifts' = shifts /\ shiftsAt' = shiftsAt
      /\ moves' = moves /\ movesAt' = movesAt
  BY DEF Publish, TakeBack, progress, counts
<1>2. /\ github'.members = github.members /\ github'.contributors = github.contributors
      /\ github'.repos = github.repos
  BY DEF Publish, TakeBack, TypeOK, WorldType
<1>3. \A g \in Feeds \ {f} : github'.releases[g] = github.releases[g]
  <2>1. github.releases \in [Feeds -> Seq(Tags)]
    BY DEF TypeOK, WorldType
  <2>2. PICK new : github'.releases = [github.releases EXCEPT ![f] = new]
    <3>1. CASE Publish(f)
      <4>1. PICK t : github' = [github EXCEPT !.releases[f] = <<t>> \o @, !.planned[f] = @ \ {t}]
        BY <3>1 DEF Publish
      <4> QED
        BY <4>1 DEF TypeOK, WorldType
    <3>2. CASE TakeBack(f)
      <4>1. PICK i : github' = [github EXCEPT !.releases[f] = RemoveAt(@, i)]
        BY <3>2 DEF TakeBack
      <4> QED
        BY <4>1 DEF TypeOK, WorldType
    <3> QED
      BY <3>1, <3>2
  <2> QED
    BY <2>1, <2>2
<1>4. StillPeople(q)'
  <2>1. Contributors(Eligible)' = Contributors(Eligible) /\ Eligible' = Eligible
    BY <1>2 DEF Contributors, Eligible
  <2> QED
    BY <1>0, <1>1, <1>2, <2>1 DEF StillPeople
<1>5. added[q] \subseteq added'[q] /\ removed[q] \subseteq removed'[q]
  <2>1. CASE Publish(f)
    <3>1. PICK t : added' = [p \in Requests |-> IF Reading(p, f) THEN added[p] \cup {t} ELSE added[p]]
      BY <2>1 DEF Publish
    <3> QED
      BY <2>1, <3>1 DEF Publish
  <2>2. CASE TakeBack(f)
    <3>1. PICK x : removed' = [p \in Requests |-> IF Reading(p, f) THEN removed[p] \cup {x} ELSE removed[p]]
      BY <2>2 DEF TakeBack
    <3> QED
      BY <2>2, <3>1 DEF TakeBack
  <2> QED
    BY <2>1, <2>2
<1>6. CASE Reading(q, f)
  <2>1. added'[q] # {} \/ removed'[q] # {}
    BY <1>6 DEF Publish, TakeBack, TypeOK
  <2> QED
    BY <1>4, <2>1 DEF StillList
<1>7. CASE ~Reading(q, f) /\ at[q] # f
  <2>1. at[q] \in Feeds => List(q)' = List(q)
    BY <1>1, <1>3, <1>7 DEF List
  <2> QED
    BY <1>0, <1>1, <1>4, <1>5, <2>1 DEF StillList
<1>8. CASE at[q] = f /\ ~(cursor[q] > 0)
  <2>1. cursor[q] = 0 /\ got[q] = <<>> /\ more[q]
    BY <1>0, <1>8 DEF Blank, InList, TypeOK
  <2>2. List(q)' \in Seq(Tags)
    <3>1. github' \in WorldType
      BY GitHubSteps DEF TypeOK
    <3> QED
      BY <1>1, <1>8, <3>1 DEF List, WorldType
  <2>3. Slice(List(q)', 0, 0) = <<>>
    BY <2>2, SlicesJoin
  <2> QED
    BY <1>1, <1>4, <2>1, <2>3 DEF StillList
<1> QED
  BY <1>6, <1>7, <1>8 DEF Reading

\* A list of people or of repositories changes: the requests that are reading
\* it know.
LEMMA ShiftStill ==
  ASSUME TypeOK, OrgInv, StillInv, Shifts \/ Moves
  PROVE  StillInv'
<1> SUFFICES ASSUME NEW q \in Requests PROVE StillList(q)' /\ StillPeople(q)'
  BY DEF StillInv
<1>0. StillList(q) /\ StillPeople(q) /\ RowsInv(q)
  BY DEF StillInv, OrgInv
<1>1. /\ at' = at /\ cursor' = cursor /\ more' = more /\ got' = got /\ people' = people
      /\ tasks' = tasks /\ shiftsAt' = shiftsAt /\ movesAt' = movesAt
      /\ added' = added /\ removed' = removed
      /\ \/ shifts' = shifts + 1 /\ moves' = moves
         \/ shifts' = shifts /\ moves' = moves + 1
  <2>1. Shift \/ Move
    BY ShiftFacts, ReposMove
  <2> QED
    BY <2>1 DEF Shift, Move, progress
<1>2. github'.releases = github.releases /\ Eligible' = Eligible
  BY ShiftFacts, ReposMove DEF Eligible
<1>3. shifts \in Nat /\ shiftsAt[q] \in Nat /\ moves \in Nat /\ movesAt[q] \in Nat
  BY BoundsAssumption DEF TypeOK
<1>4. at[q] \in OrgStages => /\ shiftsAt'[q] <= shifts'
                             /\ shifts' # shiftsAt'[q] \/ moves' # movesAt'[q]
  <2>1. at[q] \in OrgStages => shiftsAt[q] <= shifts /\ movesAt[q] <= moves
    BY <1>0 DEF StillPeople, RowsInv
  <2> QED
    BY <1>1, <1>3, <2>1
<1>5. StillPeople(q)'
  BY <1>0, <1>1, <1>2, <1>4 DEF StillPeople
<1>6. List(q)' = List(q)
  BY <1>1, <1>2 DEF List
<1> QED
  BY <1>0, <1>1, <1>5, <1>6 DEF StillList

\* The step of one request leaves what holds of the others.
LEMMA StillOthers ==
  ASSUME StillInv, NEW q \in Requests, StillList(q)', StillPeople(q)', github' = github,
         shifts' = shifts, moves' = moves,
         \A p \in Requests \ {q} :
           /\ at'[p] = at[p] /\ cursor'[p] = cursor[p] /\ more'[p] = more[p] /\ got'[p] = got[p]
           /\ added'[p] = added[p] /\ removed'[p] = removed[p] /\ people'[p] = people[p]
           /\ tasks'[p] = tasks[p] /\ shiftsAt'[p] = shiftsAt[p] /\ movesAt'[p] = movesAt[p]
  PROVE  StillInv'
<1>1. ASSUME NEW p \in Requests \ {q} PROVE StillList(p)' /\ StillPeople(p)'
  BY StillFrame DEF StillInv
<1> QED
  BY <1>1 DEF StillInv

\* A list begins.
LEMMA BeginStill ==
  ASSUME TypeOK, ReadInv, OrgInv, StillInv, NEW q \in Requests, Start(q) \/ Store(q)
  PROVE  StillInv'
<1>1. /\ at[q] \notin OrgStages /\ at'[q] \in Feeds \cup {"members"}
      /\ cursor'[q] = 0 /\ more'[q] = TRUE /\ got'[q] = <<>>
      /\ github' = github /\ shifts' = shifts /\ moves' = moves
      /\ people' = people /\ tasks' = tasks
      /\ at'[q] = "members" => shiftsAt'[q] = shifts
  <2>1. CASE Start(q)
    <3>1. Blank(q) /\ at[q] = "idle"
      BY <2>1 DEF ReadInv, Start
    <3>2. got[q] = <<>>
      BY <3>1 DEF Blank, InList, Feeds
    <3> QED
      BY <2>1, <3>1, <3>2 DEF Start, Turn, TypeOK, Feeds, OrgStages, history, counts
  <2>2. CASE Store(q)
    BY <2>2 DEF Store, Turn, Forget, TypeOK, Feeds, OrgStages, After
  <2> QED
    BY <2>1, <2>2
<1>2. \A p \in Requests \ {q} :
        /\ at'[p] = at[p] /\ cursor'[p] = cursor[p] /\ more'[p] = more[p] /\ got'[p] = got[p]
        /\ added'[p] = added[p] /\ removed'[p] = removed[p] /\ shiftsAt'[p] = shiftsAt[p]
        /\ movesAt'[p] = movesAt[p]
  <2> SUFFICES ASSUME NEW p \in Requests \ {q}
               PROVE /\ at'[p] = at[p] /\ cursor'[p] = cursor[p] /\ more'[p] = more[p]
                     /\ got'[p] = got[p] /\ added'[p] = added[p] /\ removed'[p] = removed[p]
                     /\ shiftsAt'[p] = shiftsAt[p] /\ movesAt'[p] = movesAt[p]
    OBVIOUS
  <2>1. at'[p] = at[p] /\ cursor'[p] = cursor[p] /\ more'[p] = more[p]
    BY DEF Start, Store, Turn, TypeOK
  <2>2. got'[p] = got[p]
    BY DEF Start, Store, TypeOK
  <2>3. /\ added'[p] = added[p] /\ removed'[p] = removed[p]
        /\ shiftsAt'[p] = shiftsAt[p] /\ movesAt'[p] = movesAt[p]
    BY DEF Start, Store, Forget, history, counts, TypeOK
  <2> QED
    BY <2>1, <2>2, <2>3
<1>3. StillPeople(q)'
  <2>1. people[q] = {} /\ \A r \in Repos : tasks[q][r] # Ended => r \in Eligible
    BY <1>1 DEF StillInv, StillPeople
  <2>2. shifts \in Nat
    BY BoundsAssumption DEF TypeOK
  <2> QED
    BY <1>1, <2>1, <2>2 DEF StillPeople, OrgStages, Feeds, Eligible
<1>4. StillList(q)'
  <2>1. CASE at'[q] \in Feeds
    <3>1. List(q)' \in Seq(Tags)
      BY <1>1, <2>1 DEF List, TypeOK, WorldType
    <3>2. Slice(List(q)', 0, 0) = <<>>
      BY <3>1, SlicesJoin
    <3> QED
      BY <1>1, <3>2 DEF StillList
  <2>2. CASE at'[q] \notin Feeds
    BY <2>2 DEF StillList
  <2> QED
    BY <2>1, <2>2
<1> QED
  BY <1>1, <1>2, <1>3, <1>4, StillOthers

LEMMA FetchStill ==
  ASSUME TypeOK, StillInv, NEW q \in Requests, FetchPage(q)
  PROVE  StillInv'
<1> DEFINE R == List(q)
           k == cursor[q]
           page == Slice(R, k, ReleasePage)
<1>1. /\ at[q] \in Feeds /\ got'[q] = got[q] \o page /\ cursor'[q] = k + ReleasePage
      /\ more'[q] = (k + ReleasePage < Len(R))
  BY DEF FetchPage, TypeOK, List
<1>2. /\ at' = at /\ added' = added /\ removed' = removed /\ github' = github /\ shifts' = shifts
      /\ people' = people /\ tasks' = tasks /\ shiftsAt' = shiftsAt
      /\ moves' = moves /\ movesAt' = movesAt
      /\ \A p \in Requests \ {q} : cursor'[p] = cursor[p] /\ more'[p] = more[p] /\ got'[p] = got[p]
  BY DEF FetchPage, counts, TypeOK
<1>3. R \in Seq(Tags) /\ k \in Nat /\ ReleasePage \in Nat /\ Len(R) \in Nat /\ List(q)' = R
  BY <1>1, <1>2, BoundsAssumption DEF TypeOK, WorldType, List
<1> HIDE DEF R, k
<1>4. Slice(R, 0, k) \o page = Slice(R, 0, k + ReleasePage)
  BY <1>3, SlicesJoin
<1> HIDE DEF page
<1>5. StillList(q)'
  <2> SUFFICES ASSUME added[q] = {}, removed[q] = {}
               PROVE  /\ got'[q] = Slice(R, 0, cursor'[q])
                      /\ ~more'[q] => cursor'[q] >= Len(R)
    BY <1>2, <1>3 DEF StillList
  <2>1. got[q] = Slice(R, 0, k)
    BY <1>1 DEF StillInv, StillList, R, k
  <2>2. got'[q] = Slice(R, 0, cursor'[q])
    BY <1>1, <1>4, <2>1
  <2>3. ASSUME ~more'[q] PROVE cursor'[q] >= Len(R)
    <3>1. ~(k + ReleasePage < Len(R))
      BY <1>1, <2>3, Zenon
    <3> QED
      BY <1>1, <1>3, <3>1
  <2> QED
    BY <2>2, <2>3
<1>6. StillPeople(q)'
  BY <1>2 DEF StillInv, StillPeople, Contributors, Eligible
<1> QED
  BY <1>2, <1>5, <1>6, StillOthers

\* The request has read the people of a page P of one of the lists.
LEMMA PeopleStill ==
  ASSUME TypeOK, StillInv, NEW q \in Requests, NEW P,
         at[q] \in OrgStages, at'[q] \in OrgStages, github' = github, shifts' = shifts,
         shiftsAt' = shiftsAt, moves' = moves, movesAt' = movesAt,
         people'[q] = people[q] \cup P, P \subseteq Contributors(Eligible),
         \A r \in Repos : tasks'[q][r] # Ended => r \in Eligible
  PROVE  StillList(q)' /\ StillPeople(q)'
<1>1. Contributors(Eligible)' = Contributors(Eligible) /\ Eligible' = Eligible
  BY DEF Contributors, Eligible
<1>2. StillPeople(q)'
  BY <1>1 DEF StillInv, StillPeople
<1>3. StillList(q)'
  BY DEF StillList, OrgStages, Feeds
<1> QED
  BY <1>2, <1>3

LEMMA MembersStill ==
  ASSUME TypeOK, StillInv, NEW q \in Requests, MembersPage(q)
  PROVE  StillInv'
<1> DEFINE page == PageOf(github.members, cursor[q])
<1>1. /\ at[q] = "members" /\ people'[q] = people[q] \cup Range(page)
      /\ github' = github /\ shifts' = shifts /\ shiftsAt' = shiftsAt /\ tasks' = tasks
      /\ moves' = moves /\ movesAt' = movesAt
      /\ got' = got /\ added' = added /\ removed' = removed
      /\ \A p \in Requests \ {q} : people'[p] = people[p]
  BY DEF MembersPage, history, counts, TypeOK
<1>2. Range(page) \subseteq Range(github.members)
  BY PageRange DEF TypeOK, WorldType
<1> HIDE DEF page
<1>3. /\ at'[q] \in OrgStages
      /\ \A p \in Requests \ {q} : at'[p] = at[p] /\ cursor'[p] = cursor[p] /\ more'[p] = more[p]
  <2>1. CASE page = <<>>
    <3>1. Turn(q, "repos")
      BY <2>1 DEF MembersPage, page
    <3> QED
      BY <3>1 DEF Turn, TypeOK, OrgStages
  <2>2. CASE page # <<>>
    <3>1. cursor' = [cursor EXCEPT ![q] = @ + 1] /\ at' = at /\ more' = more
      BY <2>2, Zenon DEF MembersPage, page
    <3> QED
      BY <1>1, <3>1 DEF TypeOK, OrgStages
  <2> QED
    BY <2>1, <2>2
<1>4. StillList(q)' /\ StillPeople(q)'
  <2>1. Range(page) \subseteq Contributors(Eligible)
    BY <1>2 DEF Contributors
  <2>2. \A r \in Repos : tasks'[q][r] # Ended => r \in Eligible
    BY <1>1 DEF StillInv, StillPeople
  <2>3. at[q] \in OrgStages
    BY <1>1 DEF OrgStages
  <2> QED
    BY <1>1, <1>3, <2>1, <2>2, <2>3, PeopleStill
<1> QED
  BY <1>1, <1>3, <1>4, StillOthers

LEMMA ReposStill ==
  ASSUME TypeOK, StillInv, NEW q \in Requests, ReposPage(q) \/ Gathered(q)
  PROVE  StillInv'
<1>1. /\ at[q] \in OrgStages /\ at'[q] \in OrgStages /\ people' = people
      /\ github' = github /\ shifts' = shifts /\ shiftsAt' = shiftsAt
      /\ moves' = moves /\ movesAt' = movesAt
      /\ got' = got /\ added' = added /\ removed' = removed
  BY DEF ReposPage, Gathered, history, counts, TypeOK, OrgStages
<1>2. \A p \in Requests \ {q} :
        at'[p] = at[p] /\ cursor'[p] = cursor[p] /\ more'[p] = more[p] /\ tasks'[p] = tasks[p]
  BY DEF ReposPage, Gathered, TypeOK
<1>3. \A r \in Repos : tasks'[q][r] # Ended => r \in Eligible
  <2>1. CASE ReposPage(q)
    <3>1. tasks'[q] = [r \in Repos |->
            IF r \in Range(Slice(github.repos, cursor[q], RepoPage)) \cap Eligible THEN 0 ELSE Ended]
      BY <2>1 DEF ReposPage, TypeOK
    <3> QED
      BY <3>1
  <2>2. CASE Gathered(q)
    BY <2>2 DEF Gathered, NoTasks
  <2> QED
    BY <2>1, <2>2
<1>4. StillList(q)' /\ StillPeople(q)'
  <2> DEFINE P == {}
  <2>1. people'[q] = people[q] \cup P /\ P \subseteq Contributors(Eligible)
    BY <1>1
  <2> HIDE DEF P
  <2> QED
    BY <1>1, <1>3, <2>1, PeopleStill
<1> QED
  BY <1>1, <1>2, <1>4, StillOthers

LEMMA ContributorsStill ==
  ASSUME TypeOK, StillInv, NEW q \in Requests, NEW r \in Repos, ContributorsPage(q, r)
  PROVE  StillInv'
<1> DEFINE C == github.contributors[r]
           c == tasks[q][r]
           page == PageOf(C, c)
<1>1. /\ at[q] = "contributors" /\ c # Ended /\ r \in Range(github.repos) /\ people'[q] = people[q] \cup Range(page)
      /\ tasks'[q] = [tasks[q] EXCEPT ![r] = IF page = <<>> THEN Ended ELSE c + 1]
      /\ github' = github /\ shifts' = shifts /\ shiftsAt' = shiftsAt
      /\ moves' = moves /\ movesAt' = movesAt
      /\ at' = at /\ cursor' = cursor /\ more' = more /\ got' = got
      /\ added' = added /\ removed' = removed
      /\ \A p \in Requests \ {q} : people'[p] = people[p] /\ tasks'[p] = tasks[p]
  BY DEF ContributorsPage, history, counts, TypeOK
<1>2. C \in Seq(People) /\ c \in Nat /\ tasks[q] \in [Repos -> Nat \cup {Ended}]
  BY <1>1 DEF TypeOK, WorldType
<1>3. r \in Eligible \cap Range(github.repos)
  BY <1>1 DEF StillInv, StillPeople
<1>4. Range(page) \subseteq Contributors(Eligible)
  <2>1. Range(page) \subseteq Range(C)
    <3> HIDE DEF C, c
    <3> QED
      BY <1>2, PageRange
  <2> HIDE DEF page
  <2> QED
    BY <1>3, <2>1 DEF Contributors
<1> HIDE DEF page
<1>5. \A p \in Repos : tasks'[q][p] # Ended => p \in Eligible
  <2>1. ASSUME NEW p \in Repos, tasks'[q][p] # Ended PROVE p \in Eligible
    <3>1. CASE p = r
      BY <1>3, <3>1
    <3>2. CASE p # r
      <4>1. tasks'[q][p] = tasks[q][p]
        BY <1>1, <1>2, <3>2
      <4> QED
        BY <2>1, <4>1 DEF StillInv, StillPeople
    <3> QED
      BY <3>1, <3>2
  <2> QED
    BY <2>1
<1>6. StillList(q)' /\ StillPeople(q)'
  <2>1. at[q] \in OrgStages /\ at'[q] \in OrgStages
    BY <1>1 DEF OrgStages
  <2> QED
    BY <1>1, <1>4, <1>5, <2>1, PeopleStill
<1> QED
  BY <1>1, <1>6, StillOthers

LEMMA EndStill ==
  ASSUME TypeOK, StillInv, NEW q \in Requests, StoreOrg(q) \/ RepoGone(q) \/ Fail(q)
  PROVE  StillInv'
<1>1. Finish(q) /\ github' = github
  BY DEF StoreOrg, RepoGone, Fail
<1>2. at'[q] = "idle" /\ people'[q] = {} /\ tasks'[q] = NoTasks /\ shifts' = shifts /\ moves' = moves
  BY <1>1 DEF Finish, Turn, Forget, TypeOK
<1>3. \A p \in Requests \ {q} :
        /\ at'[p] = at[p] /\ cursor'[p] = cursor[p] /\ more'[p] = more[p] /\ got'[p] = got[p]
        /\ added'[p] = added[p] /\ removed'[p] = removed[p] /\ people'[p] = people[p]
        /\ tasks'[p] = tasks[p] /\ shiftsAt'[p] = shiftsAt[p] /\ movesAt'[p] = movesAt[p]
  BY <1>1 DEF Finish, Turn, Forget, TypeOK
<1>4. StillList(q)' /\ StillPeople(q)'
  BY <1>2 DEF StillList, StillPeople, OrgStages, NoTasks, Feeds
<1> QED
  BY <1>1, <1>2, <1>3, <1>4, StillOthers

LEMMA StillStep == TypeOK /\ ReadInv /\ OrgInv /\ StillInv /\ [Next]_vars => StillInv'
<1> SUFFICES ASSUME TypeOK, ReadInv, OrgInv, StillInv, [Next]_vars PROVE StillInv'
  OBVIOUS
<1>1. CASE UNCHANGED vars
  <2>1. ASSUME NEW q \in Requests PROVE StillList(q)' /\ StillPeople(q)'
    BY <1>1, StillFrame DEF StillInv, vars, progress, history, counts
  <2> QED
    BY <2>1 DEF StillInv
<1>2. ASSUME NEW q \in Requests, Start(q) \/ Step(q) \/ Fail(q) PROVE StillInv'
  BY <1>2, BeginStill, FetchStill, MembersStill, ReposStill, ContributorsStill, EndStill DEF Step
<1> QED
  BY <1>1, <1>2, ReleasesStill, ShiftStill DEF Next, Shifts, Moves

LEMMA StillInit == Init => StillInv
BY DEF Init, StillInv, StillList, StillPeople, OrgStages, NoTasks, Feeds

\* What the invariants come to when the request has read all there is.
LEMMA StillResult == TypeOK /\ OrgInv /\ StillInv => CurrentIfStill
<1> SUFFICES ASSUME TypeOK, OrgInv, StillInv, NEW q \in Requests
             PROVE  /\ ReadAll(q) /\ added[q] = {} /\ removed[q] = {} => got[q] = github.releases[at[q]]
                    /\ at[q] = "org" /\ shifts = shiftsAt[q] /\ moves = movesAt[q] =>
                         people[q] = Contributors(Eligible) /\ rows[q] = github.repos
  BY DEF CurrentIfStill
<1>1. ASSUME ReadAll(q), added[q] = {}, removed[q] = {} PROVE got[q] = github.releases[at[q]]
  <2>1. at[q] \in Feeds /\ got[q] = Slice(List(q), 0, cursor[q]) /\ cursor[q] >= Len(List(q))
    BY <1>1 DEF ReadAll, StillInv, StillList
  <2>2. List(q) \in Seq(Tags) /\ cursor[q] \in Nat
    BY <2>1 DEF List, TypeOK, WorldType
  <2>3. 0 \in Nat /\ cursor[q] + 0 = cursor[q] /\ 0 + cursor[q] = cursor[q]
    BY <2>2
  <2>4. Slice(List(q), 0, cursor[q]) = List(q)
    BY <2>1, <2>2, <2>3, SlicesJoin
  <2> QED
    BY <2>1, <2>4 DEF List
<1>2. ASSUME at[q] = "org", shifts = shiftsAt[q], moves = movesAt[q]
      PROVE  people[q] = Contributors(Eligible) /\ rows[q] = github.repos
  <2>1. people[q] \subseteq Contributors(Eligible)
    BY <1>2 DEF StillInv, StillPeople, OrgStages
  <2>2. rows[q] = github.repos
    BY <1>2 DEF OrgInv, RowsInv
  <2>3. Contributors(Eligible \cap Range(rows[q])) = Contributors(Eligible)
    BY <2>2 DEF Contributors
  <2>4. Contributors(Eligible) \ people[q] \subseteq Lost(q)
    BY <1>2, <2>3, OrgLost
  <2>5. IsFiniteSet(Lost(q)) /\ Cardinality(Lost(q)) <= shifts - shiftsAt[q]
    BY <1>2 DEF OrgInv, LostInv, OrgStages
  <2>6. shifts - shiftsAt[q] = 0 /\ Cardinality(Lost(q)) \in Nat
    BY <1>2, <2>5, FS_CardinalityType, BoundsAssumption DEF TypeOK
  <2>7. Cardinality(Lost(q)) = 0
    BY <2>5, <2>6
  <2>8. Lost(q) = {}
    BY <2>5, <2>7, FS_EmptySet
  <2> QED
    BY <2>1, <2>2, <2>4, <2>8
<1> QED
  BY <1>1, <1>2

\* What was read of lists that have not changed is what GitHub has, entry by
\* entry (components/github_stats.py:73-101, 136-226, 267-306): a refresh
\* that nothing comes between makes the cache current, whatever failed or
\* overlapped before.
THEOREM CurrentIfStillHolds == Spec => []CurrentIfStill
BY TypeInit, TypeStep, ReadInit, ReadStep, OrgInit, OrgStep, StillInit, StillStep, StillResult, PTL DEF Spec

-----------------------------------------------------------------------------
(* What is put in the cache.                                               *)

\* What a request has read of a list, and will read, has been there since it
\* began.
Own(q) == InList(q) => Range(List(q)) \cup Range(got[q]) \subseteq began[q] \cup added[q]
OwnInv == \A q \in Requests : Own(q)

LEMMA OwnFrame ==
  ASSUME NEW q \in Requests, Own(q), github'.releases = github.releases,
         at'[q] = at[q], cursor'[q] = cursor[q], got'[q] = got[q],
         began'[q] = began[q], added'[q] = added[q]
  PROVE  Own(q)'
BY DEF Own, InList, List

\* A step of the request that leaves the list, and leaves the other requests.
LEMMA OwnLeave ==
  ASSUME OwnInv, NEW q \in Requests, github' = github, Own(q)',
         \A p \in Requests \ {q} :
           /\ at'[p] = at[p] /\ cursor'[p] = cursor[p] /\ got'[p] = got[p]
           /\ began'[p] = began[p] /\ added'[p] = added[p]
  PROVE  OwnInv'
<1>1. ASSUME NEW p \in Requests \ {q} PROVE Own(p)'
  BY OwnFrame DEF OwnInv
<1> QED
  BY <1>1 DEF OwnInv

LEMMA PublishOwn ==
  ASSUME TypeOK, OwnInv, NEW f \in Feeds, Publish(f), NEW q \in Requests
  PROVE  Own(q)'
<1> DEFINE M == github.releases[f]
<1>1. PICK t \in github.planned[f] :
        /\ github' = [github EXCEPT !.releases[f] = <<t>> \o @, !.planned[f] = @ \ {t}]
        /\ added' = [p \in Requests |-> IF Reading(p, f) THEN added[p] \cup {t} ELSE added[p]]
  BY DEF Publish
<1>2. at' = at /\ cursor' = cursor /\ got' = got /\ began' = began
  BY DEF Publish, progress
<1>3. t \in Tags /\ M \in Seq(Tags)
  BY DEF TypeOK, WorldType
<1>4. /\ github'.releases = [github.releases EXCEPT ![f] = <<t>> \o M]
      /\ github.releases \in [Feeds -> Seq(Tags)]
  BY <1>1 DEF TypeOK, WorldType
<1>5. Range(<<t>> \o M) = {t} \cup Range(M)
  <2> DEFINE first == <<t>>
  <2>1. first \in Seq(Tags) /\ Range(first) = {t}
    BY <1>3 DEF Range
  <2> HIDE DEF first, M
  <2>2. Range(first \o M) = Range(first) \cup Range(M)
    BY <1>3, <2>1, RangeConcat
  <2> QED
    BY <2>1, <2>2 DEF first
<1> SUFFICES ASSUME InList(q)
             PROVE  Range(List(q)') \cup Range(got[q]) \subseteq began[q] \cup added'[q]
  BY <1>2 DEF Own, InList
<1>6. Range(List(q)) \cup Range(got[q]) \subseteq began[q] \cup added[q]
  BY DEF OwnInv, Own
<1>7. CASE at[q] = f
  <2>1. added'[q] = added[q] \cup {t}
    BY <1>1, <1>7 DEF Reading, InList
  <2>2. List(q)' = <<t>> \o M
    BY <1>2, <1>4, <1>7 DEF List
  <2>3. List(q) = M
    BY <1>7 DEF List
  <2> HIDE DEF M
  <2>4. Range(List(q)') = {t} \cup Range(List(q))
    BY <1>5, <2>2, <2>3
  <2> QED
    BY <1>6, <2>1, <2>4
<1>8. CASE at[q] # f
  <2>1. added'[q] = added[q] /\ List(q)' = List(q)
    BY <1>1, <1>2, <1>4, <1>8 DEF Reading, List, InList
  <2> QED
    BY <1>6, <2>1
<1> QED
  BY <1>7, <1>8

LEMMA TakeBackOwn ==
  ASSUME TypeOK, OwnInv, NEW f \in Feeds, TakeBack(f), NEW q \in Requests
  PROVE  Own(q)'
<1> DEFINE M == github.releases[f]
<1>1. PICK i \in 1..Len(M) : github' = [github EXCEPT !.releases[f] = RemoveAt(@, i)]
  BY DEF TakeBack
<1>2. at' = at /\ cursor' = cursor /\ got' = got /\ began' = began /\ added' = added
  BY DEF TakeBack, progress
<1>3. M \in Seq(Tags) /\ 0 \in Nat
  BY DEF TypeOK, WorldType
<1>4. /\ github'.releases = [github.releases EXCEPT ![f] = RemoveAt(M, i)]
      /\ github.releases \in [Feeds -> Seq(Tags)]
  BY <1>1 DEF TypeOK, WorldType
<1> HIDE DEF M
<1>5. Range(RemoveAt(M, i)) \subseteq Range(M)
  BY <1>3, RemoveMoves
<1> SUFFICES ASSUME InList(q)
             PROVE  Range(List(q)') \cup Range(got[q]) \subseteq began[q] \cup added[q]
  BY <1>2 DEF Own, InList
<1>6. Range(List(q)) \cup Range(got[q]) \subseteq began[q] \cup added[q]
  BY DEF OwnInv, Own
<1>7. Range(List(q)') \subseteq Range(List(q))
  <2>1. CASE at[q] = f
    BY <1>2, <1>4, <1>5, <2>1 DEF List, M
  <2>2. CASE at[q] # f
    BY <1>2, <1>4, <2>2 DEF List, InList
  <2> QED
    BY <2>1, <2>2
<1> QED
  BY <1>6, <1>7

LEMMA FetchOwn ==
  ASSUME TypeOK, ReadInv, OwnInv, NEW q \in Requests, FetchPage(q)
  PROVE  OwnInv'
<1> DEFINE R == List(q)
           page == Slice(R, cursor[q], ReleasePage)
<1>1. /\ at[q] \in Feeds /\ got'[q] = got[q] \o page
      /\ began' = IF cursor[q] = 0 THEN [began EXCEPT ![q] = Range(R)] ELSE began
      /\ at' = at /\ added' = added /\ github' = github
      /\ \A p \in Requests \ {q} : cursor'[p] = cursor[p] /\ got'[p] = got[p]
  BY DEF FetchPage, TypeOK, List
<1>2. /\ R \in Seq(Tags) /\ cursor[q] \in Nat /\ ReleasePage \in Nat /\ got[q] \in Seq(Tags)
      /\ List(q)' = R
  BY <1>1, BoundsAssumption DEF TypeOK, WorldType, List
<1>3. began'[q] = (IF cursor[q] = 0 THEN Range(R) ELSE began[q])
      /\ \A p \in Requests \ {q} : began'[p] = began[p]
  <2>1. began \in [Requests -> SUBSET Tags]
    BY DEF TypeOK
  <2> QED
    BY <1>1, <2>1
<1> HIDE DEF R
<1>4. page \in Seq(Tags) /\ Range(page) \subseteq Range(R)
  BY <1>2, SliceFacts, SliceRange
<1> HIDE DEF page
<1>5. Range(got'[q]) = Range(got[q]) \cup Range(page)
  BY <1>1, <1>2, <1>4, RangeConcat
<1>6. Range(R) \cup Range(got[q]) \subseteq began'[q] \cup added[q]
  <2>1. CASE cursor[q] = 0
    <3>1. ~InList(q) /\ Blank(q)
      BY <2>1 DEF InList, ReadInv
    <3>2. got[q] = <<>>
      BY <3>1 DEF Blank
    <3>3. Range(got[q]) = {}
      BY <3>2 DEF Range
    <3> QED
      BY <1>3, <2>1, <3>3
  <2>2. CASE cursor[q] # 0
    <3>1. InList(q)
      BY <1>1, <1>2, <2>2 DEF InList
    <3> QED
      BY <1>3, <2>2, <3>1 DEF OwnInv, Own, R
  <2> QED
    BY <2>1, <2>2
<1>7. Own(q)'
  BY <1>1, <1>2, <1>4, <1>5, <1>6 DEF Own
<1> QED
  BY <1>1, <1>3, <1>7, OwnLeave

\* The other steps of a request end a list, or are not in one.
LEMMA OtherOwn ==
  ASSUME TypeOK, OwnInv, NEW q \in Requests,
         \/ Start(q) \/ Store(q) \/ StoreOrg(q) \/ RepoGone(q) \/ Fail(q)
         \/ MembersPage(q) \/ ReposPage(q) \/ Gathered(q)
         \/ \E r \in Repos : ContributorsPage(q, r)
  PROVE  OwnInv'
<1>1. CASE Start(q) \/ Store(q)
  <2>1. cursor'[q] = 0 /\ github' = github
    BY <1>1 DEF Start, Store, Turn, TypeOK
  <2>2. \A p \in Requests \ {q} :
          /\ at'[p] = at[p] /\ cursor'[p] = cursor[p] /\ got'[p] = got[p]
          /\ began'[p] = began[p] /\ added'[p] = added[p]
    BY <1>1 DEF Start, Store, Turn, Forget, history, TypeOK
  <2>3. Own(q)'
    BY <2>1 DEF Own, InList
  <2> QED
    BY <2>1, <2>2, <2>3, OwnLeave
<1>2. CASE StoreOrg(q) \/ RepoGone(q) \/ Fail(q)
  <2>1. Finish(q) /\ github' = github
    BY <1>2 DEF StoreOrg, RepoGone, Fail
  <2>2. cursor'[q] = 0
    BY <2>1 DEF Finish, Turn, TypeOK
  <2>3. \A p \in Requests \ {q} :
          /\ at'[p] = at[p] /\ cursor'[p] = cursor[p] /\ got'[p] = got[p]
          /\ began'[p] = began[p] /\ added'[p] = added[p]
    BY <2>1 DEF Finish, Turn, Forget, TypeOK
  <2>4. Own(q)'
    BY <2>2 DEF Own, InList
  <2> QED
    BY <2>1, <2>3, <2>4, OwnLeave
<1>3. CASE \/ MembersPage(q) \/ ReposPage(q) \/ Gathered(q)
           \/ \E r \in Repos : ContributorsPage(q, r)
  <2>1. /\ at'[q] \notin Feeds /\ got' = got
        /\ added' = added /\ began' = began /\ github' = github
    BY <1>3 DEF MembersPage, ReposPage, Gathered, ContributorsPage, Turn, history, Feeds, TypeOK
  <2>2. \A p \in Requests \ {q} : at'[p] = at[p] /\ cursor'[p] = cursor[p]
    BY <1>3 DEF MembersPage, ReposPage, Gathered, ContributorsPage, Turn, TypeOK
  <2>3. Own(q)'
    BY <2>1 DEF Own, InList
  <2> QED
    BY <2>1, <2>2, <2>3, OwnLeave
<1> QED
  BY <1>1, <1>2, <1>3

LEMMA OwnStep == TypeOK /\ ReadInv /\ OwnInv /\ [Next]_vars => OwnInv'
<1> SUFFICES ASSUME TypeOK, ReadInv, OwnInv, [Next]_vars PROVE OwnInv'
  OBVIOUS
<1>1. CASE UNCHANGED vars \/ Shifts \/ Moves
  <2>1. at' = at /\ cursor' = cursor /\ got' = got /\ began' = began /\ added' = added
    <3>1. UNCHANGED vars \/ Shift \/ Move
      BY <1>1, ShiftFacts, ReposMove
    <3> QED
      BY <3>1 DEF vars, progress, history, Shift, Move
  <2>2. github'.releases = github.releases
    BY <1>1, ShiftFacts, ReposMove DEF vars
  <2> QED
    BY <2>1, <2>2, OwnFrame DEF OwnInv
<1>2. ASSUME NEW f \in Feeds, Publish(f) \/ TakeBack(f) PROVE OwnInv'
  BY <1>2, PublishOwn, TakeBackOwn DEF OwnInv
<1>3. ASSUME NEW q \in Requests, Start(q) \/ Step(q) \/ Fail(q) PROVE OwnInv'
  BY <1>3, FetchOwn, OtherOwn DEF Step
<1> QED
  BY <1>1, <1>2, <1>3 DEF Next, Shifts, Moves

LEMMA OwnInit == Init => OwnInv
BY DEF Init, OwnInv, Own, InList, Feeds

\* Only the end of a list changes an entry.
LEMMA EntriesChange ==
  ASSUME TypeOK, [Next]_vars
  PROVE  /\ releaseStats' # releaseStats => \E q \in Requests : Store(q)
         /\ orgStats' # orgStats => \E q \in Requests : StoreOrg(q)
<1>1. CASE UNCHANGED vars \/ Shifts \/ Moves
  <2>1. UNCHANGED vars \/ Shift \/ Move
    BY <1>1, ShiftFacts, ReposMove
  <2> QED
    BY <2>1 DEF vars, Shift, Move
<1>2. CASE \E f \in Feeds : Publish(f) \/ TakeBack(f)
  BY <1>2 DEF Publish, TakeBack
<1>3. ASSUME NEW q \in Requests, Start(q) \/ Step(q) \/ Fail(q)
      PROVE  /\ releaseStats' = releaseStats \/ Store(q)
             /\ orgStats' = orgStats \/ StoreOrg(q)
  BY <1>3 DEF Step, Start, FetchPage, Store, MembersPage, ReposPage, ContributorsPage,
     RepoGone, Gathered, StoreOrg, Fail
<1> QED
  BY <1>1, <1>2, <1>3 DEF Next, Shifts, Moves

LEMMA StorePuts ==
  ASSUME TypeOK, ReadInv, OwnInv, NEW q \in Requests, Store(q), NEW f \in Feeds,
         releaseStats'[f] # releaseStats[f]
  PROVE  /\ at[q] = f /\ at'[q] # f /\ releaseStats'[f] # None
         /\ Range(releaseStats'[f]) \subseteq began[q] \cup added[q]
         /\ LeavesOutFew(q, releaseStats'[f]) /\ HasTwiceFew(q, releaseStats'[f])
<1>1. at[q] \in Feeds /\ ~more[q] /\ releaseStats' = [releaseStats EXCEPT ![at[q]] = got[q]]
  BY DEF Store
<1>2. at[q] = f /\ releaseStats'[f] = got[q]
  <2>1. releaseStats \in [Feeds -> Seq(Tags) \cup {None}]
    BY DEF TypeOK
  <2> QED
    BY <1>1, <2>1
<1>3. got[q] # None
  BY WorldsAssumption DEF TypeOK
<1>4. at'[q] # f
  BY <1>2 DEF Store, Turn, After, Feeds, TypeOK
<1>5. Blank(q)
  BY DEF ReadInv
<1>6. InList(q)
  BY <1>1, <1>5 DEF Blank
<1>7. Range(got[q]) \subseteq began[q] \cup added[q]
  BY <1>6 DEF OwnInv, Own
<1>8. LeavesOutFew(q, got[q]) /\ HasTwiceFew(q, got[q])
  BY <1>1, ReadResult DEF MissesFew, RepeatsFew, ReadAll
<1> QED
  BY <1>2, <1>3, <1>4, <1>7, <1>8

LEMMA StoreOrgPuts ==
  ASSUME TypeOK, OrgInv, NEW q \in Requests, StoreOrg(q)
  PROVE  /\ orgStats' # None /\ at[q] = "org" /\ at'[q] # "org"
         /\ OrgWhole(q, orgStats'.repos, orgStats'.people)
<1>1. at[q] = "org" /\ orgStats' = [people |-> people[q], repos |-> rows[q]]
  BY DEF StoreOrg
<1>2. orgStats' # None
  BY <1>1, WorldsAssumption DEF TypeOK
<1>3. at'[q] = "idle"
  BY DEF StoreOrg, Finish, Turn, TypeOK
<1>4. OrgWhole(q, rows[q], people[q])
  BY <1>1, OrgResult DEF OrgComplete
<1> QED
  BY <1>1, <1>2, <1>3, <1>4

\* The requests put nothing but whole lists in the cache (app/admin.py:106-122,
\* components/github_stats.py:73-112, 247-306): an entry changes only when a
\* request has read all its list, to what that request has read of it, and
\* this has nothing that was not there and leaves out or doubles no more than
\* the changes at GitHub account for; for any number of requests, lists and
\* pages of any length, and any changes and failures.
THEOREM PutsWholeHolds == Spec => PutsWhole
<1>1. TypeOK /\ ReadInv /\ OrgInv /\ OwnInv /\ [Next]_vars =>
        [/\ \A f \in Feeds : releaseStats'[f] # releaseStats[f] =>
              \E q \in Requests :
                /\ at[q] = f /\ at'[q] # f /\ releaseStats'[f] # None
                /\ Range(releaseStats'[f]) \subseteq began[q] \cup added[q]
                /\ LeavesOutFew(q, releaseStats'[f]) /\ HasTwiceFew(q, releaseStats'[f])
         /\ orgStats' # orgStats =>
              /\ orgStats' # None
              /\ \E q \in Requests :
                   at[q] = "org" /\ at'[q] # "org" /\ OrgWhole(q, orgStats'.repos, orgStats'.people)]_vars
  <2> SUFFICES ASSUME TypeOK, ReadInv, OrgInv, OwnInv, [Next]_vars
               PROVE  /\ \A f \in Feeds : releaseStats'[f] # releaseStats[f] =>
                           \E q \in Requests :
                             /\ at[q] = f /\ at'[q] # f /\ releaseStats'[f] # None
                             /\ Range(releaseStats'[f]) \subseteq began[q] \cup added[q]
                             /\ LeavesOutFew(q, releaseStats'[f]) /\ HasTwiceFew(q, releaseStats'[f])
                      /\ orgStats' # orgStats =>
                           /\ orgStats' # None
                           /\ \E q \in Requests :
                                /\ at[q] = "org" /\ at'[q] # "org"
                                /\ OrgWhole(q, orgStats'.repos, orgStats'.people)
    OBVIOUS
  <2>1. ASSUME NEW f \in Feeds, releaseStats'[f] # releaseStats[f]
        PROVE  \E q \in Requests :
                 /\ at[q] = f /\ at'[q] # f /\ releaseStats'[f] # None
                 /\ Range(releaseStats'[f]) \subseteq began[q] \cup added[q]
                 /\ LeavesOutFew(q, releaseStats'[f]) /\ HasTwiceFew(q, releaseStats'[f])
    <3>1. PICK q \in Requests : Store(q)
      BY <2>1, EntriesChange
    <3> QED
      BY <2>1, <3>1, StorePuts
  <2>2. ASSUME orgStats' # orgStats
        PROVE  /\ orgStats' # None
               /\ \E q \in Requests :
                    /\ at[q] = "org" /\ at'[q] # "org"
                    /\ OrgWhole(q, orgStats'.repos, orgStats'.people)
    <3>1. PICK q \in Requests : StoreOrg(q)
      BY <2>2, EntriesChange
    <3> QED
      BY <3>1, StoreOrgPuts
  <2> QED
    BY <2>1, <2>2
<1> QED
  BY <1>1, TypeInit, TypeStep, ReadInit, ReadStep, OrgInit, OrgStep, OwnInit, OwnStep, PTL
  DEF Spec, PutsWhole
=============================================================================
