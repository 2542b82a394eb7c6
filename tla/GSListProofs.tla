---------------------------- MODULE GSListProofs ----------------------------
(***************************************************************************)
(* What the list operations preserve: the elements Keep leaves, and that   *)
(* neither Keep nor appending new elements links an element twice.         *)
(***************************************************************************)
EXTENDS GSList, FiniteSetTheorems, TLAPS

\* The links are finitely many numbers.
LEMMA LinksFinite ==
  ASSUME NEW T, NEW list \in Seq(T), NEW S
  PROVE  /\ IsFiniteSet(Links(list, S))
         /\ Cardinality(Links(list, S)) \in Nat
         /\ Links(list, S) \subseteq 1..Len(list)
<1>1. Links(list, S) \subseteq 1..Len(list)
  BY DEF Links
<1>2. IsFiniteSet(1..Len(list))
  BY FS_Interval
<1> QED
  BY <1>1, <1>2, FS_Subset, FS_CardinalityType

\* Ranks are numbers from 1 to the number of links, and different links have
\* different ranks.
LEMMA RankInjective ==
  ASSUME NEW T, NEW list \in Seq(T), NEW S
  PROVE  [i \in Links(list, S) |-> LinkRank(list, S, i)]
           \in Injection(Links(list, S), 1..Cardinality(Links(list, S)))
<1> DEFINE L == Links(list, S)
           B(i) == {j \in L : j <= i}
<1>1. IsFiniteSet(L) /\ Cardinality(L) \in Nat /\ L \subseteq 1..Len(list)
  BY LinksFinite
<1>2. \A i \in L : IsFiniteSet(B(i)) /\ Cardinality(B(i)) \in Nat
  BY <1>1, FS_Subset, FS_CardinalityType
<1>3. \A i \in L : B(i) \subseteq L /\ i \in B(i)
  BY <1>1
<1>4. \A i, k \in L : i < k => B(i) \subseteq B(k) /\ k \notin B(i)
  BY <1>1
<1>5. \A i \in L : LinkRank(list, S, i) = Cardinality(B(i))
  BY DEF LinkRank
<1> HIDE DEF B, L
<1>6. \A i \in L : Cardinality(B(i)) \in 1..Cardinality(L)
  <2> TAKE i \in L
  <2>1. Cardinality(B(i)) <= Cardinality(L)
    BY <1>1, <1>3, FS_Subset
  <2>2. B(i) # {}
    BY <1>3
  <2>3. Cardinality(B(i)) # 0
    BY <2>2, <1>2, FS_EmptySet
  <2> QED
    BY <2>1, <2>3, <1>1, <1>2
<1>7. \A i, k \in L : i < k => Cardinality(B(i)) < Cardinality(B(k))
  <2> SUFFICES ASSUME NEW i \in L, NEW k \in L, i < k
               PROVE  Cardinality(B(i)) < Cardinality(B(k))
    OBVIOUS
  <2>1. B(i) \subseteq B(k) /\ k \in B(k) /\ k \notin B(i)
    BY <1>3, <1>4
  <2>2. Cardinality(B(i)) <= Cardinality(B(k))
    BY <2>1, <1>2, FS_Subset
  <2>3. Cardinality(B(i)) # Cardinality(B(k))
    BY <2>1, <1>2, FS_Subset
  <2> QED
    BY <2>2, <2>3, <1>2
<1>8. \A i, k \in L : Cardinality(B(i)) = Cardinality(B(k)) => i = k
  <2> SUFFICES ASSUME NEW i \in L, NEW k \in L,
                      Cardinality(B(i)) = Cardinality(B(k)), i # k
               PROVE  FALSE
    OBVIOUS
  <2>1. i < k \/ k < i
    BY <1>1
  <2> QED
    BY <2>1, <1>7, <1>2
<1>9. [i \in L |-> LinkRank(list, S, i)] \in Injection(L, 1..Cardinality(L))
  BY <1>6, <1>8, <1>5 DEF Injection, IsInjective
<1> QED
  BY <1>9 DEF L

\* Every rank is the rank of a link.
LEMMA RankOnto ==
  ASSUME NEW T, NEW list \in Seq(T), NEW S,
         NEW k \in 1..Cardinality(Links(list, S))
  PROVE  \E i \in Links(list, S) : LinkRank(list, S, i) = k
<1> DEFINE L == Links(list, S)
           rank == [i \in L |-> LinkRank(list, S, i)]
           n == Cardinality(L)
<1>1. IsFiniteSet(L) /\ n \in Nat
  BY LinksFinite
<1>2. IsFiniteSet(1..n) /\ Cardinality(1..n) = n
  BY <1>1, FS_Interval
<1>3. rank \in Injection(L, 1..n)
  BY RankInjective
<1>4. rank \in Surjection(L, 1..n)
  <2> HIDE DEF L, n, rank
  <2> QED BY <1>1, <1>2, <1>3, FS_Injection DEF n
<1> QED
  BY <1>4 DEF Surjection

\* Keep is a list, of the kept elements and no other, none of them twice.
LEMMA KeepLemma ==
  ASSUME NEW T, NEW list \in Seq(T), NEW S
  PROVE  /\ Keep(list, S) \in Seq(T)
         /\ Range(Keep(list, S)) = Range(list) \cap S
         /\ NoDuplicates(list) => NoDuplicates(Keep(list, S))
<1> DEFINE L == Links(list, S)
           n == Cardinality(L)
           at(k) == CHOOSE i \in L : LinkRank(list, S, i) = k
<1>1. n \in Nat /\ L \subseteq 1..Len(list)
  BY LinksFinite
<1>2. \A k \in 1..n : at(k) \in L /\ LinkRank(list, S, at(k)) = k
  BY RankOnto
<1>3. Keep(list, S) = [k \in 1..n |-> list[at(k)]]
  BY DEF Keep
<1>4. \A i \in L : LinkRank(list, S, i) \in 1..n /\ at(LinkRank(list, S, i)) = i
  <2> TAKE i \in L
  <2>1. LinkRank(list, S, i) \in 1..n
    BY RankInjective DEF Injection, IsInjective
  <2>2. at(LinkRank(list, S, i)) \in L
        /\ LinkRank(list, S, at(LinkRank(list, S, i))) = LinkRank(list, S, i)
    BY <2>1, <1>2
  <2>3. \A j, k \in L : LinkRank(list, S, j) = LinkRank(list, S, k) => j = k
    BY RankInjective DEF Injection, IsInjective
  <2> QED
    BY <2>1, <2>2, <2>3
<1> HIDE DEF n, at
<1>5. \A k \in 1..n : list[at(k)] \in T /\ list[at(k)] \in S /\ list[at(k)] \in Range(list)
  BY <1>1, <1>2 DEF Links, Range
<1>6. Keep(list, S) \in Seq(T)
  BY <1>1, <1>3, <1>5
<1>7. Range(Keep(list, S)) \subseteq Range(list) \cap S
  BY <1>3, <1>5 DEF Range
<1>8. Range(list) \cap S \subseteq Range(Keep(list, S))
  <2> SUFFICES ASSUME NEW i \in DOMAIN list, list[i] \in S
               PROVE  list[i] \in Range(Keep(list, S))
    BY DEF Range
  <2>1. i \in L
    BY DEF Links
  <2> QED
    BY <2>1, <1>3, <1>4 DEF Range
<1>9. NoDuplicates(list) => NoDuplicates(Keep(list, S))
  <2> SUFFICES ASSUME NoDuplicates(list), NEW j \in 1..n, NEW k \in 1..n,
                      list[at(j)] = list[at(k)]
               PROVE  j = k
    BY <1>3 DEF NoDuplicates
  <2>1. at(j) = at(k)
    BY <1>1, <1>2 DEF NoDuplicates
  <2> QED
    BY <2>1, <1>2
<1> QED
  BY <1>6, <1>7, <1>8, <1>9

\* The same for elements of the list.
LEMMA KeepPart ==
  ASSUME NEW T, NEW list \in Seq(T), NoDuplicates(list), NEW S \in SUBSET Range(list)
  PROVE  /\ Keep(list, S) \in Seq(T)
         /\ Range(Keep(list, S)) = S
         /\ NoDuplicates(Keep(list, S))
<1>1. Range(list) \cap S = S
  OBVIOUS
<1>2. /\ Keep(list, S) \in Seq(T)
      /\ Range(Keep(list, S)) = Range(list) \cap S
      /\ NoDuplicates(Keep(list, S))
  BY KeepLemma
<1> QED
  BY <1>1, <1>2

\* Appending elements that are not in the list.
LEMMA AppendLemma ==
  ASSUME NEW T, NEW list \in Seq(T), NEW tail \in Seq(T)
  PROVE  /\ list \o tail \in Seq(T)
         /\ Range(list \o tail) = Range(list) \cup Range(tail)
         /\ (/\ NoDuplicates(list) /\ NoDuplicates(tail)
             /\ Range(list) \cap Range(tail) = {}) => NoDuplicates(list \o tail)
<1> DEFINE m == Len(list)
           n == Len(tail)
           c == list \o tail
<1>1. /\ m \in Nat /\ n \in Nat /\ c \in Seq(T) /\ Len(c) = m + n
      /\ \A i \in 1..(m + n) : c[i] = IF i <= m THEN list[i] ELSE tail[i - m]
  OBVIOUS
<1>2. Range(c) \subseteq Range(list) \cup Range(tail)
  BY <1>1 DEF Range
<1>3. Range(list) \subseteq Range(c)
  BY <1>1 DEF Range
<1>4. Range(tail) \subseteq Range(c)
  <2> SUFFICES ASSUME NEW i \in 1..n PROVE tail[i] \in Range(c)
    BY DEF Range
  <2>1. m + i \in 1..(m + n) /\ c[m + i] = tail[i]
    BY <1>1
  <2> QED
    BY <2>1, <1>1 DEF Range
<1>5. ASSUME NoDuplicates(list), NoDuplicates(tail),
             Range(list) \cap Range(tail) = {}
      PROVE  NoDuplicates(c)
  <2> SUFFICES ASSUME NEW i \in 1..(m + n), NEW j \in 1..(m + n), c[i] = c[j]
               PROVE  i = j
    BY <1>1 DEF NoDuplicates
  <2>1. CASE i <= m /\ j <= m
    BY <2>1, <1>1, <1>5 DEF NoDuplicates
  <2>2. CASE i > m /\ j > m
    BY <2>2, <1>1, <1>5 DEF NoDuplicates
  <2>5. \A k \in 1..m : list[k] \in Range(list)
    BY DEF Range
  <2>6. \A k \in 1..n : tail[k] \in Range(tail)
    BY DEF Range
  <2>3. CASE i <= m /\ j > m
    <3>1. c[i] = list[i] /\ c[j] = tail[j - m] /\ j - m \in 1..n /\ i \in 1..m
      BY <2>3, <1>1
    <3> QED
      BY <3>1, <2>5, <2>6, <1>5
  <2>4. CASE i > m /\ j <= m
    <3>1. c[j] = list[j] /\ c[i] = tail[i - m] /\ i - m \in 1..n /\ j \in 1..m
      BY <2>4, <1>1
    <3> QED
      BY <3>1, <2>5, <2>6, <1>5
  <2> QED
    BY <2>1, <2>2, <2>3, <2>4, <1>1
<1> QED
  BY <1>1, <1>2, <1>3, <1>4, <1>5
=============================================================================
