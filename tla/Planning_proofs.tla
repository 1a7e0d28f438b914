---------------------------- MODULE Planning_proofs ----------------------------
(***************************************************************************)
(* Plans of any configuration, number of candidates and budget.             *)
(***************************************************************************)
EXTENDS Planning, FiniteSetTheorems, SequenceTheorems, WellFoundedInduction, TLAPS

-----------------------------------------------------------------------------
(* The sort: a permutation, and the identity on what is in order. *)

List(c) == DOMAIN c = 1..Len(c) /\ Len(c) \in Nat

Ranked(c) == List(c) /\ \A i \in 1..Len(c) : c[i].order \in Int

Precedes(c, i, j) ==
  \/ c[i].order < c[j].order
  \/ c[i].order = c[j].order /\ i < j

Before(c, i) == {j \in 1..Len(c) : Precedes(c, j, i)}
Rank(c, i) == 1 + Cardinality(Before(c, i))

LEMMA SortedIs ==
  ASSUME NEW c, List(c)
  PROVE  Sorted(c) = [k \in 1..Len(c) |-> c[CHOOSE i \in 1..Len(c) : Rank(c, i) = k]]
BY DEF Sorted, Rank, Before, Precedes, List

LEMMA BeforeFinite ==
  ASSUME NEW c, Ranked(c), NEW i \in 1..Len(c)
  PROVE  /\ IsFiniteSet(Before(c, i)) /\ Cardinality(Before(c, i)) \in Nat
         /\ Rank(c, i) \in 1..Len(c)
<1>1. /\ Len(c) \in Nat /\ IsFiniteSet(1..Len(c)) /\ Cardinality(1..Len(c)) = Len(c)
  <2>1. Len(c) \in Nat
    BY DEF Ranked, List
  <2>2. /\ IsFiniteSet(1..Len(c))
        /\ Cardinality(1..Len(c)) = IF 1 > Len(c) THEN 0 ELSE Len(c) - 1 + 1
    BY <2>1, FS_Interval
  <2> QED
    BY <2>1, <2>2
<1>2. /\ IsFiniteSet((1..Len(c)) \ {i}) /\ Cardinality((1..Len(c)) \ {i}) = Len(c) - 1
  BY <1>1, FS_RemoveElement
<1>3. Before(c, i) \in SUBSET ((1..Len(c)) \ {i})
  BY DEF Before, Precedes, Ranked, List
<1>4. /\ IsFiniteSet(Before(c, i)) /\ Cardinality(Before(c, i)) <= Len(c) - 1
  BY <1>2, <1>3, FS_Subset
<1>5. Cardinality(Before(c, i)) \in Nat
  BY <1>4, FS_CardinalityType
<1> QED
  BY <1>1, <1>4, <1>5 DEF Rank

\* Different candidates have different ranks.
LEMMA RankInjective ==
  ASSUME NEW c, Ranked(c), NEW i \in 1..Len(c), NEW j \in 1..Len(c), Rank(c, i) = Rank(c, j)
  PROVE  i = j
<1>1. ASSUME NEW m \in 1..Len(c), NEW n \in 1..Len(c), Precedes(c, m, n)
      PROVE  Rank(c, m) # Rank(c, n)
  <2>1. Before(c, m) \in SUBSET Before(c, n) /\ m \in Before(c, n) /\ m \notin Before(c, m)
    BY <1>1 DEF Before, Precedes, Ranked, List
  <2>2. Cardinality(Before(c, m)) # Cardinality(Before(c, n))
    BY <2>1, BeforeFinite, FS_Subset
  <2> QED
    BY <2>2, BeforeFinite DEF Rank
<1>2. i = j \/ Precedes(c, i, j) \/ Precedes(c, j, i)
  BY DEF Precedes, Ranked, List
<1> QED
  BY <1>1, <1>2

\* Each place has a candidate of its rank.
LEMMA RankOnto ==
  ASSUME NEW c, Ranked(c), NEW k \in 1..Len(c)
  PROVE  \E i \in 1..Len(c) : Rank(c, i) = k
<1> DEFINE S == 1..Len(c)
           rank == [i \in S |-> Rank(c, i)]
<1>1. rank \in Injection(S, S)
  <2>1. rank \in [S -> S]
    BY BeforeFinite
  <2>2. \A i, j \in S : rank[i] = rank[j] => i = j
    BY RankInjective
  <2> QED
    BY <2>1, <2>2, Zenon DEF Injection, IsInjective
<1>2. IsFiniteSet(S)
  BY FS_Interval DEF Ranked, List
<1>3. rank \in Surjection(S, S)
  <2> HIDE DEF S, rank
  <2> QED
    BY <1>1, <1>2, FS_Injection
<1>4. \E i \in S : rank[i] = k
  BY <1>3 DEF Surjection
<1> QED
  BY <1>4

\* Every place of the sorted list holds the one candidate of its rank.
LEMMA SortedPlace ==
  ASSUME NEW c, Ranked(c)
  PROVE  /\ DOMAIN Sorted(c) = 1..Len(c)
         /\ \A k \in 1..Len(c) : \E i \in 1..Len(c) : Rank(c, i) = k /\ Sorted(c)[k] = c[i]
<1>1. Sorted(c) = [k \in 1..Len(c) |-> c[CHOOSE i \in 1..Len(c) : Rank(c, i) = k]]
  BY SortedIs DEF Ranked
<1>2. ASSUME NEW k \in 1..Len(c)
      PROVE  \E i \in 1..Len(c) : Rank(c, i) = k /\ Sorted(c)[k] = c[i]
  <2>1. \E i \in 1..Len(c) : Rank(c, i) = k
    BY RankOnto
  <2> DEFINE i == CHOOSE i \in 1..Len(c) : Rank(c, i) = k
  <2>2. i \in 1..Len(c) /\ Rank(c, i) = k
    BY <2>1
  <2> QED
    BY <1>1, <2>2
<1> QED
  BY <1>1, <1>2

\* Candidates with ids of their own keep them apart when sorted.
LEMMA SortedDistinct ==
  ASSUME NEW c, Ranked(c), \A i, j \in 1..Len(c) : i # j => c[i].id # c[j].id,
         NEW k \in 1..Len(c), NEW l \in 1..Len(c), k # l
  PROVE  Sorted(c)[k].id # Sorted(c)[l].id
<1>1. PICK i \in 1..Len(c) : Rank(c, i) = k /\ Sorted(c)[k] = c[i]
  BY SortedPlace
<1>2. PICK j \in 1..Len(c) : Rank(c, j) = l /\ Sorted(c)[l] = c[j]
  BY SortedPlace
<1> QED
  BY <1>1, <1>2

\* What is in order stays where it is.
LEMMA SortedAscending ==
  ASSUME NEW c, Ranked(c), \A i, j \in 1..Len(c) : i < j => c[i].order < c[j].order
  PROVE  \A k \in 1..Len(c) : Sorted(c)[k] = c[k]
<1>1. ASSUME NEW i \in 1..Len(c)
      PROVE  Rank(c, i) = i
  <2>1. Before(c, i) = 1..(i - 1)
    BY DEF Before, Precedes, Ranked, List
  <2>2. Cardinality(1..(i - 1)) = i - 1
    BY FS_Interval DEF Ranked, List
  <2> QED
    BY <2>1, <2>2 DEF Rank, Ranked, List
<1> QED
  BY <1>1, SortedPlace

-----------------------------------------------------------------------------
(* The candidates. *)

\* A nonempty set of naturals has a least element.
LEMMA LeastElement ==
  ASSUME NEW S \in SUBSET Nat, S # {}
  PROVE  \E x \in S : \A y \in S : x <= y
<1>1. PICK x \in S : \A y \in S : <<y, x>> \notin OpToRel(<, Nat)
  BY NatLessThanWellFounded, WFMin
<1>2. \A y \in S : ~(y < x)
  BY <1>1, Zenon DEF OpToRel
<1> QED
  BY <1>2

Ascending(v) == v \in Seq(Nat) /\ \A i, j \in 1..Len(v) : i < j => v[i] < v[j]

\* Versions that ascend from one to the next ascend.
LEMMA StepwiseAscending ==
  ASSUME NEW v \in Seq(Nat), \A i \in 1..(Len(v) - 1) : v[i] < v[i + 1]
  PROVE  Ascending(v)
<1> SUFFICES ASSUME NEW i \in 1..Len(v), NEW k \in 1..Len(v), i < k, ~(v[i] < v[k])
             PROVE  FALSE
  BY DEF Ascending
<1> DEFINE S == {j \in 1..Len(v) : i < j /\ ~(v[i] < v[j])}
<1>1. PICK j \in S : \A y \in S : j <= y
  <2>1. k \in S /\ S \in SUBSET Nat
    OBVIOUS
  <2> HIDE DEF S
  <2> QED
    BY <2>1, LeastElement
<1>2. j \in 1..Len(v) /\ i < j /\ ~(v[i] < v[j]) /\ j - 1 \in 1..(Len(v) - 1)
  BY <1>1
<1>3. v[j - 1] < v[j]
  BY <1>2
<1>4. j - 1 \notin S
  BY <1>1, <1>2
<1>5. j - 1 = i \/ v[i] < v[j - 1]
  BY <1>2, <1>4
<1>6. v[i] \in Nat /\ v[j - 1] \in Nat /\ v[j] \in Nat
  BY <1>2
<1> QED
  BY <1>2, <1>3, <1>5, <1>6

\* A part of what ascends does.
LEMMA PartAscending ==
  ASSUME NEW v, Ascending(v), NEW m \in Nat \ {0}, NEW n \in Nat, n <= Len(v)
  PROVE  Ascending(SubSeq(v, m, n))
<1>1. v \in Seq(Nat) /\ Len(v) \in Nat
  BY DEF Ascending
<1>2. CASE n < m
  <2>1. SubSeq(v, m, n) = << >>
    BY <1>1, <1>2
  <2> QED
    BY <2>1 DEF Ascending
<1>3. CASE m <= n
  <2>1. /\ SubSeq(v, m, n) \in Seq(Nat) /\ Len(SubSeq(v, m, n)) = n - m + 1
        /\ \A i \in 1..(n - m + 1) : SubSeq(v, m, n)[i] = v[m + i - 1]
    <3>1. \A i \in m..n : v[i] \in Nat
      BY <1>1
    <3> QED
      BY <1>3, <3>1, SubSeqProperties
  <2> DEFINE t == SubSeq(v, m, n)
  <2>2. ASSUME NEW i \in 1..Len(t), NEW j \in 1..Len(t), i < j
        PROVE  t[i] < t[j]
    <3>1. /\ i \in 1..(n - m + 1) /\ j \in 1..(n - m + 1)
          /\ m + i - 1 \in 1..Len(v) /\ m + j - 1 \in 1..Len(v) /\ m + i - 1 < m + j - 1
      BY <1>1, <1>3, <2>1, <2>2
    <3> QED
      BY <2>1, <3>1 DEF Ascending
  <2> QED
    BY <2>1, <2>2 DEF Ascending
<1> QED
  BY <1>2, <1>3

LEMMA PrefixAscending ==
  ASSUME NEW v, Ascending(v), NEW n \in Nat
  PROVE  Ascending(Prefix(v, n))
<1>1. Len(v) \in Nat
  BY DEF Ascending
<1> QED
  BY <1>1, PartAscending DEF Prefix

LEMMA LaterAscending ==
  ASSUME NEW v, Ascending(v), NEW b
  PROVE  Ascending(LaterThan(v, b))
<1> DEFINE S == {i \in DOMAIN v : v[i] <= b}
<1>1. Len(v) \in Nat /\ DOMAIN v = 1..Len(v)
  BY DEF Ascending
<1>2. Cardinality(S) \in Nat
  <2>1. IsFiniteSet(1..Len(v)) /\ S \in SUBSET (1..Len(v))
    BY <1>1, FS_Interval
  <2> HIDE DEF S
  <2> QED
    BY <2>1, FS_Subset, FS_CardinalityType
<1>3. 1 + Cardinality(S) \in Nat \ {0}
  BY <1>2
<1> HIDE DEF S
<1>4. Ascending(SubSeq(v, 1 + Cardinality(S), Len(v)))
  BY <1>1, <1>3, PartAscending
<1> QED
  BY <1>4 DEF LaterThan, S

LEMMA CataloguesAscend == Ascending(PythonCatalogue) /\ Ascending(NodeCatalogue)
BY DEF Ascending, PythonCatalogue, NodeCatalogue

-----------------------------------------------------------------------------
RuntimesOk(rts) ==
  /\ Ranked(rts)
  /\ \A i \in 1..Len(rts) :
       /\ rts[i].id[1] \in {"py", "node", "rust"} /\ rts[i].axis = "runtime"
       /\ rts[i].grade = "Observed"
  /\ \A i, j \in 1..Len(rts) :
       /\ i # j => rts[i].id # rts[j].id
       /\ i < j => rts[i].order < rts[j].order

LEMMA AscendingRuntimesOk ==
  ASSUME NEW name \in {"py", "node", "rust"}, NEW v, Ascending(v)
  PROVE  RuntimesOk(AscendingRuntimes(name, v)) /\ Len(AscendingRuntimes(name, v)) = Len(v)
<1> DEFINE r == AscendingRuntimes(name, v)
<1>1. v \in Seq(Nat) /\ DOMAIN v = 1..Len(v) /\ Len(v) \in Nat
  BY DEF Ascending
<1>2. /\ r = [i \in 1..Len(v) |-> RuntimeCandidate(<<name, v[i]>>, v[i], v[i])]
      /\ Len(r) = Len(v)
  BY <1>1 DEF AscendingRuntimes
<1>3. ASSUME NEW i \in 1..Len(v)
      PROVE  /\ r[i].id = <<name, v[i]>> /\ r[i].id[1] = name /\ r[i].id[2] = v[i]
             /\ r[i].axis = "runtime" /\ r[i].grade = "Observed" /\ r[i].order = v[i]
  BY <1>2 DEF RuntimeCandidate
<1>4. \A i, j \in 1..Len(v) : i # j => v[i] # v[j]
  BY <1>1 DEF Ascending
<1>5. \A i \in 1..Len(v) : v[i] \in Int
  BY <1>1
<1>6. DOMAIN r = 1..Len(v)
  BY <1>2
<1> HIDE DEF r
<1>7. Ranked(r)
  BY <1>1, <1>2, <1>3, <1>5, <1>6 DEF Ranked, List
<1>8. RuntimesOk(r)
  BY <1>2, <1>3, <1>4, <1>7 DEF RuntimesOk, Ascending
<1> QED
  BY <1>2, <1>8 DEF r

AtMost(s, P, a) == s \in Seq(P) /\ Len(s) \in {0, 1} /\ (Len(s) = 1 => s[1] = a)

Pair(s, P, a, b) ==
  s \in Seq(P) /\ Len(s) \in 0..2 /\ (Len(s) = 2 => s[1] = a /\ s[2] = b)

LEMMA ConcatTwo ==
  ASSUME NEW P, NEW a, NEW b, NEW s1, NEW s2, AtMost(s1, P, a), AtMost(s2, P, b)
  PROVE  Pair(s1 \o s2, P, a, b)
<1> DEFINE s == s1 \o s2
           m == Len(s1)
           n == Len(s2)
<1>1. /\ m \in {0, 1} /\ n \in {0, 1} /\ s1 \in Seq(P) /\ s2 \in Seq(P)
      /\ m = 1 => s1[1] = a
      /\ n = 1 => s2[1] = b
  BY DEF AtMost
<1>2. /\ s \in Seq(P) /\ Len(s) = m + n
      /\ \A i \in 1..(m + n) : s[i] = IF i <= m THEN s1[i] ELSE s2[i - m]
  BY <1>1, ConcatProperties
<1> HIDE DEF s, m, n
<1>3. Len(s) \in 0..2
  BY <1>1, <1>2
<1>4. ASSUME Len(s) = 2
      PROVE  s[1] = a /\ s[2] = b
  <2>1. m = 1 /\ n = 1
    <3>1. (m = 0 \/ m = 1) /\ (n = 0 \/ n = 1)
      BY <1>1
    <3>2. m + n = 2
      BY <1>2, <1>4
    <3> QED
      BY <3>1, <3>2
  <2>2. s[1] = s1[1] /\ s[2] = s2[1]
    BY <1>2, <2>1
  <2> QED
    BY <1>1, <2>1, <2>2
<1>5. Pair(s, P, a, b)
  BY <1>2, <1>3, <1>4 DEF Pair
<1> QED
  BY <1>5 DEF s

\* Two candidates each of which may be left out.
LEMMA AtMostTwo ==
  ASSUME NEW a, NEW b, NEW x, NEW y, NEW s,
         s = (IF x THEN <<a>> ELSE <<>>) \o (IF y THEN <<b>> ELSE <<>>)
  PROVE  /\ s \in Seq({a, b}) /\ Len(s) \in 0..2
         /\ Len(s) = 2 => s[1] = a /\ s[2] = b
<1> DEFINE P == {a, b}
           s1 == IF x THEN <<a>> ELSE <<>>
           s2 == IF y THEN <<b>> ELSE <<>>
<1>1. /\ <<a>> \in Seq(P) /\ Len(<<a>>) = 1 /\ <<a>>[1] = a
      /\ <<b>> \in Seq(P) /\ Len(<<b>>) = 1 /\ <<b>>[1] = b
      /\ <<>> \in Seq(P) /\ Len(<<>>) = 0
  OBVIOUS
<1> HIDE DEF P
<1>2. AtMost(s1, P, a)
  <2>1. CASE x
    BY <1>1, <2>1 DEF AtMost
  <2>2. CASE ~x
    BY <1>1, <2>2 DEF AtMost
  <2> QED
    BY <2>1, <2>2
<1>3. AtMost(s2, P, b)
  <2>1. CASE y
    BY <1>1, <2>1 DEF AtMost
  <2>2. CASE ~y
    BY <1>1, <2>2 DEF AtMost
  <2> QED
    BY <2>1, <2>2
<1>4. s = s1 \o s2
  OBVIOUS
<1> HIDE DEF s1, s2
<1>5. Pair(s1 \o s2, P, a, b)
  BY <1>2, <1>3, ConcatTwo
<1>6. Pair(s, P, a, b)
  BY <1>4, <1>5, Zenon
<1> QED
  BY <1>6 DEF P, Pair

\* The runtime candidates of each adapter.
LEMMA AdapterOk ==
  ASSUME NEW c, c.max_versions \in Nat, c.versions \subseteq Seq(Nat),
         NEW b, NEW detected_ \in {"python", "node", "rust"},
         NEW rts \in adapter_candidates(detected_, c, b)
  PROVE  RuntimesOk(rts)
<1>1. CASE detected_ = "python"
  <2>1. rts \in python_candidates(c, b) /\ validate(c)
    BY <1>1 DEF adapter_candidates, python_candidates
  <2>2. CASE c.versions = {}
    <3>1. rts = AscendingRuntimes("py", Prefix(LaterThan(PythonCatalogue, b), c.max_versions))
      BY <2>1, <2>2 DEF python_candidates
    <3> QED
      BY <3>1, CataloguesAscend, LaterAscending, PrefixAscending, AscendingRuntimesOk
  <2>3. CASE c.versions # {}
    <3>1. PICK v \in c.versions : rts = AscendingRuntimes("py", v)
      BY <2>1, <2>3 DEF python_candidates
    <3>2. v \in Seq(Nat) /\ \A i \in 1..(Len(v) - 1) : v[i] < v[i + 1]
      BY <2>1 DEF validate, validate_explicit_versions
    <3> QED
      BY <3>1, <3>2, StepwiseAscending, AscendingRuntimesOk
  <2> QED
    BY <2>2, <2>3
<1>2. CASE detected_ = "node"
  <2>1. rts = AscendingRuntimes("node", Prefix(LaterThan(NodeCatalogue, b), c.max_versions))
    BY <1>2 DEF adapter_candidates, node_candidates
  <2> QED
    BY <2>1, CataloguesAscend, LaterAscending, PrefixAscending, AscendingRuntimesOk
<1>3. CASE detected_ = "rust"
  <2> DEFINE wanted(x) == x.channel \in c.channels /\ x.version # b
             kept(x)   == IF wanted(x) THEN <<x>> ELSE <<>>
             stable    == [version |-> 74, channel |-> "stable"]
             preview   == [version |-> Nightly, channel |-> "preview"]
             found     == kept(stable) \o kept(preview)
             selected  == Prefix(found, c.max_versions)
  <2>1. /\ selected \in Seq({stable, preview}) /\ Len(selected) \in 0..2
        /\ Len(selected) = 2 => selected[1] = stable /\ selected[2] = preview
    <3> DEFINE P == {stable, preview}
    <3>4. /\ found \in Seq(P) /\ Len(found) \in 0..2
          /\ Len(found) = 2 => found[1] = stable /\ found[2] = preview
      <4>1. found = (IF wanted(stable) THEN <<stable>> ELSE <<>>)
                    \o (IF wanted(preview) THEN <<preview>> ELSE <<>>)
        OBVIOUS
      <4> HIDE DEF found, stable, preview, wanted
      <4> QED
        BY <4>1, AtMostTwo
    <3> HIDE DEF stable, preview, found
    <3> DEFINE n == IF Len(found) <= c.max_versions THEN Len(found) ELSE c.max_versions
    <3>5. selected = SubSeq(found, 1, n) /\ n \in 0..Len(found)
      BY <3>4 DEF Prefix
    <3> HIDE DEF n, P
    <3>6. \A i \in 1..n : found[i] \in P
      BY <3>4, <3>5
    <3>7. /\ SubSeq(found, 1, n) \in Seq(P)
          /\ Len(SubSeq(found, 1, n)) = IF 1 <= n THEN n - 1 + 1 ELSE 0
          /\ \A i \in 1..(n - 1 + 1) : SubSeq(found, 1, n)[i] = found[1 + i - 1]
      BY <3>4, <3>5, <3>6, SubSeqProperties
    <3> HIDE DEF selected
    <3> QED
      BY <3>4, <3>5, <3>7 DEF P
  <2>2. rts = [i \in DOMAIN selected |->
                 RuntimeCandidate(<<"rust", selected[i].version>>, selected[i].version, i)]
    BY <1>3 DEF adapter_candidates, rust_candidates
  <2> HIDE DEF selected
  <2>3. stable.version # preview.version
    BY DEF Nightly
  <2>4. DOMAIN selected = 1..Len(selected) /\ DOMAIN rts = 1..Len(selected)
        /\ Len(rts) = Len(selected)
    BY <2>1, <2>2
  <2>5. ASSUME NEW i \in 1..Len(selected)
        PROVE  /\ rts[i].id = <<"rust", selected[i].version>> /\ rts[i].id[1] = "rust"
               /\ rts[i].id[2] = selected[i].version
               /\ rts[i].axis = "runtime" /\ rts[i].grade = "Observed" /\ rts[i].order = i
    BY <2>2, <2>4 DEF RuntimeCandidate
  <2>6. \A i, j \in 1..Len(selected) : i # j => selected[i].version # selected[j].version
    BY <2>1, <2>3
  <2>7. Ranked(rts)
    BY <2>1, <2>4, <2>5 DEF Ranked, List
  <2> QED
    BY <2>1, <2>4, <2>5, <2>6, <2>7 DEF RuntimesOk
<1> QED
  BY <1>1, <1>2, <1>3

DependenciesOk(deps) ==
  /\ Ranked(deps)
  /\ \A i \in 1..Len(deps) : deps[i].id[1] \in {"deps", "probe"}
  /\ \A i, j \in 1..Len(deps) : i # j => deps[i].id # deps[j].id

LEMMA LabelsOk ==
  ASSUME NEW c
  PROVE  /\ DependenciesOk(label_candidates(c))
         /\ \A i \in 1..Len(label_candidates(c)) : label_candidates(c)[i].set = NoSet
<1> DEFINE a == LabelCandidate("latest-allowed", 1)
           b == LabelCandidate("prerelease", 2)
           s == label_candidates(c)
<1>1. /\ s \in Seq({a, b}) /\ Len(s) \in 0..2 /\ (Len(s) = 2 => s[1] = a /\ s[2] = b)
  <2>1. s = (IF c.latest_allowed THEN <<a>> ELSE <<>>) \o (IF c.prerelease THEN <<b>> ELSE <<>>)
    BY DEF label_candidates
  <2> HIDE DEF a, b, s
  <2> QED
    BY <2>1, AtMostTwo
<1>2. /\ a.id[1] = "deps" /\ b.id[1] = "deps" /\ a.id # b.id
      /\ a.order = 1 /\ b.order = 2 /\ a.set = NoSet /\ b.set = NoSet
  BY DEF LabelCandidate
<1> HIDE DEF a, b, s
<1>3. DOMAIN s = 1..Len(s) /\ Len(s) \in Nat /\ \A i \in 1..Len(s) : s[i] \in {a, b}
  BY <1>1
<1>4. DependenciesOk(s) /\ \A i \in 1..Len(s) : s[i].set = NoSet
  BY <1>1, <1>2, <1>3 DEF DependenciesOk, Ranked, List
<1> QED
  BY <1>4 DEF s

LEMMA ProbesOk ==
  ASSUME NEW S, NEW probes \in Seq(S),
         \A i, j \in DOMAIN probes : i # j => probes[i] # probes[j]
  PROVE  LET deps == probe_candidates(probes) IN
         /\ DependenciesOk(deps) /\ Len(deps) = Len(probes) /\ DOMAIN deps = DOMAIN probes
         /\ \A i, j \in 1..Len(deps) : i < j => deps[i].order < deps[j].order
         /\ \A i \in 1..Len(deps) : deps[i] = ProbeCandidate(probes[i], i)
<1> DEFINE deps == probe_candidates(probes)
<1>1. DOMAIN probes = 1..Len(probes) /\ Len(probes) \in Nat
  OBVIOUS
<1>2. deps = [i \in 1..Len(probes) |-> ProbeCandidate(probes[i], i)]
  BY <1>1 DEF probe_candidates
<1>3. Len(deps) = Len(probes) /\ DOMAIN deps = 1..Len(probes)
  BY <1>1, <1>2
<1>4. \A i \in 1..Len(probes) : deps[i] = ProbeCandidate(probes[i], i)
  BY <1>2
<1>5. \A i : \A p : /\ ProbeCandidate(p, i).id = <<"probe", p>>
                    /\ ProbeCandidate(p, i).order = i
  BY DEF ProbeCandidate
<1>6. \A p, q : <<"probe", p>>[1] = "probe" /\ (<<"probe", p>> = <<"probe", q>> => p = q)
  OBVIOUS
<1> HIDE DEF deps
<1>7. DependenciesOk(deps)
  BY <1>1, <1>3, <1>4, <1>5, <1>6 DEF DependenciesOk, Ranked, List
<1>8. \A i, j \in 1..Len(deps) : i < j => deps[i].order < deps[j].order
  BY <1>1, <1>3, <1>4, <1>5
<1> QED
  BY <1>1, <1>3, <1>4, <1>7, <1>8 DEF deps

-----------------------------------------------------------------------------
(* The plan of given candidates. *)

\* s is the list of its first n entries.
Entries(s, n) == s = [i \in 1..n |-> s[i]]

LEMMA EntriesAre ==
  ASSUME NEW n \in Nat, NEW s
  PROVE  Entries(s, n) <=> \E S : s \in Seq(S) /\ Len(s) = n
<1>1. ASSUME Entries(s, n)
      PROVE  \E S : s \in Seq(S) /\ Len(s) = n
  <2> DEFINE S == {s[i] : i \in 1..n}
  <2>1. \A i \in 1..n : s[i] \in S
    OBVIOUS
  <2> HIDE DEF S
  <2>2. s \in [1..n -> S]
    BY <1>1, <2>1 DEF Entries
  <2>3. s \in Seq(S) /\ Len(s) = n
    BY <2>2
  <2> QED
    BY <2>3
<1>2. ASSUME NEW S, s \in Seq(S), Len(s) = n
      PROVE  Entries(s, n)
  <2>1. s \in [1..n -> S]
    BY <1>2
  <2> QED
    BY <2>1 DEF Entries
<1> QED
  BY <1>1, <1>2

LEMMA EntriesWithin ==
  ASSUME NEW n \in Nat, NEW s, Entries(s, n), NEW S, \A i \in 1..n : s[i] \in S
  PROVE  s \in Seq(S) /\ Len(s) = n /\ DOMAIN s = 1..n
<1>1. s \in [1..n -> S]
  BY DEF Entries
<1> QED
  BY <1>1

\* h is the m entries of f and then the n of g.
Joins(h, f, m, g, n) ==
  /\ Entries(h, m + n) /\ DOMAIN h = 1..(m + n) /\ Len(h) = m + n
  /\ \A i \in 1..m : h[i] = f[i]
  /\ \A i \in 1..n : h[m + i] = g[i]

LEMMA ConcatLists ==
  ASSUME NEW m \in Nat, NEW n \in Nat, NEW f, NEW g, Entries(f, m), Entries(g, n)
  PROVE  Joins(f \o g, f, m, g, n)
<1> DEFINE S == {f[i] : i \in 1..m} \cup {g[i] : i \in 1..n}
           h == f \o g
<1>1. (\A i \in 1..m : f[i] \in S) /\ (\A i \in 1..n : g[i] \in S)
  OBVIOUS
<1> HIDE DEF S
<1>2. f \in Seq(S) /\ Len(f) = m /\ g \in Seq(S) /\ Len(g) = n
  BY <1>1, EntriesWithin
<1>3. /\ h \in Seq(S) /\ Len(h) = m + n
      /\ \A i \in 1..(m + n) : h[i] = IF i <= m THEN f[i] ELSE g[i - m]
  BY <1>2, ConcatProperties
<1> HIDE DEF h
<1>4. m + n \in Nat
  OBVIOUS
<1>5. Entries(h, m + n) /\ DOMAIN h = 1..(m + n)
  BY <1>3, <1>4, EntriesAre
<1>6. ASSUME NEW i \in 1..m
      PROVE  h[i] = f[i]
  <2>1. i \in 1..(m + n) /\ i <= m
    OBVIOUS
  <2> QED
    BY <1>3, <2>1
<1>7. ASSUME NEW i \in 1..n
      PROVE  h[m + i] = g[i]
  <2>1. m + i \in 1..(m + n) /\ ~(m + i <= m) /\ m + i - m = i
    OBVIOUS
  <2> QED
    BY <1>3, <2>1
<1>8. Joins(h, f, m, g, n)
  BY <1>3, <1>5, <1>6, <1>7 DEF Joins
<1> QED
  BY <1>8 DEF h

\* What a single-axis scenario is made of.
RuntimeScenario(c, deps) == Scenario(c.id, c.version, {"runtime"}, c.grade, resolved_baseline(deps))

DependencyScenario(b, c, deps) ==
  LET d == dependency_candidate_binding(c, resolved_baseline(deps))
  IN  Scenario(c.id, b, {"dependencies"}, d.grade, d.resolved)

LEMMA SinglesAre ==
  ASSUME NEW b, NEW rts, NEW deps, List(rts), List(deps)
  PROVE  LET s == SingleAxis(b, rts, deps) IN
         /\ List(s) /\ Len(s) = Len(rts) + Len(deps)
         /\ \A k \in 1..Len(rts) : s[k] = RuntimeScenario(Sorted(rts)[k], deps)
         /\ \A k \in 1..Len(deps) :
              s[Len(rts) + k] = DependencyScenario(b, Sorted(deps)[k], deps)
<1> DEFINE m == Len(rts)
           n == Len(deps)
           f == [i \in 1..m |-> RuntimeScenario(Sorted(rts)[i], deps)]
           g == [i \in 1..n |-> DependencyScenario(b, Sorted(deps)[i], deps)]
           s == SingleAxis(b, rts, deps)
<1>1. m \in Nat /\ n \in Nat /\ DOMAIN rts = 1..m /\ DOMAIN deps = 1..n
  BY DEF List
<1>2. s = f \o g
  BY <1>1 DEF SingleAxis, RuntimeScenario, DependencyScenario
<1>3. Entries(f, m) /\ Entries(g, n)
  BY DEF Entries
<1>4. /\ \A k \in 1..m : f[k] = RuntimeScenario(Sorted(rts)[k], deps)
      /\ \A k \in 1..n : g[k] = DependencyScenario(b, Sorted(deps)[k], deps)
  OBVIOUS
<1> HIDE DEF f, g, m, n, s
<1>5. Joins(s, f, m, g, n)
  BY <1>1, <1>2, <1>3, ConcatLists, Zenon
<1>6. DOMAIN s = 1..(m + n) /\ Len(s) = m + n /\ m + n \in Nat
  BY <1>1, <1>5 DEF Joins
<1>7. \A k \in 1..m : s[k] = RuntimeScenario(Sorted(rts)[k], deps)
  BY <1>4, <1>5 DEF Joins
<1>8. \A k \in 1..n : s[m + k] = DependencyScenario(b, Sorted(deps)[k], deps)
  BY <1>4, <1>5 DEF Joins
<1> QED
  BY <1>6, <1>7, <1>8 DEF s, m, n, List

\* The prefix of a list.
Least(m, n) == IF m <= n THEN m ELSE n

LEMMA PrefixIs ==
  ASSUME NEW s, List(s), NEW n \in Nat
  PROVE  LET k == Least(Len(s), n) IN
         /\ k \in Nat /\ k <= n /\ k <= Len(s) /\ (k < n => k = Len(s))
         /\ Entries(Prefix(s, n), k)
         /\ \A i \in 1..k : Prefix(s, n)[i] = s[i]
<1> DEFINE k == Least(Len(s), n)
<1>1. Len(s) \in Nat
  BY DEF List
<1>2. k \in Nat /\ k <= n /\ k <= Len(s) /\ (k < n => k = Len(s))
  <2> DEFINE m == Len(s)
  <2> HIDE DEF m
  <2>1. m \in Nat
    BY <1>1 DEF m
  <2>2. /\ Least(m, n) \in Nat /\ Least(m, n) <= n /\ Least(m, n) <= m
        /\ Least(m, n) < n => Least(m, n) = m
    BY <2>1 DEF Least
  <2> QED
    BY <2>2 DEF m
<1>3. Prefix(s, n) = SubSeq(s, 1, k)
  BY DEF Prefix, Least
<1> HIDE DEF k
<1>4. SubSeq(s, 1, k) = [i \in 1..k |-> s[i]]
  BY <1>2
<1>5. Entries(Prefix(s, n), k) /\ \A i \in 1..k : Prefix(s, n)[i] = s[i]
  BY <1>3, <1>4 DEF Entries
<1> QED
  BY <1>2, <1>5 DEF k

BaselineOf(b, deps) ==
  Scenario(BaselineId, b, {},
           IF (\E i \in DOMAIN deps : deps[i].set # NoSet) /\ resolved_baseline(deps) = {}
           THEN "Inconclusive" ELSE "Observed",
           resolved_baseline(deps))

\* The plan: the baseline, as many of the single-axis scenarios as fit, and
\* the combination if there is room for it.
Room(s, n, rts, deps) == Len(s) < n /\ rts # <<>> /\ deps # <<>>

PlanShape(p, budget, b, rts, deps) ==
  LET s == SingleAxis(b, rts, deps)
      n == budget - 1
      k == Least(Len(s), n)
      x == Room(s, n, rts, deps)
  IN  /\ Entries(p, Len(p)) /\ DOMAIN p = 1..Len(p)
      /\ Len(p) = IF x THEN k + 2 ELSE k + 1
      /\ k \in Nat /\ k <= Len(s) /\ k <= n /\ (k < n => k = Len(s))
      /\ p[1] = BaselineOf(b, deps)
      /\ \A i \in 1..k : p[1 + i] = s[i]
      /\ x => p[1 + k + 1] = Combination(rts, deps)

LEMMA PlanIs ==
  ASSUME NEW budget \in Nat \ {0}, NEW b, NEW rts, NEW deps, List(rts), List(deps)
  PROVE  PlanShape(plan_scenarios(budget, b, rts, deps), budget, b, rts, deps)
<1> DEFINE p == plan_scenarios(budget, b, rts, deps)
           s == SingleAxis(b, rts, deps)
           n == budget - 1
           k == Least(Len(s), n)
           x == Room(s, n, rts, deps)
           f == <<BaselineOf(b, deps)>>
           g == Prefix(s, n)
           h == IF x THEN <<Combination(rts, deps)>> ELSE <<>>
           l == IF x THEN 1 ELSE 0
           fg == f \o g
<1>1. n \in Nat /\ Slots(budget) = n
  BY DEF Slots
<1>2. p = fg \o h
  BY <1>1 DEF plan_scenarios, BaselineOf, Room
<1>3. List(s)
  BY SinglesAre
<1>4. /\ k \in Nat /\ k <= n /\ k <= Len(s) /\ (k < n => k = Len(s))
      /\ Entries(g, k) /\ \A i \in 1..k : g[i] = s[i]
  <2> HIDE DEF s, n
  <2> QED
    BY <1>1, <1>3, PrefixIs
<1>5. Entries(f, 1) /\ f[1] = BaselineOf(b, deps)
  BY DEF Entries
<1>6. l \in Nat /\ Entries(h, l) /\ (x => h[1] = Combination(rts, deps))
  <2>1. CASE x
    BY <2>1 DEF Entries
  <2>2. CASE ~x
    BY <2>2 DEF Entries
  <2> QED
    BY <2>1, <2>2
<1>7. (x => l = 1) /\ (~x => l = 0)
  OBVIOUS
<1> HIDE DEF f, g, h, k, s, p, n, x, l, fg
<1>8. Joins(fg, f, 1, g, k)
  <2>1. 1 \in Nat
    OBVIOUS
  <2> QED
    BY <1>4, <1>5, <2>1, ConcatLists, Zenon DEF fg
<1>9. 1 + k \in Nat
  BY <1>4
<1>10. Joins(p, fg, 1 + k, h, l)
  <2>1. Entries(fg, 1 + k)
    BY <1>8 DEF Joins
  <2> QED
    BY <1>2, <1>6, <1>9, <2>1, ConcatLists, Zenon
<1>11. p[1] = BaselineOf(b, deps)
  BY <1>4, <1>5, <1>8, <1>10 DEF Joins
<1>12. ASSUME NEW i \in 1..k
       PROVE  p[1 + i] = s[i]
  <2>1. 1 + i \in 1..(1 + k)
    BY <1>4
  <2> QED
    BY <1>4, <1>8, <1>10, <2>1 DEF Joins
<1>13. x => p[1 + k + 1] = Combination(rts, deps)
  <2>1. l = 1 => 1 \in 1..l
    OBVIOUS
  <2> QED
    BY <1>6, <1>7, <1>10, <2>1 DEF Joins
<1>14. Len(p) = IF x THEN k + 2 ELSE k + 1
  <2>1. CASE x
    BY <1>4, <1>7, <1>10, <2>1 DEF Joins
  <2>2. CASE ~x
    BY <1>4, <1>7, <1>10, <2>2 DEF Joins
  <2> QED
    BY <2>1, <2>2
<1>15. Entries(p, Len(p)) /\ DOMAIN p = 1..Len(p)
  BY <1>10 DEF Joins
<1> QED
  BY <1>4, <1>11, <1>12, <1>13, <1>14, <1>15 DEF PlanShape, p, s, k, x, n

-----------------------------------------------------------------------------
(* The invariant: the candidates are what the inputs give, and the plan and  *)
(* its decisions are those of the candidates.                               *)
ExperimentOk(x) ==
  /\ \A d, e \in x : d = e
  /\ \A e \in x :
       /\ e \in [schema : {1, 2}, probes : Seq(SUBSET Nat)] /\ e.probes # <<>>
       /\ \A i, j \in DOMAIN e.probes : i # j => e.probes[i] # e.probes[j]
       /\ e.schema = 2 => \A i \in DOMAIN e.probes : e.probes[i] = {i}

Inputs ==
  /\ config \in Configs /\ base \in Bases /\ detected \in {"python", "node", "rust"}
  /\ ExperimentOk(experiment)

Made ==
  /\ validate(config) /\ runtimes \in adapter_candidates(detected, config, base)
  /\ plan = plan_scenarios(config.max_scenarios, base, runtimes, dependencies)
  /\ decisions = plan_decisions(config.max_scenarios, base, runtimes, dependencies)

Planned ==
  /\ Made /\ dependencies = DependencyCandidates
  /\ config.versions # {} => detected = "python"
  /\ ~Unplannable(runtimes)

PlanInv ==
  /\ Inputs
  /\ status \in {"loaded", "refused", "planned", "replanned"}
  /\ status \in {"loaded", "refused"} => plan = <<>> /\ decisions = <<>>
  /\ status = "planned" => Planned
  /\ status = "replanned" => Made /\ dependencies \in Recorded

LEMMA InitPlan == Init => PlanInv
BY PlanningAssumption DEF Init, PlanInv, Inputs, ExperimentOk

\* The next probe of an adaptive experiment.
LEMMA NextProbe ==
  ASSUME NEW x, ExperimentOk(x), NEW e \in x, e.schema = 2, NEW y,
         y = {[e EXCEPT !.probes = Append(@, {Len(e.probes) + 1})]}
  PROVE  ExperimentOk(y)
<1> DEFINE probe == {Len(e.probes) + 1}
           probes == Append(e.probes, probe)
           f == [e EXCEPT !.probes = Append(@, probe)]
<1>1. /\ e \in [schema : {1, 2}, probes : Seq(SUBSET Nat)] /\ e.probes # <<>>
      /\ \A i \in DOMAIN e.probes : e.probes[i] = {i}
  BY DEF ExperimentOk
<1>2. e.probes \in Seq(SUBSET Nat) /\ Len(e.probes) \in Nat
  BY <1>1
<1>3. probe \in SUBSET Nat
  BY <1>2
<1>4. /\ probes \in Seq(SUBSET Nat) /\ Len(probes) = Len(e.probes) + 1
      /\ DOMAIN probes = 1..(Len(e.probes) + 1) /\ probes # <<>>
      /\ \A i \in 1..Len(e.probes) : probes[i] = e.probes[i]
      /\ probes[Len(e.probes) + 1] = probe
  BY <1>2, <1>3, AppendProperties
<1>5. f \in [schema : {1, 2}, probes : Seq(SUBSET Nat)] /\ f.probes = probes /\ f.schema = 2
  BY <1>1, <1>4
<1>6. y = {f}
  OBVIOUS
<1> HIDE DEF f, probes
<1>7. \A i \in DOMAIN probes : probes[i] = {i}
  <2>1. DOMAIN e.probes = 1..Len(e.probes)
    BY <1>2
  <2> QED
    BY <1>1, <1>2, <1>4, <2>1
<1>8. \A i, j : {i} = {j} => i = j
  OBVIOUS
<1>9. \A i, j \in DOMAIN probes : i # j => probes[i] # probes[j]
  BY <1>7, <1>8
<1>10. f.probes # <<>> /\ \A i \in DOMAIN f.probes : f.probes[i] = {i}
  BY <1>4, <1>5, <1>7
<1>11. \A i, j \in DOMAIN f.probes : i # j => f.probes[i] # f.probes[j]
  BY <1>5, <1>9
<1>12. \A d \in y : d = f
  BY <1>6
<1> QED
  BY <1>5, <1>10, <1>11, <1>12 DEF ExperimentOk

LEMMA NextPlan == PlanInv /\ [Next]_vars => PlanInv'
<1> SUFFICES ASSUME PlanInv, [Next]_vars PROVE PlanInv'
  OBVIOUS
<1>1. CASE Plan
  <2>1. Inputs'
    BY <1>1 DEF PlanInv, Inputs, Plan, inputs
  <2>2. Planned'
    <3>1. PICK rts \in adapter_candidates(detected, config, base) :
            ~Unplannable(rts) /\ MakePlan(rts, DependencyCandidates)
      BY <1>1 DEF Plan
    <3>2. /\ config' = config /\ detected' = detected /\ base' = base
          /\ experiment' = experiment /\ validate(config)
          /\ config.versions # {} => detected = "python"
      BY <1>1 DEF Plan, inputs
    <3>3. Made'
      BY <3>1, <3>2 DEF Made, MakePlan
    <3>4. dependencies' = DependencyCandidates'
      BY <3>1, <3>2 DEF MakePlan, DependencyCandidates
    <3>5. ~Unplannable(runtimes)'
      BY <3>1, <3>2 DEF MakePlan, Unplannable, Adaptive
    <3> QED
      BY <3>2, <3>3, <3>4, <3>5 DEF Planned
  <2> QED
    BY <1>1, <2>1, <2>2 DEF PlanInv, Plan
<1>2. CASE Refuse
  BY <1>2 DEF PlanInv, Inputs, Refuse, inputs
<1>3. CASE ExtendPlan
  <2>1. /\ status = "planned" /\ status' = "planned" /\ Planned /\ Inputs
        /\ config' = config /\ detected' = detected /\ base' = base
    BY <1>3 DEF PlanInv, ExtendPlan, inputs
  <2>2. PICK e \in experiment :
          /\ experiment' = {[e EXCEPT !.probes = Append(@, {Len(e.probes) + 1})]}
          /\ MakePlan(runtimes, probe_candidates(Append(e.probes, {Len(e.probes) + 1})))
    BY <1>3 DEF ExtendPlan
  <2>3. e.schema = 2 /\ e \in [schema : {1, 2}, probes : Seq(SUBSET Nat)]
    <3>1. Adaptive
      BY <1>3 DEF ExtendPlan
    <3> QED
      BY <2>1, <2>2, <3>1 DEF Adaptive, Inputs, ExperimentOk
  <2>4. ExperimentOk(experiment')
    BY <2>1, <2>2, <2>3, NextProbe DEF Inputs
  <2> DEFINE probes == Append(e.probes, {Len(e.probes) + 1})
             f == [e EXCEPT !.probes = probes]
  <2>5. experiment' = {f} /\ f.probes = probes /\ f.schema = 2
    BY <2>2, <2>3
  <2> HIDE DEF f, probes
  <2>6. dependencies' = probe_candidates(probes) /\ runtimes' = runtimes
    BY <2>2 DEF MakePlan, probes
  <2>7. Inputs'
    BY <2>1, <2>4 DEF Inputs
  <2>8. Made'
    BY <2>1, <2>2 DEF Planned, Made, MakePlan
  <2>9. dependencies' = DependencyCandidates'
    <3>1. experiment' # {} /\ (CHOOSE x \in experiment' : TRUE) = f
      BY <2>5
    <3> QED
      BY <2>5, <2>6, <3>1 DEF DependencyCandidates
  <2>10. ~Unplannable(runtimes)'
    <3>1. experiment # {} /\ Adaptive
      BY <1>3, <2>2 DEF ExtendPlan
    <3>2. runtimes = <<>> /\ config.reruns_on_failure >= 3 /\ ~(config.max_scenarios < 2)
          /\ ~(config.reruns_on_failure < 3)
      BY <2>1, <3>1, PlanningAssumption DEF Planned, Unplannable, Inputs
    <3> QED
      BY <2>1, <2>6, <3>2 DEF Unplannable
  <2> QED
    BY <2>1, <2>7, <2>8, <2>9, <2>10 DEF PlanInv, Planned
<1>4. CASE Replan
  <2>1. PICK deps \in Recorded, rts \in adapter_candidates(detected, config, base) :
          MakePlan(rts, deps)
    BY <1>4 DEF Replan
  <2>2. /\ config' = config /\ detected' = detected /\ base' = base
        /\ experiment' = experiment /\ validate(config) /\ status' = "replanned"
    BY <1>4 DEF Replan, inputs
  <2>3. Made' /\ dependencies' \in Recorded
    BY <2>1, <2>2 DEF Made, MakePlan
  <2> QED
    BY <2>2, <2>3 DEF PlanInv, Inputs
<1>5. CASE UNCHANGED vars
  BY <1>5 DEF vars, PlanInv, Inputs, Planned, Made, DependencyCandidates, Unplannable, Adaptive
<1> QED
  BY <1>1, <1>2, <1>3, <1>4, <1>5 DEF Next

\* PlanInv is inductive.
THEOREM PlanInvariant == Spec => []PlanInv
BY InitPlan, NextPlan, PTL DEF Spec

\* What is planned from has the form the operators expect.
LEMMA MadeOk ==
  ASSUME Inputs, Made, dependencies = DependencyCandidates \/ dependencies \in Recorded
  PROVE  /\ RuntimesOk(runtimes) /\ DependenciesOk(dependencies)
         /\ List(runtimes) /\ List(dependencies) /\ config.max_scenarios \in Nat \ {0}
<1>1. /\ config.max_versions \in Nat /\ config.versions \subseteq Seq(Nat)
      /\ config.max_scenarios \in Nat
  BY PlanningAssumption DEF Inputs
<1>2. RuntimesOk(runtimes)
  BY <1>1, AdapterOk DEF Inputs, Made
<1>3. DependenciesOk(dependencies)
  <2>1. CASE dependencies \in Recorded
    BY <2>1, PlanningAssumption DEF DependenciesOk, Ranked, List
  <2>2. CASE dependencies = DependencyCandidates /\ experiment = {}
    <3>1. dependencies = label_candidates(config)
      BY <2>2 DEF DependencyCandidates
    <3> QED
      BY <3>1, LabelsOk
  <2>3. CASE dependencies = DependencyCandidates /\ experiment # {}
    <3> DEFINE e == CHOOSE e \in experiment : TRUE
    <3>1. e \in experiment /\ dependencies = probe_candidates(e.probes)
      BY <2>3 DEF DependencyCandidates
    <3> HIDE DEF e
    <3>2. /\ e.probes \in Seq(SUBSET Nat)
          /\ \A i, j \in DOMAIN e.probes : i # j => e.probes[i] # e.probes[j]
      BY <3>1 DEF Inputs, ExperimentOk
    <3> QED
      BY <3>1, <3>2, ProbesOk
  <2> QED
    BY <2>1, <2>2, <2>3
<1>4. config.max_scenarios # 0
  BY DEF Made, validate
<1> QED
  BY <1>1, <1>2, <1>3, <1>4 DEF RuntimesOk, DependenciesOk, Ranked

\* The entries of a plan: the baseline, a runtime, a dependency candidate, or
\* the combination.
LEMMA PlanEntries ==
  ASSUME NEW budget \in Nat \ {0}, NEW b, NEW rts, NEW deps, List(rts), List(deps),
         NEW i \in DOMAIN plan_scenarios(budget, b, rts, deps)
  PROVE  LET p == plan_scenarios(budget, b, rts, deps) IN
         \/ p[i] = BaselineOf(b, deps)
         \/ \E k \in 1..Len(rts) : p[i] = RuntimeScenario(Sorted(rts)[k], deps)
         \/ \E k \in 1..Len(deps) : p[i] = DependencyScenario(b, Sorted(deps)[k], deps)
         \/ p[i] = Combination(rts, deps)
<1> DEFINE p == plan_scenarios(budget, b, rts, deps)
           s == SingleAxis(b, rts, deps)
           k == Least(Len(s), budget - 1)
           x == Room(s, budget - 1, rts, deps)
<1>1. /\ DOMAIN p = 1..Len(p) /\ Len(p) = IF x THEN k + 2 ELSE k + 1
      /\ k \in Nat /\ k <= Len(s) /\ p[1] = BaselineOf(b, deps)
      /\ \A j \in 1..k : p[1 + j] = s[j]
      /\ x => p[1 + k + 1] = Combination(rts, deps)
  <2>1. PlanShape(p, budget, b, rts, deps)
    BY PlanIs
  <2> HIDE DEF p
  <2> QED
    BY <2>1 DEF PlanShape
<1>2. /\ List(s) /\ Len(s) = Len(rts) + Len(deps)
      /\ \A j \in 1..Len(rts) : s[j] = RuntimeScenario(Sorted(rts)[j], deps)
      /\ \A j \in 1..Len(deps) : s[Len(rts) + j] = DependencyScenario(b, Sorted(deps)[j], deps)
  BY SinglesAre
<1> HIDE DEF p, s, k, x
<1>3. i \in 1..Len(p)
  BY <1>1 DEF p
<1>4. i = 1 \/ i - 1 \in 1..k \/ (x /\ i = 1 + k + 1)
  <2>1. CASE x
    BY <1>1, <1>3, <2>1
  <2>2. CASE ~x
    BY <1>1, <1>3, <2>2
  <2> QED
    BY <2>1, <2>2
<1>5. ASSUME i - 1 \in 1..k
      PROVE  \/ \E j \in 1..Len(rts) : p[i] = RuntimeScenario(Sorted(rts)[j], deps)
             \/ \E j \in 1..Len(deps) : p[i] = DependencyScenario(b, Sorted(deps)[j], deps)
  <2>1. p[i] = s[i - 1]
    <3>1. p[1 + (i - 1)] = s[i - 1]
      BY <1>1, <1>5
    <3>2. 1 + (i - 1) = i
      BY <1>1, <1>3
    <3> QED
      BY <3>1, <3>2
  <2>2. Len(rts) \in Nat /\ Len(deps) \in Nat
    BY DEF List
  <2>3. i - 1 \in 1..(Len(rts) + Len(deps))
    BY <1>1, <1>2, <1>5, <2>2
  <2>4. CASE i - 1 <= Len(rts)
    BY <1>2, <2>1, <2>2, <2>3, <2>4
  <2>5. CASE ~(i - 1 <= Len(rts))
    <3>1. i - 1 - Len(rts) \in 1..Len(deps) /\ Len(rts) + (i - 1 - Len(rts)) = i - 1
      BY <2>2, <2>3, <2>5
    <3> QED
      BY <1>2, <2>1, <3>1
  <2> QED
    BY <2>4, <2>5
<1> QED
  BY <1>1, <1>4, <1>5 DEF p

LEMMA BaselineFirst ==
  ASSUME NEW budget \in Nat \ {0}, NEW b, NEW rts, NEW deps, List(rts), List(deps)
  PROVE  plan_scenarios(budget, b, rts, deps)[1] = BaselineOf(b, deps)
BY PlanIs DEF PlanShape

-----------------------------------------------------------------------------
\* Whatever candidates a bundle records, a dependency scenario of the plan made
\* from them counts as observed only with an exact resolution that starts from
\* the one the plan's observed baseline executed (planner.rs:229).
THEOREM ObservedCorrect == Spec => []ObservedIsBound
<1>1. PlanInv => ObservedIsBound
  <2> SUFFICES ASSUME PlanInv, NEW i \in DOMAIN plan,
                      plan[i].grade = "Observed", "dependencies" \in plan[i].axes
               PROVE  /\ plan[i].resolved # {} /\ plan[i].axes = {"dependencies"}
                      /\ plan[1].grade = "Observed" /\ plan[1].resolved # {}
    BY DEF ObservedIsBound
  <2>1. Inputs /\ Made /\ (dependencies = DependencyCandidates \/ dependencies \in Recorded)
    <3>1. plan # <<>>
      OBVIOUS
    <3> QED
      BY <3>1 DEF PlanInv, Planned
  <2>2. List(runtimes) /\ List(dependencies) /\ config.max_scenarios \in Nat \ {0}
    BY <2>1, MadeOk
  <2>3. plan = plan_scenarios(config.max_scenarios, base, runtimes, dependencies)
    BY <2>1 DEF Made
  <2>4. plan[1] = BaselineOf(base, dependencies)
    BY <2>2, <2>3, BaselineFirst
  <2> DEFINE r == resolved_baseline(dependencies)
  <2> HIDE DEF r
  <2>5. PICK c : plan[i] = DependencyScenario(base, c, dependencies)
    <3>1. \/ plan[i] = BaselineOf(base, dependencies)
          \/ \E k \in 1..Len(runtimes) :
               plan[i] = RuntimeScenario(Sorted(runtimes)[k], dependencies)
          \/ \E k \in 1..Len(dependencies) :
               plan[i] = DependencyScenario(base, Sorted(dependencies)[k], dependencies)
          \/ plan[i] = Combination(runtimes, dependencies)
      BY <2>2, <2>3, PlanEntries
    <3>2. plan[i] # BaselineOf(base, dependencies)
      BY DEF BaselineOf, Scenario
    <3>3. \A d : plan[i] # RuntimeScenario(d, dependencies)
      BY DEF RuntimeScenario, Scenario
    <3>4. plan[i] # Combination(runtimes, dependencies)
      BY DEF Combination, Scenario
    <3> QED
      BY <3>1, <3>2, <3>3, <3>4
  <2>6. BoundTo(c, r) # {}
    <3>1. plan[i].grade = dependency_candidate_binding(c, r).grade
      BY <2>5 DEF DependencyScenario, Scenario, r
    <3> QED
      BY <3>1 DEF dependency_candidate_binding
  <2>7. plan[i].resolved = {s.id : s \in BoundTo(c, r)} /\ plan[i].axes = {"dependencies"}
    BY <2>5 DEF DependencyScenario, Scenario, dependency_candidate_binding, r
  <2>8. r # {}
    BY <2>6 DEF BoundTo
  <2>9. plan[1].grade = "Observed" /\ plan[1].resolved # {}
    BY <2>4, <2>8 DEF BaselineOf, Scenario, r
  <2> QED
    BY <2>6, <2>7, <2>9
<1> QED
  BY <1>1, PlanInvariant, PTL

\* Labels carry no dependency set, and the probes of an experiment all do.
LEMMA Concrete ==
  ASSUME Inputs, dependencies = DependencyCandidates
  PROVE  \/ /\ experiment = {} /\ dependencies = label_candidates(config)
            /\ \A i \in DOMAIN dependencies : dependencies[i].set = NoSet
         \/ /\ experiment # {} /\ 1 \in DOMAIN dependencies
            /\ \A i \in DOMAIN dependencies : \E p :
                 dependencies[i] = ProbeCandidate(p, i)
<1>1. CASE experiment = {}
  <2>1. dependencies = label_candidates(config)
    BY <1>1 DEF DependencyCandidates
  <2>2. /\ DependenciesOk(dependencies)
        /\ \A i \in 1..Len(dependencies) : dependencies[i].set = NoSet
    BY <2>1, LabelsOk
  <2> QED
    BY <1>1, <2>1, <2>2 DEF DependenciesOk, Ranked, List
<1>2. CASE experiment # {}
  <2> DEFINE e == CHOOSE e \in experiment : TRUE
  <2>1. e \in experiment /\ dependencies = probe_candidates(e.probes)
    BY <1>2 DEF DependencyCandidates
  <2> HIDE DEF e
  <2>2. e.probes \in Seq(SUBSET Nat) /\ e.probes # <<>>
    BY <2>1 DEF Inputs, ExperimentOk
  <2>3. 1 \in DOMAIN e.probes
    BY <2>2
  <2> QED
    BY <1>2, <2>1, <2>3 DEF probe_candidates
<1> QED
  BY <1>1, <1>2

\* An explicit list is what the runtimes of the plan are.
LEMMA ExplicitRuntimes ==
  ASSUME Inputs, Planned, NEW versions \in config.versions
  PROVE  /\ detected = "python" /\ runtimes = AscendingRuntimes("py", versions)
         /\ \A i \in DOMAIN versions : versions[i] > base
         /\ versions \in Seq(Nat) /\ Len(runtimes) = Len(versions)
         /\ Len(versions) + 1 <= config.max_scenarios
<1>1. detected = "python"
  BY DEF Planned
<1>2. PICK v \in config.versions :
        runtimes = AscendingRuntimes("py", v) /\ \A i \in DOMAIN v : v[i] > base
  BY <1>1 DEF Planned, Made, adapter_candidates, python_candidates
<1>3. v = versions /\ versions \in Seq(Nat)
  BY PlanningAssumption DEF Inputs
<1>4. /\ Len(versions) + 1 <= config.max_scenarios
      /\ \A i \in 1..(Len(versions) - 1) : versions[i] < versions[i + 1]
  BY DEF Planned, Made, validate, validate_explicit_versions
<1>5. Len(runtimes) = Len(versions)
  BY <1>2, <1>3, <1>4, StepwiseAscending, AscendingRuntimesOk
<1> QED
  BY <1>1, <1>2, <1>3, <1>4, <1>5

\* The verifier's checks of plan and candidates accept what a scan wrote: it
\* derives the same plan and decisions from the recorded candidates
\* (verify_plan_semantics).
THEOREM VerifiesCorrect == Spec => []PlanVerifies
<1>1. PlanInv => PlanVerifies
  <2> SUFFICES ASSUME PlanInv, status = "planned" PROVE verify_plan_semantics
    BY DEF PlanVerifies
  <2>1. Inputs /\ Planned /\ Made /\ dependencies = DependencyCandidates
    BY DEF PlanInv, Planned
  <2>2. DependenciesOk(dependencies)
    BY <2>1, MadeOk
  <2>3. CandidatesOk
    <3>1. \A i, j \in DOMAIN dependencies : i # j => dependencies[i].id # dependencies[j].id
      BY <2>2 DEF DependenciesOk, Ranked, List
    <3>2. ASSUME NEW i \in DOMAIN dependencies, NEW s \in dependencies[i].set
          PROVE  /\ dependencies[i].axis = "dependencies" /\ s.valid
                 /\ dependencies[i].grade = "Observed" /\ dependencies[i].version = s.id
      <4>1. \E p : dependencies[i] = ProbeCandidate(p, i)
        BY <2>1, <3>2, Concrete DEF NoSet
      <4> QED
        BY <3>2, <4>1 DEF ProbeCandidate, DependencySet
    <3> QED
      BY <3>1, <3>2 DEF CandidatesOk
  <2>4. ExplicitRuntimesOk
    <3> SUFFICES ASSUME NEW versions \in config.versions
                 PROVE  /\ detected = "python" /\ Len(versions) = Len(runtimes)
                        /\ \A i \in DOMAIN versions :
                             /\ versions[i] > base
                             /\ runtimes[i] = RuntimeCandidate(<<"py", versions[i]>>,
                                                               versions[i], versions[i])
      BY DEF ExplicitRuntimesOk
    <3> QED
      BY <2>1, ExplicitRuntimes DEF AscendingRuntimes
  <2>5. Adaptive => runtimes = <<>>
    BY <2>1 DEF Planned, Unplannable, Adaptive
  <2> DEFINE concrete == \E i \in DOMAIN dependencies : dependencies[i].set # NoSet
             used == IF concrete THEN dependencies ELSE label_candidates(config)
  <2>6. used = dependencies /\ (concrete => \A i \in DOMAIN dependencies :
                                              dependencies[i].set # NoSet)
    <3>1. CASE experiment = {}
      BY <2>1, <3>1, Concrete
    <3>2. CASE experiment # {}
      <4>1. /\ 1 \in DOMAIN dependencies
            /\ \A i \in DOMAIN dependencies : \E p : dependencies[i] = ProbeCandidate(p, i)
        BY <2>1, <3>2, Concrete
      <4>2. \A p, i : ProbeCandidate(p, i).set # NoSet
        BY DEF ProbeCandidate, DependencySet, NoSet
      <4> QED
        BY <4>1, <4>2
    <3> QED
      BY <3>1, <3>2
  <2> HIDE DEF concrete, used
  <2>7. /\ plan = plan_scenarios(config.max_scenarios, base, runtimes, used)
        /\ decisions = plan_decisions(config.max_scenarios, base, runtimes, used)
    BY <2>1, <2>6 DEF Made
  <2> QED
    BY <2>3, <2>4, <2>5, <2>6, <2>7, Zenon DEF verify_plan_semantics, concrete, used
<1> QED
  BY <1>1, PlanInvariant, PTL

-----------------------------------------------------------------------------
\* The ids of the single-axis scenarios differ and are their candidates'.
LEMMA SinglesDiffer ==
  ASSUME NEW b, NEW rts, NEW deps, RuntimesOk(rts), DependenciesOk(deps)
  PROVE  LET s == SingleAxis(b, rts, deps) IN
         /\ \A i \in 1..Len(s) : s[i].id[1] \in {"py", "node", "rust", "deps", "probe"}
         /\ \A i, j \in 1..Len(s) : i # j => s[i].id # s[j].id
<1> DEFINE s == SingleAxis(b, rts, deps)
           m == Len(rts)
           n == Len(deps)
<1>1. /\ Ranked(rts) /\ List(rts) /\ m \in Nat /\ Ranked(deps) /\ List(deps) /\ n \in Nat
      /\ \A i \in 1..m : rts[i].id[1] \in {"py", "node", "rust"}
      /\ \A i, j \in 1..m : i # j => rts[i].id # rts[j].id
      /\ \A i \in 1..n : deps[i].id[1] \in {"deps", "probe"}
      /\ \A i, j \in 1..n : i # j => deps[i].id # deps[j].id
  BY DEF RuntimesOk, DependenciesOk, Ranked, List
<1>2. /\ Len(s) = m + n
      /\ \A k \in 1..m : s[k] = RuntimeScenario(Sorted(rts)[k], deps)
      /\ \A k \in 1..n : s[m + k] = DependencyScenario(b, Sorted(deps)[k], deps)
  BY <1>1, SinglesAre
<1>3. /\ \A c : RuntimeScenario(c, deps).id = c.id
      /\ \A c : DependencyScenario(b, c, deps).id = c.id
  BY DEF RuntimeScenario, DependencyScenario, Scenario
<1> HIDE DEF s, m, n
<1>4. \A k \in 1..m : s[k].id = Sorted(rts)[k].id /\ s[k].id[1] \in {"py", "node", "rust"}
  <2> TAKE k \in 1..m
  <2>1. PICK i \in 1..m : Sorted(rts)[k] = rts[i]
    BY <1>1, SortedPlace DEF m
  <2>2. s[k].id = Sorted(rts)[k].id
    BY <1>2, <1>3
  <2>3. rts[i].id[1] \in {"py", "node", "rust"}
    BY <1>1
  <2> QED
    BY <2>1, <2>2, <2>3, Zenon
<1>5. \A k \in 1..n : s[m + k].id = Sorted(deps)[k].id /\ s[m + k].id[1] \in {"deps", "probe"}
  <2> TAKE k \in 1..n
  <2>1. PICK i \in 1..n : Sorted(deps)[k] = deps[i]
    BY <1>1, SortedPlace DEF n
  <2>2. s[m + k].id = Sorted(deps)[k].id
    BY <1>2, <1>3
  <2>3. deps[i].id[1] \in {"deps", "probe"}
    BY <1>1
  <2> QED
    BY <2>1, <2>2, <2>3, Zenon
<1>6. \A k, l \in 1..m : k # l => Sorted(rts)[k].id # Sorted(rts)[l].id
  BY <1>1, SortedDistinct DEF m
<1>7. \A k, l \in 1..n : k # l => Sorted(deps)[k].id # Sorted(deps)[l].id
  BY <1>1, SortedDistinct DEF n
<1>8. \A i \in 1..Len(s) : \/ i \in 1..m
                           \/ i - m \in 1..n /\ m + (i - m) = i
  BY <1>1, <1>2
<1>9. \A i \in 1..Len(s) : s[i].id[1] \in {"py", "node", "rust", "deps", "probe"}
  BY <1>4, <1>5, <1>8
<1>10. ASSUME NEW i \in 1..Len(s), NEW j \in 1..Len(s), i # j
       PROVE  s[i].id # s[j].id
  <2>1. CASE i \in 1..m /\ j \in 1..m
    BY <1>4, <1>6, <1>10, <2>1
  <2>2. CASE i \in 1..m /\ j - m \in 1..n /\ m + (j - m) = j
    BY <1>4, <1>5, <2>2
  <2>3. CASE j \in 1..m /\ i - m \in 1..n /\ m + (i - m) = i
    BY <1>4, <1>5, <2>3
  <2>4. CASE i - m \in 1..n /\ m + (i - m) = i /\ j - m \in 1..n /\ m + (j - m) = j
    <3>1. i - m # j - m
      BY <1>10, <2>4
    <3> QED
      BY <1>5, <1>7, <2>4, <3>1
  <2> QED
    BY <1>8, <2>1, <2>2, <2>3, <2>4
<1> QED
  BY <1>9, <1>10 DEF s

\* The runtimes of a plan are in their order already.
LEMMA RuntimeSingles ==
  ASSUME NEW b, NEW rts, NEW deps, RuntimesOk(rts), List(deps), NEW k \in 1..Len(rts)
  PROVE  SingleAxis(b, rts, deps)[k] = RuntimeScenario(rts[k], deps)
<1>1. Ranked(rts) /\ List(rts) /\ \A i, j \in 1..Len(rts) : i < j => rts[i].order < rts[j].order
  BY DEF RuntimesOk, Ranked
<1>2. SingleAxis(b, rts, deps)[k] = RuntimeScenario(Sorted(rts)[k], deps)
  BY <1>1, SinglesAre
<1>3. Sorted(rts)[k] = rts[k]
  BY <1>1, SortedAscending
<1> QED
  BY <1>2, <1>3

LEMMA ExplicitWhole ==
  ASSUME PlanInv PROVE ExplicitNeverTruncated
<1> SUFFICES ASSUME status = "planned", NEW versions \in config.versions,
                    NEW i \in DOMAIN versions
             PROVE  /\ i + 1 \in DOMAIN plan
                    /\ plan[i + 1].runtime = versions[i]
                    /\ plan[i + 1].axes = {"runtime"}
  BY DEF ExplicitNeverTruncated
<1>1. Inputs /\ Planned /\ Made /\ dependencies = DependencyCandidates
  BY DEF PlanInv, Planned
<1>2. /\ RuntimesOk(runtimes) /\ List(runtimes) /\ List(dependencies)
      /\ config.max_scenarios \in Nat \ {0}
  BY <1>1, MadeOk
<1>3. /\ runtimes = AscendingRuntimes("py", versions) /\ versions \in Seq(Nat)
      /\ Len(runtimes) = Len(versions) /\ Len(versions) + 1 <= config.max_scenarios
  BY <1>1, ExplicitRuntimes
<1>4. i \in 1..Len(versions) /\ Len(versions) \in Nat
  BY <1>3
<1> DEFINE s == SingleAxis(base, runtimes, dependencies)
           n == config.max_scenarios - 1
           k == Least(Len(s), n)
<1>5. s[i] = RuntimeScenario(runtimes[i], dependencies)
  BY <1>2, <1>3, <1>4, RuntimeSingles
<1>6. runtimes[i].version = versions[i]
  BY <1>3 DEF AscendingRuntimes, RuntimeCandidate
<1>7. Len(s) = Len(runtimes) + Len(dependencies) /\ Len(dependencies) \in Nat
  BY <1>2, SinglesAre DEF List
<1>8. plan = plan_scenarios(config.max_scenarios, base, runtimes, dependencies)
  BY <1>1 DEF Made
<1>9. /\ DOMAIN plan = 1..Len(plan) /\ Len(plan) \in {k + 1, k + 2}
      /\ k \in Nat /\ k <= Len(s) /\ (k < n => k = Len(s)) /\ k <= n
      /\ \A j \in 1..k : plan[1 + j] = s[j]
  <2>1. PlanShape(plan, config.max_scenarios, base, runtimes, dependencies)
    BY <1>2, <1>8, PlanIs
  <2> QED
    BY <2>1 DEF PlanShape
<1>10. i \in 1..k
  <2>1. n \in Nat /\ Len(versions) <= n /\ Len(versions) <= Len(s) /\ Len(s) \in Nat
    BY <1>2, <1>3, <1>4, <1>7
  <2>2. k \in Nat /\ k <= n /\ (k < n => k = Len(s))
    BY <1>9
  <2> HIDE DEF s, k, n
  <2>3. k < n \/ k = n
    BY <2>1, <2>2
  <2>4. Len(versions) <= k
    BY <2>1, <2>2, <2>3
  <2> QED
    BY <1>4, <2>2, <2>4
<1> HIDE DEF s, k, n
<1>11. i + 1 \in DOMAIN plan /\ 1 + i = i + 1
  <2>1. k \in Nat /\ (Len(plan) = k + 1 \/ Len(plan) = k + 2)
    BY <1>9
  <2>2. i \in Nat /\ 1 <= i /\ i <= k
    BY <1>10, <2>1
  <2>3. DOMAIN plan = 1..Len(plan)
    BY <1>9
  <2>4. i + 1 \in 1..Len(plan) /\ 1 + i = i + 1
    BY <2>1, <2>2
  <2> QED
    BY <2>3, <2>4
<1>12. plan[i + 1] = s[i]
  BY <1>9, <1>10, <1>11
<1> QED
  BY <1>5, <1>6, <1>11, <1>12 DEF RuntimeScenario, Scenario

LEMMA BudgetUsed ==
  ASSUME PlanInv PROVE BudgetIsUsed
<1> SUFFICES ASSUME status \in {"planned", "replanned"}
             PROVE  /\ Len(plan) <= config.max_scenarios
                    /\ \A i \in DOMAIN decisions :
                         /\ decisions[i].selected
                              <=> \E j \in DOMAIN plan : plan[j].id = decisions[i].id
                         /\ ~decisions[i].selected => Len(plan) = config.max_scenarios
  BY DEF BudgetIsUsed
<1>1. Inputs /\ Made /\ (dependencies = DependencyCandidates \/ dependencies \in Recorded)
  BY DEF PlanInv, Planned
<1>2. /\ RuntimesOk(runtimes) /\ DependenciesOk(dependencies)
      /\ List(runtimes) /\ List(dependencies) /\ config.max_scenarios \in Nat \ {0}
  BY <1>1, MadeOk
<1> DEFINE s == SingleAxis(base, runtimes, dependencies)
           n == config.max_scenarios - 1
           k == Least(Len(s), n)
           x == Room(s, n, runtimes, dependencies)
<1>3. /\ plan = plan_scenarios(config.max_scenarios, base, runtimes, dependencies)
      /\ decisions = plan_decisions(config.max_scenarios, base, runtimes, dependencies)
  BY <1>1 DEF Made
<1>4. /\ DOMAIN plan = 1..Len(plan) /\ Len(plan) = (IF x THEN k + 2 ELSE k + 1)
      /\ k \in Nat /\ k <= Len(s) /\ k <= n /\ (k < n => k = Len(s))
      /\ plan[1] = BaselineOf(base, dependencies)
      /\ \A j \in 1..k : plan[1 + j] = s[j]
      /\ x => plan[1 + k + 1] = Combination(runtimes, dependencies)
  <2>1. PlanShape(plan, config.max_scenarios, base, runtimes, dependencies)
    BY <1>2, <1>3, PlanIs
  <2> QED
    BY <2>1 DEF PlanShape
<1>5. List(s) /\ Len(s) \in Nat
  BY <1>2, SinglesAre DEF List
<1>6. /\ \A i \in 1..Len(s) : s[i].id[1] \in {"py", "node", "rust", "deps", "probe"}
      /\ \A i, j \in 1..Len(s) : i # j => s[i].id # s[j].id
  BY <1>2, SinglesDiffer
<1>7. Slots(config.max_scenarios) = n /\ n \in Nat /\ config.max_scenarios = n + 1
  BY <1>2 DEF Slots
<1>8. decisions = [i \in DOMAIN s |-> [id |-> s[i].id, selected |-> i <= n]]
  BY <1>3, <1>7 DEF plan_decisions
<1> HIDE DEF s, k, n, x
<1>9. /\ DOMAIN decisions = 1..Len(s)
      /\ \A i \in 1..Len(s) : decisions[i].id = s[i].id /\ (decisions[i].selected <=> i <= n)
  <2>1. DOMAIN s = 1..Len(s)
    BY <1>5 DEF List
  <2> QED
    BY <1>8, <2>1
<1>10. Len(plan) \in {k + 1, k + 2} /\ (x => k = Len(s) /\ Len(plan) = k + 2 /\ Len(s) < n)
       /\ (~x => Len(plan) = k + 1)
  <2>1. CASE x
    <3>1. Len(plan) = k + 2
      BY <1>4, <2>1
    <3>2. Len(s) < n
      BY <2>1 DEF x, Room
    <3> QED
      BY <1>4, <1>5, <1>7, <2>1, <3>1, <3>2
  <2>2. CASE ~x
    BY <1>4, <2>2
  <2> QED
    BY <2>1, <2>2
<1>11. Len(plan) <= config.max_scenarios
  BY <1>4, <1>5, <1>7, <1>10
<1>12. plan[1].id[1] = "baseline" /\ (x => plan[1 + k + 1].id[1] = "combo")
  BY <1>4 DEF BaselineOf, BaselineId, Combination, Scenario
<1>13. ASSUME NEW i \in 1..Len(s), i <= n
       PROVE  \E j \in DOMAIN plan : plan[j].id = s[i].id
  <2>1. i \in 1..k
    BY <1>4, <1>5, <1>7, <1>13
  <2>2. 1 + i \in DOMAIN plan /\ plan[1 + i] = s[i]
    BY <1>4, <1>10, <2>1
  <2> QED
    BY <2>2
<1>14. ASSUME NEW i \in 1..Len(s), NEW j \in DOMAIN plan, plan[j].id = s[i].id
       PROVE  i <= n
  <2>1. j = 1 \/ j - 1 \in 1..k \/ (x /\ j = 1 + k + 1)
    BY <1>4, <1>10
  <2>2. s[i].id[1] # "baseline" /\ s[i].id[1] # "combo"
    BY <1>6
  <2>3. j # 1 /\ ~(x /\ j = 1 + k + 1)
    BY <1>12, <1>14, <2>2
  <2>4. j - 1 \in 1..k /\ 1 + (j - 1) = j
    BY <1>4, <2>1, <2>3
  <2>5. plan[j] = s[j - 1] /\ j - 1 \in 1..Len(s)
    BY <1>4, <1>5, <2>4
  <2>6. i = j - 1
    BY <1>6, <1>14, <2>5
  <2> QED
    BY <1>4, <1>7, <2>4, <2>6
<1>15. ASSUME NEW i \in 1..Len(s), ~(i <= n)
       PROVE  Len(plan) = config.max_scenarios
  <2>1. k = n /\ ~(Len(s) < n)
    BY <1>4, <1>5, <1>7, <1>15
  <2> QED
    BY <1>7, <1>10, <2>1
<1> QED
  BY <1>9, <1>11, <1>13, <1>14, <1>15

\* A candidate is recorded as selected exactly if its scenario is planned, none
\* is left out before the budget is spent, and an explicit list of runtimes is
\* planned whole and in its order, whatever the configuration and the number of
\* candidates (plan_scenarios, validate).
THEOREM CompleteCorrect == Spec => []PlanIsComplete
<1>1. PlanInv => PlanIsComplete
  BY ExplicitWhole, BudgetUsed DEF PlanIsComplete
<1> QED
  BY <1>1, PlanInvariant, PTL

-----------------------------------------------------------------------------
\* The probes of an experiment share its baseline.
LEMMA ProbeBaseline ==
  ASSUME NEW probes \in Seq(SUBSET Nat), probes # <<>>
  PROVE  resolved_baseline(probe_candidates(probes)) = {{}}
<1> DEFINE deps == probe_candidates(probes)
           baselines == {s.baseline : s \in ValidSets(deps)}
<1>1. 1 \in DOMAIN probes /\ DOMAIN deps = DOMAIN probes
  BY DEF probe_candidates
<1>2. \A i \in DOMAIN deps : deps[i].set = DependencySet(probes[i], {}, TRUE)
  BY DEF probe_candidates, ProbeCandidate
<1> HIDE DEF deps
<1>3. \A p : /\ \A s \in DependencySet(p, {}, TRUE) : s.valid /\ s.baseline = {}
             /\ DependencySet(p, {}, TRUE) # {}
  BY DEF DependencySet
<1>4. ASSUME NEW s \in ValidSets(deps)
      PROVE  s.baseline = {}
  <2>1. PICK i \in DOMAIN deps : s \in deps[i].set
    BY DEF ValidSets
  <2>2. s \in DependencySet(probes[i], {}, TRUE)
    BY <1>2, <2>1
  <2> QED
    BY <1>3, <2>2
<1>5. ValidSets(deps) # {}
  <2>1. PICK s : s \in DependencySet(probes[1], {}, TRUE)
    BY <1>3
  <2>2. s \in deps[1].set /\ s.valid
    BY <1>1, <1>2, <1>3, <2>1
  <2> QED
    BY <1>1, <2>2 DEF ValidSets
<1>6. baselines = {{}}
  BY <1>4, <1>5
<1>7. Cardinality(baselines) = 1
  BY <1>6, FS_Singleton
<1>8. resolved_baseline(deps) = {{}}
  BY <1>6, <1>7 DEF resolved_baseline
<1> QED
  BY <1>8 DEF deps

\* The plan of an experiment's probes: in their order, as many as fit.
ProbeEntry(b, q, i) ==
  LET d == dependency_candidate_binding(ProbeCandidate(q, i), {{}})
  IN  Scenario(<<"probe", q>>, b, {"dependencies"}, d.grade, d.resolved)

ProbePlanShape(p, budget, b, probes) ==
  LET k == Least(Len(probes), budget - 1) IN
  /\ Entries(p, k + 1) /\ Len(p) = k + 1 /\ k \in Nat
  /\ p[1] = Scenario(BaselineId, b, {}, "Observed", {{}})
  /\ \A i \in 1..k : p[1 + i] = ProbeEntry(b, probes[i], i)

LEMMA ProbePlan ==
  ASSUME NEW budget \in Nat \ {0}, NEW b, NEW probes \in Seq(SUBSET Nat), probes # <<>>,
         \A i, j \in DOMAIN probes : i # j => probes[i] # probes[j]
  PROVE  ProbePlanShape(plan_scenarios(budget, b, <<>>, probe_candidates(probes)),
                        budget, b, probes)
<1> DEFINE deps == probe_candidates(probes)
           s == SingleAxis(b, <<>>, deps)
           k == Least(Len(probes), budget - 1)
           p == plan_scenarios(budget, b, <<>>, deps)
<1>1. /\ DependenciesOk(deps) /\ Len(deps) = Len(probes)
      /\ \A i, j \in 1..Len(deps) : i < j => deps[i].order < deps[j].order
      /\ \A i \in 1..Len(deps) : deps[i] = ProbeCandidate(probes[i], i)
  BY ProbesOk
<1>2. List(<<>>) /\ Len(<<>>) = 0
  BY DEF List
<1>3. Ranked(deps) /\ List(deps) /\ Len(deps) \in Nat
  BY <1>1 DEF DependenciesOk, Ranked, List
<1>0. resolved_baseline(deps) = {{}}
  BY ProbeBaseline
<1> HIDE DEF deps
<1>4. /\ Len(s) = 0 + Len(deps)
      /\ \A i \in 1..Len(deps) : s[0 + i] = DependencyScenario(b, Sorted(deps)[i], deps)
  BY <1>2, <1>3, SinglesAre
<1>5. \A i \in 1..Len(deps) : Sorted(deps)[i] = deps[i]
  BY <1>1, <1>3, SortedAscending
<1>6. PlanShape(p, budget, b, <<>>, deps)
  BY <1>2, <1>3, PlanIs
<1> HIDE DEF p
<1>7. ~Room(s, budget - 1, <<>>, deps)
  BY DEF Room
<1>8. Len(s) = Len(probes)
  BY <1>1, <1>3, <1>4
<1>9. /\ Entries(p, Len(p)) /\ Len(p) = k + 1 /\ k \in Nat /\ k <= Len(s)
      /\ p[1] = BaselineOf(b, deps)
      /\ \A i \in 1..k : p[1 + i] = s[i]
  <2> HIDE DEF s
  <2>1. k = Least(Len(s), budget - 1)
    BY <1>8
  <2> HIDE DEF k
  <2> QED
    BY <1>6, <1>7, <2>1 DEF PlanShape, s
<1>10. p[1] = Scenario(BaselineId, b, {}, "Observed", {{}})
  <2>1. {{}} # {}
    OBVIOUS
  <2> QED
    BY <1>0, <1>9, <2>1 DEF BaselineOf
<1>11. ASSUME NEW i \in 1..k
       PROVE  p[1 + i] = ProbeEntry(b, probes[i], i)
  <2> HIDE DEF s, k
  <2>1. i \in 1..Len(deps) /\ 0 + i = i
    BY <1>1, <1>3, <1>8, <1>9
  <2>2. p[1 + i] = DependencyScenario(b, ProbeCandidate(probes[i], i), deps)
    BY <1>1, <1>4, <1>5, <1>9, <2>1
  <2>3. ProbeCandidate(probes[i], i).id = <<"probe", probes[i]>>
    BY DEF ProbeCandidate
  <2> QED
    BY <1>0, <2>2, <2>3, Zenon DEF DependencyScenario, ProbeEntry
<1>12. Entries(p, k + 1)
  BY <1>9
<1>13. ProbePlanShape(p, budget, b, probes)
  BY <1>9, <1>10, <1>11, <1>12 DEF ProbePlanShape
<1> QED
  BY <1>13 DEF p, deps

\* Planning again for another probe of an adaptive experiment keeps every
\* planned scenario in its place, so what is recorded of them stays theirs
\* (orchestrate.rs:278).
THEOREM ExtendedCorrect == Spec => PlanIsExtended
<1>1. ASSUME PlanInv, [Next]_vars
      PROVE  [status = "planned" =>
                Len(plan') >= Len(plan) /\ SubSeq(plan', 1, Len(plan)) = plan]_vars
  <2> SUFFICES ASSUME Next, status = "planned"
               PROVE  Len(plan') >= Len(plan) /\ SubSeq(plan', 1, Len(plan)) = plan
    BY <1>1
  <2>1. ExtendPlan
    BY DEF Next, Plan, Refuse, Replan
  <2>2. Planned /\ Inputs /\ Made /\ dependencies = DependencyCandidates
    BY <1>1 DEF PlanInv, Planned
  <2>3. PICK e \in experiment :
          /\ experiment' = {[e EXCEPT !.probes = Append(@, {Len(e.probes) + 1})]}
          /\ MakePlan(runtimes, probe_candidates(Append(e.probes, {Len(e.probes) + 1})))
    BY <2>1 DEF ExtendPlan
  <2> DEFINE budget == config.max_scenarios
             probes == e.probes
             more == Append(e.probes, {Len(e.probes) + 1})
  <2>4. /\ e \in [schema : {1, 2}, probes : Seq(SUBSET Nat)] /\ e.schema = 2
        /\ probes # <<>> /\ experiment = {e}
        /\ \A i, j \in DOMAIN probes : i # j => probes[i] # probes[j]
    <3>1. Adaptive
      BY <2>1 DEF ExtendPlan
    <3> QED
      BY <2>2, <2>3, <3>1 DEF Inputs, ExperimentOk, Adaptive
  <2>5. ExperimentOk(experiment')
    BY <2>2, <2>3, <2>4, NextProbe DEF Inputs
  <2>6. runtimes = <<>>
    BY <2>2, <2>4 DEF Planned, Unplannable
  <2>7. budget \in Nat \ {0}
    BY <2>2, MadeOk
  <2>8. plan = plan_scenarios(budget, base, <<>>, probe_candidates(probes))
    <3>1. dependencies = probe_candidates(probes)
      BY <2>2, <2>4 DEF DependencyCandidates
    <3> QED
      BY <2>2, <2>6, <3>1 DEF Made
  <2>9. plan' = plan_scenarios(budget, base, <<>>, probe_candidates(more))
    BY <2>3, <2>6 DEF MakePlan
  <2>10. probes \in Seq(SUBSET Nat) /\ Len(probes) \in Nat
    BY <2>4
  <2>11. /\ more \in Seq(SUBSET Nat) /\ more # <<>> /\ Len(more) = Len(probes) + 1
         /\ \A i \in 1..Len(probes) : more[i] = probes[i]
    <3>1. {Len(e.probes) + 1} \in SUBSET Nat
      BY <2>10
    <3> QED
      BY <2>10, <3>1, AppendProperties
  <2>12. \A i, j \in DOMAIN more : i # j => more[i] # more[j]
    <3> DEFINE f == [e EXCEPT !.probes = more]
    <3>1. f \in experiment' /\ f.probes = more
      BY <2>3, <2>4
    <3> HIDE DEF f, more
    <3> QED
      BY <2>5, <3>1 DEF ExperimentOk
  <2> DEFINE k == Least(Len(probes), budget - 1)
             l == Least(Len(more), budget - 1)
             first == Scenario(BaselineId, base, {}, "Observed", {{}})
  <2> HIDE DEF budget, probes, more
  <2>13. ProbePlanShape(plan, budget, base, probes)
    BY <2>4, <2>7, <2>8, <2>10, ProbePlan
  <2>14. /\ Entries(plan, k + 1) /\ Len(plan) = k + 1 /\ k \in Nat /\ plan[1] = first
         /\ \A i \in 1..k : plan[1 + i] = ProbeEntry(base, probes[i], i)
    BY <2>13 DEF ProbePlanShape
  <2>15. ProbePlanShape(plan', budget, base, more)
    BY <2>7, <2>9, <2>11, <2>12, ProbePlan
  <2>16. /\ Entries(plan', l + 1) /\ Len(plan') = l + 1 /\ l \in Nat /\ plan'[1] = first
         /\ \A i \in 1..l : plan'[1 + i] = ProbeEntry(base, more[i], i)
    BY <2>15 DEF ProbePlanShape
  <2>17. k <= l /\ k <= Len(probes)
    BY <2>7, <2>10, <2>11 DEF Least
  <2> HIDE DEF k, l, first
  <2>18. ASSUME NEW i \in 1..(k + 1)
         PROVE  plan'[i] = plan[i]
    <3>1. CASE i = 1
      BY <2>14, <2>16, <3>1
    <3>2. CASE i # 1
      <4>1. i - 1 \in 1..k /\ i - 1 \in 1..l /\ i - 1 \in 1..Len(probes) /\ 1 + (i - 1) = i
        BY <2>10, <2>14, <2>16, <2>17, <3>2
      <4>2. plan[1 + (i - 1)] = ProbeEntry(base, probes[i - 1], i - 1)
        BY <2>14, <4>1
      <4>3. plan'[1 + (i - 1)] = ProbeEntry(base, more[i - 1], i - 1)
        BY <2>16, <4>1
      <4>4. more[i - 1] = probes[i - 1]
        BY <2>11, <4>1
      <4> QED
        BY <4>1, <4>2, <4>3, <4>4
    <3> QED
      BY <3>1, <3>2
  <2>19. SubSeq(plan', 1, k + 1) = [i \in 1..(k + 1) |-> plan'[i]]
    BY <2>14, <2>16, <2>17
  <2>20. plan = [i \in 1..(k + 1) |-> plan[i]]
    BY <2>14 DEF Entries
  <2>21. SubSeq(plan', 1, k + 1) = plan
    BY <2>18, <2>19, <2>20
  <2> QED
    BY <2>14, <2>16, <2>17, <2>21
<1> QED
  BY <1>1, PlanInvariant, PTL DEF Spec, PlanIsExtended
=============================================================================
