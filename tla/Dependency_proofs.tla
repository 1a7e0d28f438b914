---------------------------- MODULE Dependency_proofs ----------------------------
(***************************************************************************)
(* Dependency experiments with any number of changes, any budget and        *)
(* either schema.                                                           *)
(***************************************************************************)
EXTENDS AdaptiveScan, DependencyExperiment, FiniteSetTheorems, SequenceTheorems,
  WellFoundedInduction, TLAPS

-----------------------------------------------------------------------------
(* The order of the subsets: by size, then by the least change in which two *)
(* of one size differ.                                                      *)

\* A nonempty set of naturals has a least element.
LEMMA LeastElement ==
  ASSUME NEW S \in SUBSET Nat, S # {}
  PROVE  \E x \in S : \A y \in S : x <= y
<1>1. PICK x \in S : \A y \in S : <<y, x>> \notin OpToRel(<, Nat)
  BY NatLessThanWellFounded, WFMin
<1>2. \A y \in S : ~(y < x)
  BY <1>1, Zenon DEF OpToRel
<1> QED
  BY <1>2

LEMMA LeastIs ==
  ASSUME NEW S \in SUBSET Nat, S # {}
  PROVE  Least(S) \in S /\ \A d \in S : Least(S) <= d
BY LeastElement DEF Least

LEMMA FirstOfLeast ==
  ASSUME NEW S \in SUBSET Nat, S # {}
  PROVE  FirstOf(S) \in S /\ \A j \in S : FirstOf(S) <= j
BY LeastElement DEF FirstOf

LEMMA SubsetSize ==
  ASSUME NEW S \in SUBSET Changes
  PROVE  S \in SUBSET Nat /\ IsFiniteSet(S) /\ Cardinality(S) \in Nat
BY ChangesAssumption, FS_Subset, FS_CardinalityType

Differ(S, T) == (S \ T) \cup (T \ S)

\* The least change in which two sets differ.
LEMMA DifferAt ==
  ASSUME NEW S \in SUBSET Nat, NEW T \in SUBSET Nat, S # T
  PROVE  /\ Least(Differ(S, T)) \in Differ(S, T)
         /\ \A d \in Differ(S, T) : Least(Differ(S, T)) <= d
         /\ Differ(T, S) = Differ(S, T)
<1>1. Differ(S, T) \in SUBSET Nat /\ Differ(S, T) # {} /\ Differ(T, S) = Differ(S, T)
  BY DEF Differ
<1> QED
  BY <1>1, LeastIs

LEMMA BeforeIs ==
  ASSUME NEW S, NEW T
  PROVE  Before(S, T) <=>
           \/ Cardinality(S) < Cardinality(T)
           \/ Cardinality(S) = Cardinality(T) /\ S # T /\ Least(Differ(S, T)) \in S
BY DEF Before, Differ

LEMMA BeforeTotal ==
  ASSUME NEW S \in SUBSET Changes, NEW T \in SUBSET Changes, S # T
  PROVE  Before(S, T) <=> ~Before(T, S)
<1>1. /\ S \in SUBSET Nat /\ Cardinality(S) \in Nat
      /\ T \in SUBSET Nat /\ Cardinality(T) \in Nat
  BY SubsetSize
<1>2. Least(Differ(S, T)) \in Differ(S, T) /\ Differ(T, S) = Differ(S, T)
  BY <1>1, DifferAt
<1>3. Least(Differ(S, T)) \in S <=> Least(Differ(T, S)) \notin T
  BY <1>2 DEF Differ
<1> QED
  BY <1>1, <1>3, BeforeIs

LEMMA BeforeSelf ==
  ASSUME NEW S \in SUBSET Changes
  PROVE  ~Before(S, S)
BY SubsetSize, BeforeIs

\* Sets of one size: where the first two differ, or where the last two do.
LEMMA BeforeMiddle ==
  ASSUME NEW S \in SUBSET Nat, NEW T \in SUBSET Nat, NEW U \in SUBSET Nat, S # T, T # U,
         Least(Differ(S, T)) \in S, Least(Differ(T, U)) \in T
  PROVE  S # U /\ Least(Differ(S, U)) \in S
<1> DEFINE a == Least(Differ(S, T))
           b == Least(Differ(T, U))
           c == IF a < b THEN a ELSE b
<1>1. /\ a \in Differ(S, T) /\ \A d \in Differ(S, T) : a <= d
      /\ b \in Differ(T, U) /\ \A d \in Differ(T, U) : b <= d
  BY DifferAt
<1>2. a \in S /\ b \in T /\ a \notin T /\ b \notin U /\ a \in Nat /\ b \in Nat
  BY <1>1 DEF Differ
<1> HIDE DEF a, b
<1>3. c \in S \ U /\ c \in Nat
  <2>1. CASE a < b
    <3>1. a \notin Differ(T, U)
      BY <1>1, <1>2, <2>1
    <3> QED
      BY <1>2, <2>1, <3>1 DEF Differ
  <2>2. CASE b < a
    <3>1. b \notin Differ(S, T)
      BY <1>1, <1>2, <2>2
    <3> QED
      BY <1>2, <2>2, <3>1 DEF Differ
  <2> QED
    BY <1>2, <2>1, <2>2
<1>4. \A d \in Differ(S, U) : d \in Differ(S, T) \/ d \in Differ(T, U)
  BY DEF Differ
<1>5. \A d \in Differ(S, U) : c <= d /\ d \in Nat
  <2> TAKE d \in Differ(S, U)
  <2>1. d \in Nat
    BY DEF Differ
  <2>2. a <= d \/ b <= d
    BY <1>1, <1>4
  <2> QED
    BY <1>2, <2>1, <2>2
<1>6. S # U /\ c \in Differ(S, U)
  BY <1>3 DEF Differ
<1> HIDE DEF c
<1>7. Least(Differ(S, U)) \in Differ(S, U) /\ Least(Differ(S, U)) <= c
  BY <1>6, DifferAt
<1>8. Least(Differ(S, U)) = c
  BY <1>3, <1>5, <1>7
<1> QED
  BY <1>3, <1>6, <1>8

LEMMA BeforeTransitive ==
  ASSUME NEW S \in SUBSET Changes, NEW T \in SUBSET Changes, NEW U \in SUBSET Changes,
         Before(S, T), Before(T, U)
  PROVE  Before(S, U)
<1>1. /\ S \in SUBSET Nat /\ Cardinality(S) \in Nat
      /\ T \in SUBSET Nat /\ Cardinality(T) \in Nat
      /\ U \in SUBSET Nat /\ Cardinality(U) \in Nat
  BY SubsetSize
<1>2. CASE Cardinality(S) < Cardinality(T) \/ Cardinality(T) < Cardinality(U)
  <2>1. Cardinality(S) <= Cardinality(T) /\ Cardinality(T) <= Cardinality(U)
    BY <1>1, BeforeIs
  <2>2. Cardinality(S) < Cardinality(U)
    BY <1>1, <1>2, <2>1
  <2> QED
    BY <2>2, BeforeIs
<1>3. CASE Cardinality(S) = Cardinality(T) /\ Cardinality(T) = Cardinality(U)
  <2>1. /\ S # T /\ Least(Differ(S, T)) \in S
        /\ T # U /\ Least(Differ(T, U)) \in T
    BY <1>1, <1>3, BeforeIs
  <2>2. S # U /\ Least(Differ(S, U)) \in S
    BY <1>1, <2>1, BeforeMiddle
  <2> QED
    BY <1>3, <2>2, BeforeIs
<1> QED
  BY <1>1, <1>2, <1>3, BeforeIs

-----------------------------------------------------------------------------
(* The least of a family of subsets. *)

Lower(F, S) == {T \in F : Before(T, S)}

LEMMA LowerFinite ==
  ASSUME NEW F \in SUBSET SUBSET Changes, NEW S \in SUBSET Changes
  PROVE  IsFiniteSet(F) /\ IsFiniteSet(Lower(F, S)) /\ Cardinality(Lower(F, S)) \in Nat
<1>1. IsFiniteSet(SUBSET Changes)
  BY ChangesAssumption, FS_SUBSET
<1>2. IsFiniteSet(F)
  BY <1>1, FS_Subset
<1>3. Lower(F, S) \in SUBSET F
  BY DEF Lower
<1> QED
  BY <1>2, <1>3, FS_Subset, FS_CardinalityType

LEMMA LowerGrows ==
  ASSUME NEW F \in SUBSET SUBSET Changes, NEW S \in F, NEW T \in SUBSET Changes, Before(S, T)
  PROVE  Cardinality(Lower(F, S)) < Cardinality(Lower(F, T))
<1>1. Lower(F, S) \in SUBSET Lower(F, T)
  BY BeforeTransitive DEF Lower
<1>2. S \in Lower(F, T) /\ S \notin Lower(F, S)
  BY BeforeSelf DEF Lower
<1>3. /\ IsFiniteSet(Lower(F, T)) /\ Cardinality(Lower(F, T)) \in Nat
      /\ Cardinality(Lower(F, S)) \in Nat
  BY LowerFinite
<1>4. /\ Cardinality(Lower(F, S)) <= Cardinality(Lower(F, T))
      /\ Cardinality(Lower(F, T)) = Cardinality(Lower(F, S)) => Lower(F, T) = Lower(F, S)
  BY <1>1, <1>3, FS_Subset
<1> QED
  BY <1>2, <1>3, <1>4

\* Smallest names the one member that is before all others.
LEMMA SmallestIs ==
  ASSUME NEW F \in SUBSET SUBSET Changes, F # {}
  PROVE  Smallest(F) \in F /\ \A T \in F : Smallest(F) = T \/ Before(Smallest(F), T)
<1> DEFINE sizes == {Cardinality(Lower(F, S)) : S \in F}
<1>1. sizes \in SUBSET Nat /\ sizes # {}
  BY LowerFinite
<1>2. PICK n \in sizes : \A m \in sizes : n <= m
  <2> HIDE DEF sizes
  <2> QED
    BY <1>1, LeastElement
<1>3. PICK S \in F : n = Cardinality(Lower(F, S))
  BY <1>2
<1>4. ASSUME NEW T \in F, S # T
      PROVE  Before(S, T)
  <2> SUFFICES ASSUME Before(T, S) PROVE FALSE
    BY <1>4, BeforeTotal
  <2>1. Cardinality(Lower(F, T)) < Cardinality(Lower(F, S))
    BY LowerGrows
  <2>2. Cardinality(Lower(F, S)) <= Cardinality(Lower(F, T))
    BY <1>2, <1>3
  <2> QED
    BY <2>1, <2>2, LowerFinite
<1> QED
  BY <1>4 DEF Smallest

\* No member is before the smallest, and there is no other such member.
LEMMA SmallestOnly ==
  ASSUME NEW F \in SUBSET SUBSET Changes, NEW S \in F, \A T \in F : ~Before(T, S)
  PROVE  S = Smallest(F)
<1>1. Smallest(F) \in F /\ (Smallest(F) = S \/ Before(Smallest(F), S))
  BY SmallestIs
<1> QED
  BY <1>1

-----------------------------------------------------------------------------
(* The plan of a sequence of probes: the baseline, and then as many of them *)
(* as the budget leaves room for, each bound to its exact resolution.       *)

Lesser(m, n) == IF m <= n THEN m ELSE n

Slot == MaxScenarios - 1

Probes == {ps \in Seq((SUBSET Changes) \ {{}}) : ps # <<>>}

LEMMA SlotType == Slot \in Nat /\ Slots(MaxScenarios) = Slot /\ MaxScenarios = Slot + 1
BY VerifierAssumption DEF Slot, Slots

\* Candidates in the order of their keys stay where they are.
LEMMA SortedProbes ==
  ASSUME NEW ps, DOMAIN ps = 1..Len(ps), Len(ps) \in Nat
  PROVE  Sorted(probe_candidates(ps)) = probe_candidates(ps)
<1> DEFINE c == probe_candidates(ps)
           S == 1..Len(ps)
           before(i, j) == \/ c[i].order < c[j].order
                           \/ c[i].order = c[j].order /\ i < j
           rank(i) == 1 + Cardinality({j \in S : before(j, i)})
<1>1. DOMAIN c = S /\ c = [i \in S |-> c[i]]
  BY DEF probe_candidates
<1>2. \A i \in S : c[i].order = i
  BY DEF probe_candidates, ProbeCandidate
<1>3. ASSUME NEW i \in S
      PROVE  rank(i) = i
  <2>1. {j \in S : before(j, i)} = 1..(i - 1)
    <3> HIDE DEF c
    <3> QED
      BY <1>2
  <2>2. Cardinality(1..(i - 1)) = i - 1
    BY FS_Interval
  <2>3. Cardinality({j \in S : before(j, i)}) = i - 1
    BY <2>1, <2>2, Zenon
  <2> QED
    BY <2>3
<1>4. Sorted(c) = [k \in S |-> c[CHOOSE i \in S : rank(i) = k]]
  BY <1>1 DEF Sorted
<1> HIDE DEF rank
<1>5. ASSUME NEW k \in S
      PROVE  c[CHOOSE i \in S : rank(i) = k] = c[k]
  <2>1. (CHOOSE i \in S : rank(i) = k) = k
    BY <1>3
  <2> QED
    BY <2>1
<1> HIDE DEF c
<1>6. Sorted(c) = [k \in S |-> c[k]]
  BY <1>4, <1>5
<1> QED
  BY <1>1, <1>6 DEF c

\* The probes of an experiment share its baseline set.
LEMMA ProbeBaseline ==
  ASSUME NEW ps \in Probes
  PROVE  resolved_baseline(probe_candidates(ps)) = {{}}
<1> DEFINE deps == probe_candidates(ps)
           baselines == {s.baseline : s \in ValidSets(deps)}
<1>1. 1 \in DOMAIN deps
  BY DEF probe_candidates, Probes
<1>2. \A i \in DOMAIN deps : deps[i].set = DependencySet(ps[i], {}, TRUE)
  BY DEF probe_candidates, ProbeCandidate
<1> HIDE DEF deps
<1>3. \A p : /\ \A s \in DependencySet(p, {}, TRUE) : s.valid /\ s.baseline = {}
             /\ DependencySet(p, {}, TRUE) # {}
  BY DEF DependencySet
<1>4. ASSUME NEW s \in ValidSets(deps)
      PROVE  s.baseline = {}
  <2>1. PICK i \in DOMAIN deps : s \in deps[i].set
    BY DEF ValidSets
  <2>2. s \in DependencySet(ps[i], {}, TRUE)
    BY <1>2, <2>1
  <2> QED
    BY <1>3, <2>2
<1>5. ValidSets(deps) # {}
  <2>1. PICK s : s \in DependencySet(ps[1], {}, TRUE)
    BY <1>3
  <2>2. s \in deps[1].set /\ s.valid
    BY <1>1, <1>2, <1>3, <2>1
  <2> QED
    BY <1>1, <2>2 DEF ValidSets
<1>6. baselines = {{}}
  BY <1>4, <1>5
<1>7. Cardinality(baselines) = 1
  BY <1>6, FS_Singleton
<1>8. resolved_baseline(deps) = {{}}
  BY <1>6, <1>7 DEF resolved_baseline
<1> QED
  BY <1>8 DEF deps

PlannedBaseline == Scenario(BaselineId, 0, {}, "Observed", {{}})
PlannedProbe(S) == Scenario(<<"probe", S>>, 0, {"dependencies"}, "Observed", {S})

\* What the planner makes of one probe.
LEMMA ProbeBound ==
  ASSUME NEW S, NEW i
  PROVE  LET d == dependency_candidate_binding(ProbeCandidate(S, i), {{}})
         IN  d.grade = "Observed" /\ d.resolved = {S}
<1> DEFINE c == ProbeCandidate(S, i)
           x == [id |-> S, baseline |-> {}, valid |-> TRUE]
<1>1. c.axis = "dependencies" /\ c.set = {x} /\ c.grade = "Observed"
  BY DEF ProbeCandidate, DependencySet
<1>2. x.valid /\ x.baseline = {} /\ x.id = S
  OBVIOUS
<1> HIDE DEF c, x
<1>3. BoundTo(c, {{}}) = {x}
  BY <1>1, <1>2 DEF BoundTo
<1>4. {s.id : s \in BoundTo(c, {{}})} = {S}
  BY <1>2, <1>3
<1>5. /\ dependency_candidate_binding(c, {{}}).grade = "Observed"
      /\ dependency_candidate_binding(c, {{}}).resolved = {S}
  BY <1>1, <1>3, <1>4 DEF dependency_candidate_binding
<1> QED
  BY <1>5 DEF c

LEMMA PlanIs ==
  ASSUME NEW ps \in Probes
  PROVE  /\ Len(PlanOf(ps)) = 1 + Lesser(Len(ps), Slot)
         /\ DOMAIN PlanOf(ps) = 1..(1 + Lesser(Len(ps), Slot))
         /\ PlanOf(ps)[1] = PlannedBaseline
         /\ \A i \in 1..Lesser(Len(ps), Slot) : PlanOf(ps)[i + 1] = PlannedProbe(ps[i])
<1> DEFINE n == Len(ps)
           k == Lesser(n, Slot)
           deps == probe_candidates(ps)
           dep(c) == LET b == dependency_candidate_binding(c, {{}})
                     IN  Scenario(c.id, 0, {"dependencies"}, b.grade, b.resolved)
           P == {PlannedProbe(ps[i]) : i \in 1..n}
           f == [i \in 1..n |-> PlannedProbe(ps[i])]
<1>1. n \in Nat /\ DOMAIN ps = 1..n /\ n # 0
  BY DEF Probes
<1>2. DOMAIN deps = 1..n /\ \A i \in 1..n : deps[i] = ProbeCandidate(ps[i], i)
  BY <1>1 DEF probe_candidates
<1>3. Sorted(deps) = deps
  BY <1>1, SortedProbes
<1>4. resolved_baseline(deps) = {{}}
  BY ProbeBaseline
<1>5. f \in Seq(P) /\ Len(f) = n
  BY <1>1
<1>6. SingleAxis(0, <<>>, deps) = f
  <2> DEFINE g == [i \in DOMAIN deps |-> dep(Sorted(deps)[i])]
             h == [i \in DOMAIN <<>> |->
                     Scenario(Sorted(<<>>)[i].id, Sorted(<<>>)[i].version, {"runtime"},
                              Sorted(<<>>)[i].grade, {{}})]
  <2>1. SingleAxis(0, <<>>, deps) = h \o g
    <3> HIDE DEF deps
    <3> QED
      BY <1>4 DEF SingleAxis
  <2>2. h = <<>>
    OBVIOUS
  <2>3. g = f
    <3>1. ASSUME NEW i \in 1..n
          PROVE  dep(Sorted(deps)[i]) = PlannedProbe(ps[i])
      <4>1. Sorted(deps)[i] = ProbeCandidate(ps[i], i)
        BY <1>2, <1>3
      <4>2. ProbeCandidate(ps[i], i).id = <<"probe", ps[i]>>
        BY DEF ProbeCandidate
      <4> DEFINE d == dependency_candidate_binding(ProbeCandidate(ps[i], i), {{}})
      <4>3. d.grade = "Observed" /\ d.resolved = {ps[i]}
        BY ProbeBound
      <4>4. dep(Sorted(deps)[i])
              = Scenario(<<"probe", ps[i]>>, 0, {"dependencies"}, d.grade, d.resolved)
        BY <4>1, <4>2, Zenon
      <4> QED
        BY <4>3, <4>4 DEF PlannedProbe
    <3> HIDE DEF deps, dep
    <3> QED
      BY <1>2, <3>1
  <2> HIDE DEF f, g, h, P
  <2>4. <<>> \o f = f
    BY <1>5
  <2> QED
    BY <2>1, <2>2, <2>3, <2>4
<1>7. PlanOf(ps) = <<PlannedBaseline>> \o Prefix(f, Slot) \o <<>>
  <2>1. \E i \in DOMAIN deps : deps[i].set # NoSet
    <3>1. 1 \in DOMAIN deps /\ deps[1] = ProbeCandidate(ps[1], 1)
      BY <1>1, <1>2
    <3>2. ProbeCandidate(ps[1], 1).set # NoSet
      BY DEF ProbeCandidate, DependencySet, NoSet
    <3> QED
      BY <3>1, <3>2, Zenon
  <2>2. {{}} # {}
    OBVIOUS
  <2> HIDE DEF f, deps
  <2> QED
    BY <1>4, <1>6, <2>1, <2>2, SlotType DEF PlanOf, plan_scenarios, PlannedBaseline, deps
<1>8. k \in Nat /\ k <= n /\ k = IF n <= Slot THEN n ELSE Slot
  BY <1>1, SlotType DEF Lesser
<1>9. /\ Prefix(f, Slot) \in Seq(P) /\ Len(Prefix(f, Slot)) = k
      /\ \A i \in 1..k : Prefix(f, Slot)[i] = PlannedProbe(ps[i])
  <2>1. Prefix(f, Slot) = SubSeq(f, 1, k)
    BY <1>5, <1>8 DEF Prefix
  <2>2. \A i \in 1..k : f[i] = PlannedProbe(ps[i])
    BY <1>1, <1>8
  <2>3. n \in Nat /\ k \in Nat /\ k <= n /\ f \in Seq(P) /\ Len(f) = n
    BY <1>1, <1>5, <1>8
  <2> HIDE DEF f, k, P, n
  <2>4. SubSeq(f, 1, k) = [i \in 1..k |-> f[i]]
    BY <2>3
  <2>5. \A i \in 1..k : f[i] \in P
    BY <2>3
  <2> QED
    BY <2>1, <2>2, <2>3, <2>4, <2>5
<1> DEFINE Q == P \cup {PlannedBaseline}
           a == <<PlannedBaseline>>
           g == Prefix(f, Slot)
<1>10. a \in Seq(Q) /\ Len(a) = 1 /\ a[1] = PlannedBaseline
  OBVIOUS
<1>11. g \in Seq(Q) /\ Len(g) = k
  <2> HIDE DEF P, g
  <2> QED
    BY <1>9 DEF g
<1> HIDE DEF a, g, Q, k
<1>12. /\ a \o g \in Seq(Q) /\ Len(a \o g) = 1 + k
       /\ \A i \in 1..(1 + k) : (a \o g)[i] = IF i <= 1 THEN a[i] ELSE g[i - 1]
  BY <1>8, <1>10, <1>11, ConcatProperties
<1>13. a \o g \o <<>> = a \o g
  BY <1>12
<1>14. PlanOf(ps) = a \o g
  BY <1>7, <1>13 DEF a, g
<1>15. Len(PlanOf(ps)) = 1 + k /\ DOMAIN PlanOf(ps) = 1..(1 + k)
  BY <1>12, <1>14
<1>16. PlanOf(ps)[1] = PlannedBaseline
  <2>1. 1 \in 1..(1 + k)
    BY <1>8
  <2> QED
    BY <1>10, <1>12, <1>14, <2>1
<1>17. ASSUME NEW i \in 1..k
       PROVE  PlanOf(ps)[i + 1] = PlannedProbe(ps[i])
  <2>1. i + 1 \in 1..(1 + k) /\ ~(i + 1 <= 1) /\ i + 1 - 1 = i
    BY <1>8
  <2>2. PlanOf(ps)[i + 1] = g[i]
    BY <1>12, <1>14, <2>1
  <2> QED
    BY <1>9, <2>2 DEF g
<1> QED
  BY <1>15, <1>16, <1>17 DEF k

-----------------------------------------------------------------------------
(* The exhaustive probes: every subset once, in the order of the subsets    *)
(* after the full one.                                                      *)

Others == (SUBSET Changes) \ {{}, Changes}

LEMMA OthersSize ==
  /\ IsFiniteSet(Others) /\ Cardinality(Others) \in Nat
  /\ Cardinality(Others) = 2 ^ Cardinality(Changes) - 2
  /\ 2 ^ Cardinality(Changes) \in Nat
<1> DEFINE all  == SUBSET Changes
           some == all \ {{}}
<1>1. IsFiniteSet(all) /\ Cardinality(all) = 2 ^ Cardinality(Changes) /\ Cardinality(all) \in Nat
  BY ChangesAssumption, FS_SUBSET, FS_CardinalityType
<1>2. {} \in all /\ Changes \in some
  BY ChangesAssumption
<1>3. IsFiniteSet(some) /\ Cardinality(some) = Cardinality(all) - 1
  BY <1>1, <1>2, FS_RemoveElement
<1>4. Others = some \ {Changes}
  BY DEF Others
<1>5. IsFiniteSet(Others) /\ Cardinality(Others) = Cardinality(some) - 1
  BY <1>2, <1>3, <1>4, FS_RemoveElement
<1>6. Cardinality(Others) \in Nat
  BY <1>5, FS_CardinalityType
<1> DEFINE e == 2 ^ Cardinality(Changes)
<1> HIDE DEF all, some, e
<1>7. e \in Nat /\ Cardinality(Others) = e - 2
  BY <1>1, <1>3, <1>5 DEF e
<1> QED
  BY <1>5, <1>6, <1>7 DEF e

LEMMA OthersFinite == IsFiniteSet(Others) /\ Cardinality(Others) \in Nat
BY OthersSize, Zenon

\* Each number below the number of subsets is the rank of one.
LEMMA RankOnto ==
  ASSUME NEW k \in 0..(Cardinality(Others) - 1)
  PROVE  \E S \in Others : Cardinality(Lower(Others, S)) = k
<1> DEFINE N == Cardinality(Others)
           R == 0..(N - 1)
           rank == [S \in Others |-> Cardinality(Lower(Others, S))]
<1>1. Others \in SUBSET SUBSET Changes
  BY DEF Others
<1>2. ASSUME NEW S \in Others
      PROVE  Cardinality(Lower(Others, S)) \in R
  <2>1. IsFiniteSet(Others) /\ Cardinality(Others) \in Nat
    BY OthersFinite
  <2>2. IsFiniteSet(Others \ {S}) /\ Cardinality(Others \ {S}) = Cardinality(Others) - 1
    BY <2>1, FS_RemoveElement
  <2>3. Lower(Others, S) \in SUBSET (Others \ {S})
    BY <1>1, BeforeSelf DEF Lower
  <2>4. Cardinality(Lower(Others, S)) <= Cardinality(Others) - 1
    BY <2>2, <2>3, FS_Subset
  <2>5. Cardinality(Lower(Others, S)) \in Nat
    BY <1>1, LowerFinite
  <2> QED
    BY <2>1, <2>4, <2>5
<1>3. ASSUME NEW S \in Others, NEW T \in Others, S # T
      PROVE  Cardinality(Lower(Others, S)) # Cardinality(Lower(Others, T))
  <2>1. Before(S, T) \/ Before(T, S)
    BY <1>1, <1>3, BeforeTotal
  <2>2. Cardinality(Lower(Others, S)) \in Nat /\ Cardinality(Lower(Others, T)) \in Nat
    BY <1>1, LowerFinite
  <2>3. \/ Cardinality(Lower(Others, S)) < Cardinality(Lower(Others, T))
        \/ Cardinality(Lower(Others, T)) < Cardinality(Lower(Others, S))
    BY <1>1, <2>1, LowerGrows
  <2> QED
    BY <2>2, <2>3
<1>4. rank \in Injection(Others, R)
  <2>1. rank \in [Others -> R]
    BY <1>2
  <2>2. \A S, T \in Others : rank[S] = rank[T] => S = T
    BY <1>3
  <2> HIDE DEF rank, R
  <2> QED
    BY <2>1, <2>2, Zenon DEF Injection, IsInjective
<1>5. IsFiniteSet(R) /\ Cardinality(R) = N
  BY OthersFinite, FS_Interval
<1>6. rank \in Surjection(Others, R)
  <2> HIDE DEF R, rank
  <2> QED
    BY <1>4, <1>5, FS_Injection
<1>7. \E S \in Others : rank[S] = k
  BY <1>6 DEF Surjection
<1> QED
  BY <1>7

LEMMA ExhaustiveIs ==
  LET ps == exhaustive_nonempty_subsets
      n  == 1 + Cardinality(Others)
  IN  /\ DOMAIN ps = 1..n /\ n \in Nat /\ ps \in Seq((SUBSET Changes) \ {{}}) /\ Len(ps) = n
      /\ ps[1] = Changes
      /\ \A k \in 2..n : ps[k] \in Others /\ Cardinality(Lower(Others, ps[k])) = k - 2
<1> DEFINE ps == exhaustive_nonempty_subsets
           n  == 1 + Cardinality(Others)
           pick(k) == CHOOSE S \in Others : 2 + Cardinality(Lower(Others, S)) = k
<1>1. ps = [k \in 1..n |-> IF k = 1 THEN Changes ELSE pick(k)]
  BY DEF exhaustive_nonempty_subsets, Others, Lower
<1>2. n \in Nat /\ n >= 1
  BY OthersFinite
<1>3. ASSUME NEW k \in 2..n
      PROVE  pick(k) \in Others /\ Cardinality(Lower(Others, pick(k))) = k - 2
  <2>1. k - 2 \in 0..(Cardinality(Others) - 1)
    BY <1>2, OthersFinite
  <2>2. PICK S \in Others : Cardinality(Lower(Others, S)) = k - 2
    BY <2>1, RankOnto
  <2>3. 2 + Cardinality(Lower(Others, S)) = k
    BY <2>2
  <2>4. pick(k) \in Others /\ 2 + Cardinality(Lower(Others, pick(k))) = k
    BY <2>3
  <2>5. Cardinality(Lower(Others, pick(k))) \in Nat
    BY <2>4, LowerFinite DEF Others
  <2> QED
    BY <2>4, <2>5
<1> HIDE DEF pick, ps
<1>4. DOMAIN ps = 1..n /\ ps[1] = Changes /\ \A k \in 2..n : ps[k] = pick(k)
  BY <1>1, <1>2
<1>5. \A k \in 1..n : ps[k] \in (SUBSET Changes) \ {{}}
  <2> TAKE k \in 1..n
  <2>1. CASE k = 1
    BY <1>4, <2>1, ChangesAssumption
  <2>2. CASE k \in 2..n
    <3>1. \A S \in Others : S \in (SUBSET Changes) \ {{}}
      BY DEF Others
    <3> QED
      BY <1>3, <1>4, <2>2, <3>1
  <2> HIDE DEF n
  <2> QED
    BY <1>2, <2>1, <2>2
<1> HIDE DEF n
<1>6. ps \in Seq((SUBSET Changes) \ {{}}) /\ Len(ps) = n
  <2>1. ps \in [1..n -> (SUBSET Changes) \ {{}}]
    BY <1>1, <1>4, <1>5
  <2> QED
    BY <1>2, <2>1
<1> QED
  BY <1>2, <1>3, <1>4, <1>6 DEF ps, n

NoRepeats(ps) == \A i, j \in DOMAIN ps : i # j => ps[i] # ps[j]

\* exhaustive_nonempty_subsets makes what the verifier's own enumeration expects.
LEMMA ExhaustiveOk ==
  LET ps == exhaustive_nonempty_subsets
  IN  /\ ps \in Probes /\ NoRepeats(ps) /\ ps[1] = Changes /\ ExhaustiveProbesOk(ps)
      /\ \A i, j \in DOMAIN ps : 1 < i /\ i < j => Before(ps[i], ps[j])
<1> DEFINE ps == exhaustive_nonempty_subsets
           n  == 1 + Cardinality(Others)
           size(S) == Cardinality(Lower(Others, S))
<1> HIDE DEF ps, size
<1>1. /\ DOMAIN ps = 1..n /\ n \in Nat /\ ps \in Seq((SUBSET Changes) \ {{}}) /\ Len(ps) = n
      /\ ps[1] = Changes
      /\ \A k \in 2..n : ps[k] \in Others /\ size(ps[k]) = k - 2
  BY ExhaustiveIs DEF ps, size
<1>2. n >= 1 /\ n = 2 ^ Cardinality(Changes) - 1
  <2> DEFINE e == 2 ^ Cardinality(Changes)
             N == Cardinality(Others)
  <2>1. e \in Nat /\ N \in Nat /\ N = e - 2
    BY OthersSize
  <2> HIDE DEF e, N
  <2>2. 1 + N >= 1 /\ 1 + N = e - 1
    BY <2>1
  <2> QED
    BY <2>2 DEF e, N
<1>3. Others \in SUBSET SUBSET Changes /\ Changes \notin Others
  BY DEF Others
<1> HIDE DEF n
<1>4. NoRepeats(ps)
  <2> SUFFICES ASSUME NEW i \in 1..n, NEW j \in 1..n, i < j
               PROVE  ps[i] # ps[j]
    BY <1>1 DEF NoRepeats
  <2>1. j \in 2..n
    BY <1>1
  <2>2. CASE i = 1
    BY <1>1, <1>3, <2>1, <2>2
  <2>3. CASE i # 1
    <3>1. i \in 2..n
      BY <1>1, <2>3
    <3> QED
      BY <1>1, <2>1, <3>1
  <2> QED
    BY <2>2, <2>3
<1>5. ASSUME NEW i \in 2..n, NEW j \in 2..n, i < j
      PROVE  Before(ps[i], ps[j])
  <2>1. /\ ps[i] \in Others /\ size(ps[i]) = i - 2
        /\ ps[j] \in Others /\ size(ps[j]) = j - 2
    BY <1>1
  <2>2. size(ps[i]) < size(ps[j]) /\ ~(size(ps[j]) < size(ps[i])) /\ ps[i] # ps[j]
    BY <1>1, <1>5, <2>1
  <2>3. ~Before(ps[j], ps[i])
    BY <1>3, <2>1, <2>2, LowerGrows DEF size
  <2> QED
    BY <1>3, <2>1, <2>2, <2>3, BeforeTotal
<1>6. {ps[i] : i \in DOMAIN ps} = (SUBSET Changes) \ {{}}
  <2>1. \A i \in 1..n : ps[i] \in (SUBSET Changes) \ {{}}
    BY <1>1
  <2>2. ASSUME NEW S \in Others
        PROVE  \E i \in 1..n : ps[i] = S
    <3>1. size(S) \in 0..(n - 2)
      <4>1. IsFiniteSet(Others) /\ Cardinality(Others) \in Nat
        BY OthersFinite
      <4>2. IsFiniteSet(Others \ {S}) /\ Cardinality(Others \ {S}) = Cardinality(Others) - 1
        BY <4>1, FS_RemoveElement
      <4>3. Lower(Others, S) \in SUBSET (Others \ {S})
        BY <1>3, BeforeSelf DEF Lower
      <4>4. size(S) <= Cardinality(Others) - 1
        BY <4>2, <4>3, FS_Subset DEF size
      <4>5. size(S) \in Nat
        BY <1>3, LowerFinite DEF size
      <4> QED
        BY <4>1, <4>4, <4>5 DEF n
    <3> DEFINE k == size(S) + 2
    <3>2. k \in 2..n
      BY <1>1, <3>1
    <3>3. ps[k] \in Others /\ size(ps[k]) = size(S)
      BY <1>1, <3>1, <3>2
    <3>4. ps[k] = S
      <4>1. CASE Before(ps[k], S)
        <5>1. size(ps[k]) < size(S)
          BY <1>3, <3>3, <4>1, LowerGrows DEF size
        <5> QED
          BY <3>1, <3>3, <5>1
      <4>2. CASE Before(S, ps[k])
        <5>1. size(S) < size(ps[k])
          BY <1>3, <3>3, <4>2, LowerGrows DEF size
        <5> QED
          BY <3>1, <3>3, <5>1
      <4> QED
        BY <1>3, <3>3, <4>1, <4>2, BeforeTotal
    <3> QED
      BY <1>1, <3>2, <3>4
  <2>3. \E i \in 1..n : ps[i] = Changes
    BY <1>1, <1>2
  <2>4. \A S \in (SUBSET Changes) \ {{}} : S = Changes \/ S \in Others
    BY DEF Others
  <2>5. \A S \in (SUBSET Changes) \ {{}} : \E i \in 1..n : ps[i] = S
    BY <2>2, <2>3, <2>4, Zenon
  <2>6. DOMAIN ps = 1..n
    BY <1>1
  <2> QED
    BY <2>1, <2>5, <2>6, Zenon
<1>7. \A i \in 3..Len(ps) : Before(ps[i - 1], ps[i])
  <2> TAKE i \in 3..Len(ps)
  <2>1. i - 1 \in 2..n /\ i \in 2..n /\ i - 1 < i
    BY <1>1
  <2> QED
    BY <1>5, <2>1
<1>8. ExhaustiveProbesOk(ps)
  BY <1>1, <1>2, <1>6, <1>7 DEF ExhaustiveProbesOk
<1>9. ps \in Probes
  BY <1>1, <1>2 DEF Probes
<1>10. \A i, j \in DOMAIN ps : 1 < i /\ i < j => Before(ps[i], ps[j])
  BY <1>1, <1>5
<1> QED
  BY <1>1, <1>4, <1>8, <1>9, <1>10 DEF ps

-----------------------------------------------------------------------------
(* The results of a probe, and what the schedule observes of them.          *)

Indecisive == {"CoverageIncomplete", "Flaky", "Blocked", "Unsupported", "Inconclusive"}

ProbeOk(r) ==
  /\ r.verdict \in {"FuturePass", "FutureFail"} \cup Indecisive
  /\ r.attempt \in Nat
  /\ r.verdict = "FuturePass" => r.failure.hash = None /\ r.attempt >= 1
  /\ r.verdict = "FutureFail" =>
       r.failure.hash # None /\ r.attempt = RerunsOnFailure /\ r.attempt >= 2

\* A pass has no failure; a failure is the same in every attempt the rerun
\* budget allows.
LEMMA ProbeFacts ==
  ASSUME NEW r \in ProbeResults
  PROVE  ProbeOk(r)
<1> DEFINE n == RerunsOnFailure
<1>1. n \in Nat \ {0}
  BY ExperimentAssumption
<1>2. ASSUME NEW s \in Attempts(n), r = Completed(FALSE, s)
      PROVE  ProbeOk(r)
  <2>1. PICK k \in 1..n : s \in [1..k -> AttemptRecords]
    BY DEF Attempts
  <2>2. k \in Nat /\ k >= 1 /\ Len(s) = k /\ DOMAIN s = 1..k /\ s # <<>>
    BY <1>1, <2>1
  <2>3. k = n \/ Passed(s[k])
    BY <2>2 DEF Attempts
  <2>4. Passed(s[k]) => s[k].failure = NoFailure
    <3>1. PICK raw \in RawResults : s[k] = AttemptRecord(raw)
      BY <2>1, <2>2 DEF AttemptRecords
    <3> QED
      BY <3>1 DEF AttemptRecord, Passed
  <2> DEFINE v == TestVerdict(FALSE, s)
  <2>5. r.verdict = v /\ r.attempt = k /\ (v # "Flaky" => r.failure = s[k].failure)
    BY <1>2, <2>2 DEF Completed, ScenarioResult
  <2>6. v \in {"FuturePass", "FutureFail"} \cup Indecisive
    BY DEF TestVerdict, classify_candidate_attempts, Indecisive
  <2>7. v = "FuturePass" => Passed(s[k])
    BY <2>2 DEF TestVerdict, classify_candidate_attempts, Passes
  <2>8. v = "FutureFail" => ~Passed(s[k]) /\ Repeatable(s)
    BY <2>2 DEF TestVerdict, classify_candidate_attempts, Passes
  <2>9. Repeatable(s) => k >= 2 /\ s[k].failure.hash # None
    BY <2>2 DEF Repeatable
  <2>10. NoFailure.hash = None
    BY DEF NoFailure, Failure
  <2> HIDE DEF v
  <2> QED
    BY <2>2, <2>3, <2>4, <2>5, <2>6, <2>7, <2>8, <2>9, <2>10 DEF ProbeOk
<1>3. ASSUME r \in Unfinished(n)
      PROVE  ProbeOk(r)
  BY <1>1, <1>3 DEF Unfinished, ScenarioResult, ProbeOk, Indecisive
<1> QED
  BY <1>2, <1>3 DEF ProbeResults

ResultsOk(rs) ==
  /\ rs \in Seq(BaselineResults \cup ProbeResults)
  /\ \A i \in 2..Len(rs) : rs[i] \in ProbeResults

\* The observations of the first n probes.
Shown(ps, rs, n) == [i \in 1..n |-> Observation(ps[i], rs[i + 1], "Observed")]

Count(rs) == IF Len(rs) = 0 THEN 0 ELSE Len(rs) - 1

ObsOk(o) ==
  /\ o.ids \in (SUBSET Changes) \ {{}} /\ o.authority = "Observed"
  /\ o.verdict \in ProbeVerdicts
  /\ o.verdict = "Pass" => o.hash = None /\ o.attempts \in Nat /\ o.attempts >= 1
  /\ o.verdict = "Fail" => o.hash # None /\ o.attempts = RerunsOnFailure /\ o.attempts >= 2

LEMMA ObservationIs ==
  ASSUME NEW S \in (SUBSET Changes) \ {{}}, NEW r, ProbeOk(r)
  PROVE  LET o == Observation(S, r, "Observed") IN
         /\ ObsOk(o) /\ o.ids = S /\ o.hash = r.failure.hash
         /\ o.verdict = "Pass" <=> r.verdict = "FuturePass"
         /\ o.verdict = "Fail" <=> r.verdict = "FutureFail"
         /\ o.attempts = r.attempt
<1> DEFINE o == Observation(S, r, "Observed")
           v == dependency_probe_verdict(r.verdict)
<1>1. /\ o.ids = S /\ o.verdict = v /\ o.hash = r.failure.hash
      /\ o.attempts = r.attempt /\ o.authority = "Observed"
  BY DEF Observation
<1>2. r.verdict \in {"FuturePass", "FutureFail"} \cup Indecisive
  BY DEF ProbeOk
<1>3. /\ v \in ProbeVerdicts
      /\ v = "Pass" <=> r.verdict = "FuturePass"
      /\ v = "Fail" <=> r.verdict = "FutureFail"
  BY <1>2 DEF dependency_probe_verdict, ProbeVerdicts, Indecisive
<1> HIDE DEF o, v
<1>4. ObsOk(o)
  BY <1>1, <1>3 DEF ObsOk, ProbeOk
<1> QED
  BY <1>1, <1>3, <1>4 DEF o

\* What the scan observes are its results, each as observed as its scenario.
LEMMA ObservationsAre ==
  ASSUME NEW ps \in Probes, NEW rs, ResultsOk(rs), Len(rs) <= Len(PlanOf(ps))
  PROVE  /\ Count(rs) \in Nat /\ Count(rs) <= Len(ps)
         /\ Observations(ps, PlanOf(ps), rs) = Shown(ps, rs, Count(rs))
<1> DEFINE m == Count(rs)
           k == Lesser(Len(ps), Slot)
           ss == PlanOf(ps)
<1>1. Len(ps) \in Nat /\ DOMAIN ps = 1..Len(ps) /\ Len(rs) \in Nat /\ DOMAIN rs = 1..Len(rs)
  BY DEF Probes, ResultsOk
<1>2. Len(ss) = 1 + k /\ \A i \in 1..k : ss[i + 1] = PlannedProbe(ps[i])
  BY PlanIs
<1>3. k \in Nat /\ k <= Len(ps)
  BY <1>1, SlotType DEF Lesser
<1> HIDE DEF k, ss
<1>4. m \in Nat /\ m <= k /\ m <= Len(ps)
  BY <1>1, <1>2, <1>3 DEF Count, ss
<1>5. {j \in DOMAIN ps : j + 1 \in DOMAIN rs} = 1..m
  <2>1. \A j \in 1..Len(ps) : j + 1 \in 1..Len(rs) <=> j \in 1..m
    BY <1>1, <1>4 DEF Count
  <2> HIDE DEF m
  <2>2. 1..m \subseteq 1..Len(ps)
    BY <1>1, <1>4
  <2> QED
    BY <1>1, <2>1, <2>2
<1>6. ASSUME NEW i \in 1..m
      PROVE  ss[i + 1].grade = "Observed"
  <2>1. i \in 1..k
    BY <1>3, <1>4
  <2>2. PlannedProbe(ps[i]).grade = "Observed"
    BY DEF PlannedProbe, Scenario
  <2> QED
    BY <1>2, <2>1, <2>2
<1> HIDE DEF m
<1>7. Observations(ps, ss, rs) = [i \in 1..m |-> Observation(ps[i], rs[i + 1], ss[i + 1].grade)]
  BY <1>5 DEF Observations
<1>8. Observations(ps, ss, rs) = Shown(ps, rs, m)
  BY <1>6, <1>7 DEF Shown
<1> QED
  BY <1>4, <1>8 DEF m, ss

\* A log of observations, each of a subset of its own, the full one first.
Log(obs, n) ==
  /\ n \in Nat \ {0} /\ DOMAIN obs = 1..n
  /\ \A i \in 1..n : ObsOk(obs[i])
  /\ \A i, j \in 1..n : i # j => obs[i].ids # obs[j].ids
  /\ obs[1].ids = Changes

LEMMA ShownLog ==
  ASSUME NEW ps \in Probes, NoRepeats(ps), ps[1] = Changes, NEW rs, ResultsOk(rs),
         NEW n \in Nat \ {0}, n <= Len(ps), n + 1 <= Len(rs)
  PROVE  /\ Log(Shown(ps, rs, n), n)
         /\ \A i \in 1..n :
              LET o == Shown(ps, rs, n)[i]
                  r == rs[i + 1]
              IN  /\ ProbeOk(r) /\ o.ids = ps[i] /\ o.hash = r.failure.hash
                  /\ o.verdict = "Pass" <=> r.verdict = "FuturePass"
                  /\ o.verdict = "Fail" <=> r.verdict = "FutureFail"
                  /\ o.attempts = r.attempt
<1> DEFINE obs == Shown(ps, rs, n)
<1>1. Len(ps) \in Nat /\ DOMAIN ps = 1..Len(ps) /\ Len(rs) \in Nat
  BY DEF Probes, ResultsOk
<1>2. DOMAIN obs = 1..n /\ \A i \in 1..n : obs[i] = Observation(ps[i], rs[i + 1], "Observed")
  BY DEF Shown
<1> HIDE DEF obs
<1>3. ASSUME NEW i \in 1..n
      PROVE  LET o == obs[i]
                 r == rs[i + 1]
             IN  /\ ObsOk(o)
                 /\ ProbeOk(r) /\ o.ids = ps[i] /\ o.hash = r.failure.hash
                 /\ o.verdict = "Pass" <=> r.verdict = "FuturePass"
                 /\ o.verdict = "Fail" <=> r.verdict = "FutureFail"
                 /\ o.attempts = r.attempt
  <2>1. i \in 1..Len(ps) /\ i + 1 \in 2..Len(rs)
    BY <1>1
  <2>2. ps[i] \in (SUBSET Changes) \ {{}}
    BY <1>1, <2>1 DEF Probes
  <2>3. ProbeOk(rs[i + 1])
    BY <2>1, ProbeFacts DEF ResultsOk
  <2> QED
    BY <1>2, <2>2, <2>3, ObservationIs
<1>4. \A i, j \in 1..n : i # j => obs[i].ids # obs[j].ids
  <2> TAKE i, j \in 1..n
  <2>1. i \in DOMAIN ps /\ j \in DOMAIN ps /\ obs[i].ids = ps[i] /\ obs[j].ids = ps[j]
    BY <1>1, <1>3
  <2> QED
    BY <2>1 DEF NoRepeats
<1>5. obs[1].ids = Changes
  BY <1>3
<1>6. Log(obs, n)
  BY <1>2, <1>3, <1>4, <1>5 DEF Log
<1> QED
  BY <1>3, <1>6 DEF obs

-----------------------------------------------------------------------------
(* What a log says of a subset. *)

Same(o, t) == o.verdict = "Fail" /\ o.hash = t /\ RerunsOnFailure >= 3

Other(o, t) == o.verdict = "Pass" \/ (o.verdict = "Fail" /\ o.hash # t)

LEMMA ClassIs ==
  ASSUME NEW o, ObsOk(o), NEW t
  PROVE  /\ stable_target_failure(o, t) <=> Same(o, t)
         /\ decisive_non_target(o, t) <=> Other(o, t)
         /\ Necessary(o, t) <=> Other(o, t)
BY DEF ObsOk, stable_target_failure, decisive_non_target, Necessary, Same, Other

LEMMA TestedIs ==
  ASSUME NEW obs, NEW n, Log(obs, n), NEW S
  PROVE  S \in Tested(obs) <=> \E i \in 1..n : obs[i].ids = S
BY DEF Tested, Log

\* A subset that was tested has one observation.
LEMMA AtIs ==
  ASSUME NEW obs, NEW n, Log(obs, n), NEW i \in 1..n
  PROVE  obs[i].ids \in Tested(obs) /\ At(obs, obs[i].ids) = obs[i]
<1> DEFINE j == CHOOSE j \in DOMAIN obs : obs[j].ids = obs[i].ids
<1>1. DOMAIN obs = 1..n
  BY DEF Log
<1>2. j \in 1..n /\ obs[j].ids = obs[i].ids
  BY <1>1
<1>3. j = i
  BY <1>2 DEF Log
<1> QED
  BY <1>1, <1>3, TestedIs DEF At

LEMMA AtOk ==
  ASSUME NEW obs, NEW n, Log(obs, n), NEW S \in Tested(obs)
  PROVE  /\ S \in (SUBSET Changes) \ {{}} /\ ObsOk(At(obs, S)) /\ At(obs, S).ids = S
         /\ \E i \in 1..n : obs[i].ids = S /\ At(obs, S) = obs[i]
<1>1. PICK i \in 1..n : obs[i].ids = S
  BY TestedIs
<1>2. At(obs, S) = obs[i]
  BY <1>1, AtIs
<1>3. ObsOk(obs[i])
  BY DEF Log
<1> QED
  BY <1>1, <1>2, <1>3 DEF ObsOk

LEMMA FullIs ==
  ASSUME NEW obs, NEW n, Log(obs, n)
  PROVE  /\ obs # <<>> /\ 1 \in 1..n /\ Changes \in Tested(obs) /\ At(obs, Changes) = obs[1]
         /\ ObsOk(obs[1])
<1>1. 1 \in 1..n /\ obs[1].ids = Changes /\ DOMAIN obs = 1..n /\ DOMAIN <<>> = {}
  BY DEF Log
<1> QED
  BY <1>1, AtIs DEF Log

LEMMA StableIs ==
  ASSUME NEW obs, NEW n, Log(obs, n), NEW t
  PROVE  /\ StableFailures(obs, t) \in SUBSET ((SUBSET Changes) \ {{}})
         /\ \A S : Stable(obs, S, t) <=> S \in StableFailures(obs, t)
         /\ \A S : Stable(obs, S, t) <=> S \in Tested(obs) /\ Same(At(obs, S), t)
         /\ \A S : Decisive(obs, S, t) <=> S \in Tested(obs) /\ Other(At(obs, S), t)
<1>1. \A S \in Tested(obs) :
        /\ S \in (SUBSET Changes) \ {{}}
        /\ stable_target_failure(At(obs, S), t) <=> Same(At(obs, S), t)
        /\ decisive_non_target(At(obs, S), t) <=> Other(At(obs, S), t)
  BY AtOk, ClassIs
<1> QED
  BY <1>1 DEF StableFailures, Stable, Decisive

Current(obs, t) == Smallest(StableFailures(obs, t))

LEMMA CurrentIs ==
  ASSUME NEW obs, NEW n, Log(obs, n), NEW t, StableFailures(obs, t) # {}
  PROVE  /\ Current(obs, t) \in (SUBSET Changes) \ {{}}
         /\ Stable(obs, Current(obs, t), t)
         /\ \A T \in StableFailures(obs, t) : Current(obs, t) = T \/ Before(Current(obs, t), T)
<1>1. StableFailures(obs, t) \in SUBSET ((SUBSET Changes) \ {{}})
  BY StableIs
<1>2. StableFailures(obs, t) \in SUBSET SUBSET Changes
  BY <1>1
<1> QED
  BY <1>1, <1>2, SmallestIs, StableIs DEF Current

\* What the schedule asks for next settles the least open deletion of the
\* smallest failing set, or when there is none its least open addition.
Deletes(obs, t, R) ==
  LET S == Current(obs, t)
      c == Least(OpenDeletions(obs, S, t))
  IN  OpenDeletions(obs, S, t) # {} /\ c \in OpenDeletions(obs, S, t) /\ R = S \ {c}

Adds(obs, t, R) ==
  LET S == Current(obs, t)
      c == Least(OpenAdditions(obs, S, t))
  IN  /\ OpenDeletions(obs, S, t) = {}
      /\ OpenAdditions(obs, S, t) # {} /\ c \in OpenAdditions(obs, S, t) /\ R = S \cup {c}

Settles(obs, t, R) == Deletes(obs, t, R) \/ Adds(obs, t, R)

Failing(obs) == obs[1].hash # None /\ Stable(obs, Changes, obs[1].hash)

LEMMA OpenType ==
  ASSUME NEW obs, NEW n, Log(obs, n), NEW S \in SUBSET Changes, NEW t
  PROVE  /\ OpenDeletions(obs, S, t) \in SUBSET Nat /\ OpenDeletions(obs, S, t) \in SUBSET S
         /\ OpenAdditions(obs, S, t) \in SUBSET Nat
         /\ OpenAdditions(obs, S, t) \in SUBSET (Changes \ S)
<1>1. Changes \in SUBSET Nat
  BY ChangesAssumption
<1> QED
  BY <1>1 DEF OpenDeletions, OpenAdditions

LEMMA SettlesType ==
  ASSUME NEW obs, NEW n, Log(obs, n), Failing(obs), NEW R, Settles(obs, obs[1].hash, R)
  PROVE  R \in (SUBSET Changes) \ {{}}
<1> DEFINE t == obs[1].hash
           S == Current(obs, t)
<1>1. S \in (SUBSET Changes) \ {{}}
  BY CurrentIs, StableIs DEF Failing
<1>2. CASE Deletes(obs, t, R)
  <2>1. PICK c \in OpenDeletions(obs, S, t) : R = S \ {c}
    BY <1>2 DEF Deletes
  <2>2. c \in S /\ S # {c}
    BY <2>1 DEF OpenDeletions
  <2> HIDE DEF S
  <2> QED
    BY <1>1, <2>1, <2>2
<1>3. CASE Adds(obs, t, R)
  <2>1. PICK c \in OpenAdditions(obs, S, t) : R = S \cup {c}
    BY <1>3 DEF Adds
  <2>2. c \in Changes
    BY <2>1 DEF OpenAdditions
  <2> HIDE DEF S
  <2> QED
    BY <1>1, <2>1, <2>2
<1> QED
  BY <1>2, <1>3 DEF Settles

Settled(obs, t) ==
  /\ OpenDeletions(obs, Current(obs, t), t) = {}
  /\ OpenAdditions(obs, Current(obs, t), t) = {}

LEMMA NextCases ==
  ASSUME NEW obs, NEW n, Log(obs, n)
  PROVE  LET t == obs[1].hash
             R == next_dependency_subset(obs)
         IN  /\ ~Failing(obs) => R = {}
             /\ Failing(obs) /\ Settled(obs, t) => R = {}
             /\ Failing(obs) /\ ~Settled(obs, t) =>
                  \E Q : Settles(obs, t, Q) /\ R = IF Q \in Tested(obs) THEN {} ELSE Q
<1> DEFINE t == obs[1].hash
           R == next_dependency_subset(obs)
           S == Current(obs, t)
           D == OpenDeletions(obs, S, t)
           A == OpenAdditions(obs, S, t)
<1>1. R = IF t = None \/ ~Stable(obs, Changes, t) THEN {}
          ELSE IF D # {} THEN NextDeletion(obs, S, t)
          ELSE IF A # {} THEN NextAddition(obs, S, t)
          ELSE {}
  BY FullIs DEF next_dependency_subset, Current
<1> HIDE DEF t, R, S, D, A
<1>2. ~Failing(obs) => R = {}
  BY <1>1 DEF Failing, t
<1>3. Failing(obs) /\ Settled(obs, t) => R = {}
  BY <1>1 DEF Failing, Settled, t, S, D, A
<1>4. ASSUME Failing(obs), ~Settled(obs, t)
      PROVE  \E Q : Settles(obs, t, Q) /\ R = IF Q \in Tested(obs) THEN {} ELSE Q
  <2>1. S \in SUBSET Changes
    BY <1>4, CurrentIs, StableIs DEF Failing, S, t
  <2>2. D \in SUBSET Nat /\ A \in SUBSET Nat
    BY <2>1, OpenType DEF D, A
  <2>3. CASE D # {}
    <3> DEFINE Q == S \ {Least(D)}
    <3>1. R = IF Q \in Tested(obs) THEN {} ELSE Q
      BY <1>1, <1>4, <2>3 DEF Failing, NextDeletion, Request, D, t
    <3>2. Least(D) \in D
      BY <2>2, <2>3, LeastIs
    <3>3. Settles(obs, t, Q)
      BY <2>3, <3>2 DEF Settles, Deletes, S, D
    <3> QED
      BY <3>1, <3>3
  <2>4. CASE D = {}
    <3> DEFINE Q == S \cup {Least(A)}
    <3>1. A # {}
      BY <1>4, <2>4 DEF Settled, S, D, A
    <3>2. R = IF Q \in Tested(obs) THEN {} ELSE Q
      BY <1>1, <1>4, <2>4, <3>1 DEF Failing, NextAddition, Request, A, t
    <3>3. Least(A) \in A
      BY <2>2, <3>1, LeastIs
    <3>4. Settles(obs, t, Q)
      BY <2>4, <3>1, <3>3 DEF Settles, Adds, S, D, A
    <3> QED
      BY <3>2, <3>4
  <2> QED
    BY <2>3, <2>4
<1> QED
  BY <1>2, <1>3, <1>4 DEF t, R

\* It asks for a subset nobody has executed.
LEMMA NextIsNew ==
  ASSUME NEW obs, NEW n, Log(obs, n), next_dependency_subset(obs) # {}
  PROVE  /\ next_dependency_subset(obs) \in (SUBSET Changes) \ {{}}
         /\ next_dependency_subset(obs) \notin Tested(obs)
         /\ Failing(obs) /\ Settles(obs, obs[1].hash, next_dependency_subset(obs))
<1>1. Failing(obs) /\ ~Settled(obs, obs[1].hash)
  BY NextCases
<1>2. PICK Q : /\ Settles(obs, obs[1].hash, Q)
               /\ next_dependency_subset(obs) = IF Q \in Tested(obs) THEN {} ELSE Q
  BY <1>1, NextCases
<1> QED
  BY <1>1, <1>2, SettlesType

-----------------------------------------------------------------------------
(* The invariant of the loop: every probe of an adaptive experiment was the *)
(* next one when it was planned, with the results that its predecessors     *)
(* still have.                                                              *)

Sought ==
  /\ Len(probes) <= Slot
  /\ \A i \in 2..Len(probes) :
       /\ i <= Len(results)
       /\ probes[i] = next_dependency_subset(Shown(probes, results, i - 1))

LoopInv ==
  /\ pc \in {"run", "done"}
  /\ probes \in Probes /\ NoRepeats(probes) /\ probes[1] = Changes
  /\ plan = PlanOf(probes)
  /\ ResultsOk(results) /\ Len(results) <= Len(plan)
  /\ Len(results) >= 2 => baseline_ok
  /\ Schema = 1 => probes = exhaustive_nonempty_subsets
  /\ Schema = 2 => Sought

FinalReduction ==
  derive_dependency_reduction(Observations(probes, plan, results),
                              BaselineObservation(plan, results))

FinalFrontier(red) ==
  LET first     == FirstOf(FutureFails(results))
      confirmed == first # 0 /\ results[first].attempt >= 2
  IN  compute_breakage_frontier(baseline_ok, results, confirmed,
        ReplayTarget(probes, results, red, first))

DoneInv ==
  pc = "done" => LoopEnds /\ reduction = FinalReduction /\ frontier = FinalFrontier(reduction)

ScanInv == LoopInv /\ DoneInv

LEMMA ShownSame ==
  ASSUME NEW n \in Nat, NEW ps, NEW qs, NEW rs, NEW us,
         \A i \in 1..n : ps[i] = qs[i] /\ rs[i + 1] = us[i + 1]
  PROVE  Shown(ps, rs, n) = Shown(qs, us, n)
BY DEF Shown

LEMMA PlanSize ==
  ASSUME NEW ps \in Probes
  PROVE  /\ Len(PlanOf(ps)) \in Nat /\ Len(PlanOf(ps)) >= 1
         /\ Len(ps) \in Nat /\ Len(ps) >= 1 /\ DOMAIN ps = 1..Len(ps)
         /\ Len(PlanOf(ps)) <= Slot + 1 /\ Len(PlanOf(ps)) <= Len(ps) + 1
         /\ Len(ps) <= Slot => Len(PlanOf(ps)) = Len(ps) + 1
         /\ Slot < Len(ps) => Len(PlanOf(ps)) = Slot + 1
<1> DEFINE n == Len(ps)
           m == Len(PlanOf(ps))
<1>1. n \in Nat /\ n >= 1 /\ DOMAIN ps = 1..n
  BY DEF Probes
<1>2. m = 1 + Lesser(n, Slot)
  BY PlanIs
<1> HIDE DEF n, m
<1>3. /\ m \in Nat /\ m >= 1 /\ m <= Slot + 1 /\ m <= n + 1
      /\ n <= Slot => m = n + 1
      /\ Slot < n => m = Slot + 1
  BY <1>1, <1>2, SlotType DEF Lesser
<1> QED
  BY <1>1, <1>3 DEF n, m

LEMMA LoopInit == Init => ScanInv
<1> SUFFICES ASSUME Init PROVE ScanInv
  OBVIOUS
<1>1. pc = "run" /\ probes = InitialProbes /\ plan = PlanOf(probes) /\ results = <<>>
  BY DEF Init
<1>2. ResultsOk(<<>>) /\ Len(<<>>) = 0
  BY DEF ResultsOk
<1>3. CASE Schema = 2
  <2>1. probes = <<Changes>>
    BY <1>1, <1>3 DEF InitialProbes
  <2>2. Len(probes) = 1 /\ DOMAIN probes = {1} /\ probes[1] = Changes
    BY <2>1
  <2>3. Changes \in (SUBSET Changes) \ {{}}
    BY ChangesAssumption
  <2>4. probes \in Probes
    BY <2>1, <2>3 DEF Probes
  <2>5. NoRepeats(probes)
    BY <2>2 DEF NoRepeats
  <2>6. Sought
    BY <1>3, <2>2, SlotType, ExperimentAssumption DEF Sought
  <2>7. Schema # 1
    BY <1>3
  <2> QED
    BY <1>1, <1>2, <2>2, <2>4, <2>5, <2>6, <2>7, PlanSize DEF ScanInv, LoopInv, DoneInv
<1>4. CASE Schema = 1
  <2>1. probes = exhaustive_nonempty_subsets
    BY <1>1, <1>4 DEF InitialProbes
  <2>2. probes \in Probes /\ NoRepeats(probes) /\ probes[1] = Changes
    BY <2>1, ExhaustiveOk
  <2>3. Schema # 2
    BY <1>4
  <2> QED
    BY <1>1, <1>2, <2>1, <2>2, <2>3, PlanSize DEF ScanInv, LoopInv, DoneInv
<1> QED
  BY <1>3, <1>4, VerifierAssumption

LEMMA ExtendStep == ASSUME ScanInv, Extend PROVE ScanInv'
<1> DEFINE n == Len(probes)
           R == next_probe
           obs == Shown(probes, results, n)
<1>1. /\ pc = "run" /\ Len(results) = Len(plan) /\ baseline_ok
      /\ Len(plan) < MaxScenarios /\ R # {}
      /\ probes' = Append(probes, R) /\ plan' = PlanOf(probes')
      /\ pc' = "run" /\ results' = results
  BY DEF Extend, MayExtend
<1>2. /\ probes \in Probes /\ NoRepeats(probes) /\ probes[1] = Changes
      /\ plan = PlanOf(probes) /\ ResultsOk(results)
  BY DEF ScanInv, LoopInv
<1>3. Schema = 2 /\ ~(Len(results) < n + 1)
  BY <1>1 DEF next_probe
<1>4. n <= Slot /\ Sought
  BY <1>3 DEF ScanInv, LoopInv, Sought
<1>5. n \in Nat /\ n >= 1 /\ DOMAIN probes = 1..n /\ Len(results) = n + 1 /\ n + 1 <= Slot
  BY <1>1, <1>2, <1>4, PlanSize, SlotType
<1>6. R = next_dependency_subset(obs)
  <2>1. Len(results) <= Len(PlanOf(probes))
    BY <1>1, <1>2, PlanSize
  <2>2. Count(results) = n
    BY <1>5 DEF Count
  <2>3. Observations(probes, plan, results) = obs
    BY <1>2, <2>1, <2>2, ObservationsAre
  <2> QED
    BY <1>3, <2>3 DEF next_probe
<1>7. /\ Log(obs, n) /\ \A i \in 1..n : obs[i].ids = probes[i]
  <2>1. n \in Nat \ {0} /\ n <= Len(probes) /\ n + 1 <= Len(results)
    BY <1>5
  <2> HIDE DEF n
  <2> QED
    BY <1>2, <2>1, ShownLog
<1>8. R \in (SUBSET Changes) \ {{}} /\ R \notin Tested(obs)
  BY <1>1, <1>6, <1>7, NextIsNew
<1>9. \A i \in 1..n : probes[i] # R
  BY <1>7, <1>8, TestedIs
<1>10. probes \in Seq((SUBSET Changes) \ {{}})
  BY <1>2 DEF Probes
<1> HIDE DEF R, obs, n
<1>11. /\ probes' \in Seq((SUBSET Changes) \ {{}}) /\ Len(probes') = n + 1
       /\ DOMAIN probes' = 1..(n + 1)
       /\ \A i \in 1..n : probes'[i] = probes[i]
       /\ probes'[n + 1] = R
  <2>1. Len(probes) = n
    BY DEF n
  <2> QED
    BY <1>1, <1>5, <1>8, <1>10, <2>1
<1>12. probes' \in Probes /\ NoRepeats(probes') /\ probes'[1] = Changes
  <2>1. probes' # <<>>
    BY <1>5, <1>11
  <2>2. NoRepeats(probes')
    <3>1. \A i \in 1..(n + 1) : i \in 1..n \/ i = n + 1
      BY <1>5
    <3>2. \A i, j \in 1..n : i # j => probes[i] # probes[j]
      BY <1>2, <1>5 DEF NoRepeats
    <3> QED
      BY <1>9, <1>11, <3>1, <3>2 DEF NoRepeats
  <2>3. 1 \in 1..n
    BY <1>5
  <2> QED
    BY <1>2, <1>11, <2>1, <2>2, <2>3 DEF Probes
<1>13. Len(results) <= Len(plan')
  <2>1. Len(PlanOf(probes')) = n + 2
    BY <1>5, <1>11, <1>12, PlanSize
  <2> QED
    BY <1>1, <1>5, <2>1
<1>14. Sought'
  <2>1. Len(probes') <= Slot
    BY <1>5, <1>11
  <2>2. ASSUME NEW i \in 2..(n + 1)
        PROVE  /\ i <= Len(results)
               /\ probes'[i] = next_dependency_subset(Shown(probes', results, i - 1))
    <3>1. i - 1 \in Nat /\ \A j \in 1..(i - 1) : j \in 1..n
      BY <1>5
    <3>2. Shown(probes', results, i - 1) = Shown(probes, results, i - 1)
      BY <1>11, <3>1, ShownSame
    <3>3. CASE i \in 2..n
      BY <1>4, <1>11, <3>2, <3>3 DEF Sought, n
    <3>4. CASE i = n + 1
      <4>1. i - 1 = n
        BY <1>5, <3>4
      <4> QED
        BY <1>5, <1>6, <1>11, <3>2, <3>4, <4>1 DEF obs
    <3> QED
      BY <1>5, <3>3, <3>4
  <2> QED
    BY <1>1, <1>11, <2>1, <2>2 DEF Sought, Slot
<1>15. baseline_ok' /\ ResultsOk(results')
  BY <1>1, <1>2 DEF baseline_ok
<1>16. Schema # 1
  BY <1>3
<1> QED
  BY <1>1, <1>12, <1>13, <1>14, <1>15, <1>16 DEF ScanInv, LoopInv, DoneInv

LEMMA RunStep == ASSUME ScanInv, RunScenario PROVE ScanInv'
<1>1. /\ pc = "run" /\ pc' = "run" /\ probes' = probes /\ plan' = plan
      /\ Len(results) < Len(plan) /\ ~StopsAfterBaseline
  BY DEF RunScenario
<1>2. PICK r \in (IF results = <<>> THEN BaselineResults ELSE ProbeResults) :
         results' = Append(results, r)
  BY DEF RunScenario
<1> DEFINE n == Len(results)
           T == BaselineResults \cup ProbeResults
<1>3. /\ probes \in Probes /\ NoRepeats(probes) /\ probes[1] = Changes
      /\ plan = PlanOf(probes) /\ ResultsOk(results)
  BY DEF ScanInv, LoopInv
<1>4. results \in Seq(T) /\ n \in Nat
  BY <1>3 DEF ResultsOk
<1> HIDE DEF T
<1>5. /\ results' \in Seq(T) /\ Len(results') = n + 1
      /\ \A i \in 1..n : results'[i] = results[i]
      /\ results'[n + 1] = r
  <2>1. r \in T
    BY <1>2 DEF T
  <2> QED
    BY <1>2, <1>4, <2>1
<1>6. results # <<>> <=> n >= 1
  BY <1>4
<1>7. ResultsOk(results')
  <2>1. \A i \in 2..(n + 1) : results'[i] \in ProbeResults
    <3> TAKE i \in 2..(n + 1)
    <3>1. CASE i \in 2..n
      <4>1. i \in 1..n /\ results[i] \in ProbeResults
        BY <1>3, <3>1 DEF ResultsOk
      <4> QED
        BY <1>5, <4>1
    <3>2. CASE i = n + 1
      <4>1. results # <<>>
        BY <1>4, <1>6, <3>2
      <4> QED
        BY <1>2, <1>5, <3>2, <4>1
    <3> QED
      BY <1>4, <3>1, <3>2
  <2> QED
    BY <1>5, <2>1 DEF ResultsOk, T
<1>8. Len(results') <= Len(plan)
  BY <1>1, <1>3, <1>4, <1>5, PlanSize
<1>9. n + 1 >= 2 => baseline_ok'
  <2> SUFFICES ASSUME n + 1 >= 2 PROVE baseline_ok'
    OBVIOUS
  <2>1. results # <<>> /\ 1 \in 1..n
    BY <1>4, <1>6
  <2>2. baseline_ok
    BY <1>1, <2>1 DEF StopsAfterBaseline
  <2>3. results' # <<>> /\ results'[1] = results[1]
    BY <1>4, <1>5, <2>1
  <2> QED
    BY <2>2, <2>3 DEF baseline_ok
<1>10. Schema = 2 => Sought'
  <2> SUFFICES ASSUME Schema = 2 PROVE Sought'
    OBVIOUS
  <2>1. Sought
    BY DEF ScanInv, LoopInv
  <2>2. ASSUME NEW i \in 2..Len(probes)
        PROVE  /\ i <= Len(results')
               /\ probes[i] = next_dependency_subset(Shown(probes, results', i - 1))
    <3>1. i <= n /\ probes[i] = next_dependency_subset(Shown(probes, results, i - 1))
      BY <2>1 DEF Sought
    <3>2. i - 1 \in Nat /\ \A j \in 1..(i - 1) : j + 1 \in 1..n
      BY <1>4, <3>1
    <3>3. Shown(probes, results', i - 1) = Shown(probes, results, i - 1)
      BY <1>5, <3>2, ShownSame
    <3> QED
      BY <1>4, <1>5, <3>1, <3>3
  <2> QED
    BY <1>1, <2>1, <2>2 DEF Sought, Slot
<1>11. Schema = 1 => probes = exhaustive_nonempty_subsets
  BY DEF ScanInv, LoopInv
<1> QED
  BY <1>1, <1>3, <1>5, <1>7, <1>8, <1>9, <1>10, <1>11 DEF ScanInv, LoopInv, DoneInv

LEMMA FinalizeStep == ASSUME ScanInv, Finalize PROVE ScanInv'
<1>1. /\ LoopEnds /\ pc' = "done" /\ probes' = probes /\ plan' = plan /\ results' = results
      /\ reduction' = FinalReduction /\ frontier' = FinalFrontier(reduction')
  BY DEF Finalize, FinalReduction, FinalFrontier
<1>2. LoopInv'
  <2>1. LoopInv
    BY DEF ScanInv
  <2> QED
    BY <1>1, <2>1 DEF LoopInv, Sought, Slot, baseline_ok
<1>3. LoopEnds'
  BY <1>1 DEF LoopEnds, StopsAfterBaseline, MayExtend, next_probe, baseline_ok
<1>4. FinalReduction' = FinalReduction
  BY <1>1 DEF FinalReduction
<1>5. FinalFrontier(reduction)' = FinalFrontier(reduction')
  BY <1>1 DEF FinalFrontier, baseline_ok
<1> QED
  BY <1>1, <1>2, <1>3, <1>4, <1>5 DEF ScanInv, DoneInv

LEMMA StepInv == ScanInv /\ [Next]_vars => ScanInv'
<1> SUFFICES ASSUME ScanInv, [Next]_vars PROVE ScanInv'
  OBVIOUS
<1>1. CASE UNCHANGED vars
  <2>1. LoopInv'
    BY <1>1 DEF vars, ScanInv, LoopInv, Sought, Slot, baseline_ok
  <2>2. DoneInv'
    BY <1>1 DEF vars, ScanInv, DoneInv, LoopEnds, StopsAfterBaseline, MayExtend, next_probe,
                baseline_ok, FinalReduction, FinalFrontier
  <2> QED
    BY <2>1, <2>2 DEF ScanInv
<1> QED
  BY <1>1, ExtendStep, RunStep, FinalizeStep DEF Next

LEMMA Invariance == Spec => []ScanInv
BY LoopInit, StepInv, PTL DEF Spec

-----------------------------------------------------------------------------
(* What a finished scan rests on. *)

Seen == Observations(probes, plan, results)

Target1 == Seen[1].hash

\* Either nothing but the baseline has a result, or the results are a log.
LEMMA SeenIs ==
  ASSUME ScanInv
  PROVE  /\ Count(results) \in Nat /\ Count(results) <= Len(probes)
         /\ Seen = Shown(probes, results, Count(results))
         /\ Count(results) = 0 => Tested(Seen) = {}
         /\ Count(results) # 0 =>
              /\ Len(results) = Count(results) + 1 /\ baseline_ok
              /\ Log(Seen, Count(results))
              /\ \A i \in 1..Count(results) :
                   LET o == Seen[i]
                       r == results[i + 1]
                   IN  /\ i \in DOMAIN probes /\ i + 1 \in DOMAIN results
                       /\ ProbeOk(r) /\ o.ids = probes[i] /\ o.hash = r.failure.hash
                       /\ o.verdict = "Pass" <=> r.verdict = "FuturePass"
                       /\ o.verdict = "Fail" <=> r.verdict = "FutureFail"
                       /\ o.attempts = r.attempt
<1> DEFINE n == Count(results)
<1>1. /\ probes \in Probes /\ NoRepeats(probes) /\ probes[1] = Changes
      /\ plan = PlanOf(probes) /\ ResultsOk(results) /\ Len(results) <= Len(plan)
      /\ Len(results) >= 2 => baseline_ok
  BY DEF ScanInv, LoopInv
<1>2. n \in Nat /\ n <= Len(probes) /\ Seen = Shown(probes, results, n)
  BY <1>1, ObservationsAre DEF Seen
<1>3. /\ Len(results) \in Nat /\ DOMAIN results = 1..Len(results)
      /\ Len(probes) \in Nat /\ DOMAIN probes = 1..Len(probes)
  BY <1>1, PlanSize DEF ResultsOk
<1>4. n # 0 => Len(results) = n + 1
  BY <1>3 DEF Count
<1> HIDE DEF n
<1>5. ASSUME n = 0 PROVE Tested(Seen) = {}
  <2>1. DOMAIN Seen = {}
    BY <1>2, <1>5 DEF Shown
  <2> QED
    BY <2>1 DEF Tested
<1>6. ASSUME n # 0
      PROVE  /\ Len(results) = n + 1 /\ baseline_ok
             /\ Log(Seen, n)
             /\ \A i \in 1..n :
                  LET o == Seen[i]
                      r == results[i + 1]
                  IN  /\ i \in DOMAIN probes /\ i + 1 \in DOMAIN results
                      /\ ProbeOk(r) /\ o.ids = probes[i] /\ o.hash = r.failure.hash
                      /\ o.verdict = "Pass" <=> r.verdict = "FuturePass"
                      /\ o.verdict = "Fail" <=> r.verdict = "FutureFail"
                      /\ o.attempts = r.attempt
  <2>1. n \in Nat \ {0} /\ n + 1 <= Len(results) /\ Len(results) >= 2
    BY <1>2, <1>3, <1>4, <1>6
  <2>2. \A i \in 1..n : i \in 1..Len(probes) /\ i + 1 \in 1..Len(results)
    BY <1>2, <1>3, <1>4, <1>6
  <2>3. n \in Nat \ {0} /\ n <= Len(probes) /\ n + 1 <= Len(results) /\ ResultsOk(results)
        /\ probes \in Probes /\ NoRepeats(probes) /\ probes[1] = Changes
    BY <1>1, <1>2, <2>1
  <2>4. /\ Log(Shown(probes, results, n), n)
        /\ \A i \in 1..n :
             LET o == Shown(probes, results, n)[i]
                 r == results[i + 1]
             IN  /\ ProbeOk(r) /\ o.ids = probes[i] /\ o.hash = r.failure.hash
                 /\ o.verdict = "Pass" <=> r.verdict = "FuturePass"
                 /\ o.verdict = "Fail" <=> r.verdict = "FutureFail"
                 /\ o.attempts = r.attempt
    BY <2>3, ShownLog
  <2>5. Len(results) = n + 1 /\ baseline_ok
    BY <1>1, <1>4, <1>6, <2>1
  <2> QED
    BY <1>2, <1>3, <2>2, <2>4, <2>5
<1> QED
  BY <1>2, <1>5, <1>6 DEF n

\* The reduction of a finished scan.
LEMMA ReductionIs ==
  ASSUME ScanInv, pc = "done"
  PROVE  /\ reduction.probes = Seen
         /\ reduction.status = "ProvenMinimal" =>
              Count(results) # 0 /\ Failing(Seen) /\ reduction.authority = "Observed"
         /\ Count(results) # 0 /\ Failing(Seen) =>
              /\ reduction.hash = Target1 /\ reduction.minimal = Current(Seen, Target1)
              /\ reduction.status =
                   IF ProvenMinimal(Seen, BaselineObservation(plan, results),
                                    Current(Seen, Target1), Target1)
                   THEN "ProvenMinimal" ELSE "Inconclusive"
         /\ ~(Count(results) # 0 /\ Failing(Seen)) => reduction.hash = None
         /\ ~(Count(results) # 0 /\ Failing(Seen)) => reduction.minimal = Changes
<1> DEFINE base == BaselineObservation(plan, results)
           n    == Count(results)
<1>1. reduction = derive_dependency_reduction(Seen, base)
  BY DEF ScanInv, DoneInv, FinalReduction, Seen
<1>2. \A m, h, s : LET r == Reduction(m, h, s, Seen)
                   IN  /\ r.minimal = m /\ r.hash = h /\ r.status = s /\ r.probes = Seen
                       /\ s = "ProvenMinimal" => r.authority = "Observed"
  BY DEF Reduction
<1>3. CASE n = 0
  <2>1. reduction = Reduction(Changes, None, "Blocked", Seen)
    BY <1>1, <1>3, SeenIs DEF derive_dependency_reduction
  <2>2. "Blocked" # "ProvenMinimal"
    OBVIOUS
  <2> QED
    BY <1>2, <1>3, <2>1, <2>2
<1>4. CASE n # 0
  <2>1. Log(Seen, n)
    BY <1>4, SeenIs
  <2>2. Changes \in Tested(Seen) /\ At(Seen, Changes) = Seen[1] /\ ObsOk(Seen[1])
    BY <2>1, FullIs
  <2>3. Failing(Seen) <=> ~(~stable_target_failure(Seen[1], Target1) \/ Target1 = None)
    BY <2>2 DEF Failing, Stable, Target1
  <2>4. CASE Failing(Seen)
    <3>1. reduction = Reduction(Current(Seen, Target1), Target1,
                        IF ProvenMinimal(Seen, base, Current(Seen, Target1), Target1)
                        THEN "ProvenMinimal" ELSE "Inconclusive", Seen)
      BY <1>1, <2>2, <2>3, <2>4 DEF derive_dependency_reduction, Current, Target1
    <3> QED
      BY <1>2, <1>4, <2>4, <3>1
  <2>5. CASE ~Failing(Seen)
    <3>1. reduction = Reduction(Changes, None, NoStableFailure[Seen[1].verdict], Seen)
      BY <1>1, <2>2, <2>3, <2>5 DEF derive_dependency_reduction, Target1
    <3>2. NoStableFailure[Seen[1].verdict] # "ProvenMinimal"
      BY <2>2 DEF ObsOk, ProbeVerdicts, NoStableFailure
    <3> QED
      BY <1>2, <2>5, <3>1, <3>2
  <2> QED
    BY <2>4, <2>5
<1> QED
  BY <1>3, <1>4

\* The baseline of a scan with candidates is an observed pass.
LEMMA BaselineSeen ==
  ASSUME ScanInv, baseline_ok
  PROVE  LET o == BaselineObservation(plan, results)
         IN  /\ o.authority = "Observed" /\ o.verdict = "Pass"
             /\ \A t : Necessary(o, t)
<1> DEFINE o == BaselineObservation(plan, results)
<1>1. plan[1] = PlannedBaseline
  BY PlanIs DEF ScanInv, LoopInv
<1>2. plan[1].grade = "Observed"
  BY <1>1 DEF PlannedBaseline, Scenario
<1>3. results[1].verdict = "BaselinePass"
  BY DEF baseline_ok
<1>4. o.authority = "Observed" /\ o.verdict = "Pass"
  BY <1>2, <1>3 DEF BaselineObservation, Observation, dependency_probe_verdict
<1> QED
  BY <1>4 DEF Necessary

SameResult(r, h) == r.verdict = "FutureFail" /\ r.attempt >= 3 /\ r.failure.hash = h

OtherResult(r, h) ==
  \/ r.verdict \in {"BaselinePass", "FuturePass"}
  \/ r.verdict = "FutureFail" /\ r.failure.hash # h

Executed(S, i) == i \in DOMAIN probes /\ i + 1 \in DOMAIN results /\ probes[i] = S

\* What the log says of a subset, its execution shows.
LEMMA ExecutedSame ==
  ASSUME ScanInv, Count(results) # 0, NEW t, NEW S, Stable(Seen, S, t)
  PROVE  \E i : Executed(S, i) /\ SameResult(results[i + 1], t)
<1>1. Log(Seen, Count(results))
  BY SeenIs
<1>2. S \in Tested(Seen) /\ Same(At(Seen, S), t)
  BY <1>1, StableIs
<1>3. PICK i \in 1..Count(results) : Seen[i].ids = S /\ At(Seen, S) = Seen[i]
  BY <1>1, <1>2, AtOk
<1>4. /\ i \in DOMAIN probes /\ i + 1 \in DOMAIN results /\ probes[i] = S
      /\ ProbeOk(results[i + 1])
      /\ results[i + 1].verdict = "FutureFail" /\ results[i + 1].failure.hash = t
  BY <1>2, <1>3, SeenIs DEF Same
<1>5. results[i + 1].attempt >= 3
  BY <1>2, <1>4 DEF ProbeOk, Same
<1> QED
  BY <1>4, <1>5 DEF Executed, SameResult

LEMMA ExecutedOther ==
  ASSUME ScanInv, Count(results) # 0, NEW t, NEW S \in Tested(Seen), Necessary(At(Seen, S), t)
  PROVE  \E i : Executed(S, i) /\ OtherResult(results[i + 1], t)
<1>1. Log(Seen, Count(results))
  BY SeenIs
<1>2. PICK i \in 1..Count(results) : Seen[i].ids = S /\ At(Seen, S) = Seen[i]
  BY <1>1, AtOk
<1>3. Other(Seen[i], t)
  BY <1>1, <1>2, AtOk, ClassIs
<1>4. /\ i \in DOMAIN probes /\ i + 1 \in DOMAIN results /\ probes[i] = S
      /\ OtherResult(results[i + 1], t)
  BY <1>2, <1>3, SeenIs DEF Other, OtherResult
<1> QED
  BY <1>4 DEF Executed

-----------------------------------------------------------------------------
(* Types. *)

\* Until the end the reduction is the one nothing was observed for.
Underived == pc = "run" => reduction = Reduction(Changes, None, "Blocked", <<>>)

\* The plan grows to the budget and no further, a subset is planned once, and
\* the reduction is a nonempty set of changes (scan_with_adapter).
THEOREM TypeCorrect == Spec => []TypeOK
<1>1. Init => Underived
  BY DEF Init, Underived
<1>2. Underived /\ [Next]_vars => Underived'
  BY DEF Underived, Next, Extend, RunScenario, Finalize, vars
<1>3. ASSUME ScanInv, Underived PROVE TypeOK
  <2>1. /\ pc \in {"run", "done"} /\ probes \in Probes /\ NoRepeats(probes)
        /\ plan = PlanOf(probes) /\ Len(results) <= Len(plan) /\ ResultsOk(results)
        /\ Schema = 2 => Len(probes) <= Slot
    BY <1>3 DEF ScanInv, LoopInv, Sought
  <2>2. \A i \in DOMAIN probes : probes[i] \subseteq Changes /\ probes[i] # {}
    BY <2>1 DEF Probes
  <2>3. /\ Len(plan) = IF Len(probes) < MaxScenarios THEN Len(probes) + 1 ELSE MaxScenarios
        /\ Schema = 2 => Len(probes) < MaxScenarios
    BY <2>1, PlanSize, SlotType
  <2>4. reduction.minimal \subseteq Changes /\ reduction.minimal # {}
    <3>1. CASE pc = "run"
      BY <1>3, <3>1, ChangesAssumption DEF Underived, Reduction
    <3>2. CASE pc = "done"
      <4>1. CASE ~(Count(results) # 0 /\ Failing(Seen))
        BY <1>3, <3>2, <4>1, ReductionIs, ChangesAssumption
      <4>2. CASE Count(results) # 0 /\ Failing(Seen)
        <5>1. reduction.minimal = Current(Seen, Target1)
          BY <1>3, <3>2, <4>2, ReductionIs
        <5>2. Log(Seen, Count(results))
          BY <1>3, <4>2, SeenIs
        <5>3. StableFailures(Seen, Target1) # {}
          BY <4>2, <5>2, StableIs DEF Failing, Target1
        <5> QED
          BY <5>1, <5>2, <5>3, CurrentIs
      <4> QED
        BY <4>1, <4>2
    <3> QED
      BY <2>1, <3>1, <3>2
  <2> QED
    BY <2>1, <2>2, <2>3, <2>4 DEF TypeOK, NoRepeats, ResultsOk
<1> QED
  BY <1>1, <1>2, <1>3, Invariance, PTL DEF Spec

-----------------------------------------------------------------------------
\* PROVEN_MINIMAL stands on executions: the minimal set and every set with one
\* more change failed as the full candidate did, at least three times in a row;
\* with one change less the tests passed or failed in another way
\* (derive_observed_dependency_reduction, for any changes and either schema).
THEOREM ProvenCorrect == Spec => []ProvenIsMinimal
<1>1. ASSUME ScanInv PROVE ProvenIsMinimal
  <2> DEFINE S == reduction.minimal
             h == reduction.hash
             same(r) == /\ r.verdict = "FutureFail" /\ r.attempt >= 3
                        /\ r.failure.hash = h
             other(r) == \/ r.verdict \in {"BaselinePass", "FuturePass"}
                         \/ r.verdict = "FutureFail" /\ r.failure.hash # h
  <2> SUFFICES ASSUME pc = "done", reduction.status = "ProvenMinimal"
               PROVE  /\ Shows(Changes, same) /\ Shows(S, same)
                      /\ \A c \in Changes \ S : Shows(S \cup {c}, same)
                      /\ \A c \in S : IF S = {c} THEN other(results[1])
                                      ELSE Shows(S \ {c}, other)
    BY DEF ProvenIsMinimal
  <2>1. Count(results) # 0 /\ Failing(Seen)
    BY <1>1, ReductionIs
  <2>2. /\ h = Target1 /\ S = Current(Seen, Target1)
        /\ ProvenMinimal(Seen, BaselineObservation(plan, results), S, h)
    BY <1>1, <2>1, ReductionIs
  <2>3. Log(Seen, Count(results)) /\ baseline_ok
    BY <1>1, <2>1, SeenIs
  <2>4. Stable(Seen, Changes, h) /\ Stable(Seen, S, h)
    <3>1. Stable(Seen, Changes, h)
      BY <2>1, <2>2 DEF Failing, Target1
    <3>2. StableFailures(Seen, h) # {}
      BY <2>3, <3>1, StableIs
    <3> QED
      BY <2>2, <2>3, <3>1, <3>2, CurrentIs
  <2> HIDE DEF S, h
  <2>5. ASSUME NEW T, Stable(Seen, T, h)
        PROVE  Shows(T, same)
    <3>1. PICK i : Executed(T, i) /\ SameResult(results[i + 1], h)
      BY <1>1, <2>1, <2>5, ExecutedSame
    <3> QED
      BY <3>1 DEF Executed, SameResult, Shows
  <2>6. \A c \in Changes \ S : Shows(S \cup {c}, same)
    BY <2>2, <2>5 DEF ProvenMinimal
  <2>7. ASSUME NEW c \in S
        PROVE  IF S = {c} THEN other(results[1]) ELSE Shows(S \ {c}, other)
    <3>1. NecessaryChange(Seen, BaselineObservation(plan, results), S, c, h)
      BY <2>2 DEF ProvenMinimal
    <3>2. CASE S = {c}
      BY <2>3, <3>2 DEF baseline_ok
    <3>3. CASE S # {c}
      <4>1. S \ {c} # {}
        BY <3>3
      <4>2. S \ {c} \in Tested(Seen) /\ Necessary(At(Seen, S \ {c}), h)
        BY <3>1, <3>3, <4>1 DEF NecessaryChange, Subtraction
      <4>3. PICK i : Executed(S \ {c}, i) /\ OtherResult(results[i + 1], h)
        BY <1>1, <2>1, <4>2, ExecutedOther
      <4> QED
        BY <3>3, <4>3 DEF Executed, OtherResult, Shows
    <3> QED
      BY <3>2, <3>3
  <2> QED
    BY <2>4, <2>5, <2>6, <2>7
<1> QED
  BY <1>1, Invariance, PTL

\* The scenario that a horizon says to replay failed in the way that the
\* horizon reports, even when the minimal set replaces the first failure
\* (scan_with_adapter, compute_breakage_frontier).
THEOREM ReplayCorrect == Spec => []ReplayShowsHorizon
<1>1. ASSUME ScanInv PROVE ReplayShowsHorizon
  <2> SUFFICES ASSUME pc = "done", frontier.observed
               PROVE  /\ frontier.replay \in DOMAIN results
                      /\ results[frontier.replay].verdict = "FutureFail"
                      /\ results[frontier.replay].failure.hash = frontier.failure.hash
    BY DEF ReplayShowsHorizon
  <2> DEFINE first     == FirstOf(FutureFails(results))
             confirmed == first # 0 /\ results[first].attempt >= 2
             replay    == ReplayTarget(probes, results, reduction, first)
             last      == LastOf(PassesBefore(results, first))
  <2>1. frontier = compute_breakage_frontier(baseline_ok, results, confirmed, replay)
    BY <1>1 DEF ScanInv, DoneInv, FinalFrontier
  <2>2. \A i, j, f : ~NoHorizon(i, j, f).observed
    BY DEF NoHorizon
  <2> HIDE DEF confirmed, replay
  <2>3. /\ first # 0
        /\ frontier = [observed |-> TRUE, first_failing |-> first, last_passing |-> last,
                       failure |-> results[first].failure, replay |-> replay]
    <3> HIDE DEF first, last
    <3>1. frontier = IF ~baseline_ok THEN NoHorizon(0, 0, NoFailure)
                     ELSE IF first = 0 THEN NoHorizon(0, last, NoFailure)
                     ELSE IF ~confirmed THEN NoHorizon(first, last, results[first].failure)
                     ELSE [observed |-> TRUE, first_failing |-> first, last_passing |-> last,
                           failure |-> results[first].failure, replay |-> replay]
      BY <2>1 DEF compute_breakage_frontier, first, last
    <3> QED
      BY <2>2, <3>1
  <2>4. frontier.failure = results[first].failure /\ frontier.replay = replay
    BY <2>3
  <2>5. ResultsOk(results) /\ Len(results) \in Nat /\ DOMAIN results = 1..Len(results)
    BY <1>1 DEF ScanInv, LoopInv, ResultsOk
  <2>6. FutureFails(results) \in SUBSET Nat
    BY <2>5 DEF FutureFails
  <2>7. first \in FutureFails(results) /\ \A j \in FutureFails(results) : first <= j
    BY <2>3, <2>6, FirstOfLeast DEF FirstOf
  <2> HIDE DEF first
  <2>8. first \in DOMAIN results /\ first # 1 /\ results[first].verdict = "FutureFail"
    BY <2>7 DEF FutureFails
  <2>9. CASE reduction.status # "ProvenMinimal"
    <3>1. replay = first
      BY <2>9 DEF replay, ReplayTarget
    <3> QED
      BY <2>4, <2>8, <3>1
  <2>10. CASE reduction.status = "ProvenMinimal"
    <3> DEFINE S == reduction.minimal
               D == {i + 1 : i \in {j \in DOMAIN probes : probes[j] = S /\ j + 1 \in DOMAIN results}}
    <3>1. Count(results) # 0 /\ Failing(Seen)
      BY <1>1, <2>10, ReductionIs
    <3>2. Log(Seen, Count(results)) /\ S = Current(Seen, Target1)
      BY <1>1, <3>1, SeenIs, ReductionIs
    <3>3. Stable(Seen, Changes, Target1)
      BY <3>1 DEF Failing, Target1
    <3>4. Stable(Seen, S, Target1)
      BY <3>2, <3>3, StableIs, CurrentIs
    <3> HIDE DEF S
    <3>5. PICK i : Executed(S, i) /\ SameResult(results[i + 1], Target1)
      BY <1>1, <3>1, <3>4, ExecutedSame
    <3>6. PICK k : Executed(Changes, k) /\ SameResult(results[k + 1], Target1)
      BY <1>1, <3>1, <3>3, ExecutedSame
    <3>7. NoRepeats(probes) /\ probes[1] = Changes /\ DOMAIN probes = 1..Len(probes)
          /\ Len(probes) \in Nat /\ Len(probes) >= 1
      BY <1>1, PlanSize DEF ScanInv, LoopInv
    <3>8. k = 1
      BY <3>6, <3>7 DEF Executed, NoRepeats
    <3>9. first = 2
      <4>1. 2 \in FutureFails(results)
        BY <3>6, <3>8 DEF Executed, SameResult, FutureFails
      <4>2. first <= 2 /\ first \in 1..Len(results)
        BY <2>5, <2>7, <2>8, <4>1
      <4> QED
        BY <2>5, <2>8, <4>2
    <3>10. replay = FirstOf(D)
      BY <2>10 DEF replay, ReplayTarget, ScenarioOf, S
    <3>11. D = {i + 1}
      <4>1. \A j \in DOMAIN probes : probes[j] = S => j = i
        BY <3>5, <3>7 DEF Executed, NoRepeats
      <4> QED
        BY <3>5, <4>1 DEF Executed
    <3>12. i + 1 \in Nat
      BY <3>5, <3>7 DEF Executed
    <3> HIDE DEF D
    <3>13. replay = i + 1
      BY <3>10, <3>11, <3>12, FirstOfLeast
    <3> QED
      BY <2>4, <3>5, <3>6, <3>8, <3>9, <3>13 DEF Executed, SameResult
  <2> QED
    BY <2>9, <2>10
<1> QED
  BY <1>1, Invariance, PTL

-----------------------------------------------------------------------------
(* Where the search stops. *)

\* A subset of a set's elements without one of them comes before it.
LEMMA SmallerBefore ==
  ASSUME NEW S \in SUBSET Changes, NEW c \in S
  PROVE  Before(S \ {c}, S) /\ ~Before(S, S \ {c}) /\ S \ {c} # S
<1>1. IsFiniteSet(S) /\ Cardinality(S) \in Nat
  BY SubsetSize
<1>2. Cardinality(S \ {c}) = Cardinality(S) - 1
  BY <1>1, FS_RemoveElement
<1>3. Before(S \ {c}, S)
  BY <1>1, <1>2 DEF Before
<1>4. S \ {c} \in SUBSET Changes /\ S \ {c} # S
  OBVIOUS
<1> QED
  BY <1>3, <1>4, BeforeTotal

\* The subset that a decisive execution of an open deletion leaves settles it.
LEMMA DeletionDecides ==
  ASSUME NEW obs, NEW n, Log(obs, n), RerunsOnFailure >= 3, NEW t,
         StableFailures(obs, t) # {},
         NEW c \in OpenDeletions(obs, Current(obs, t), t),
         Current(obs, t) \ {c} \in Tested(obs)
  PROVE  At(obs, Current(obs, t) \ {c}).verdict \notin {"Pass", "Fail"}
<1> DEFINE S == Current(obs, t)
           o == At(obs, S \ {c})
<1>1. /\ S \in (SUBSET Changes) \ {{}}
      /\ \A T \in StableFailures(obs, t) : S = T \/ Before(S, T)
  BY CurrentIs
<1>2. c \in S /\ ~Decisive(obs, S \ {c}, t)
  BY DEF OpenDeletions
<1>3. ~Other(o, t)
  BY <1>2, StableIs
<1>4. ~Same(o, t)
  <2> SUFFICES ASSUME Same(o, t) PROVE FALSE
    OBVIOUS
  <2>1. S \ {c} \in StableFailures(obs, t)
    BY StableIs
  <2> HIDE DEF S
  <2>2. Before(S \ {c}, S) /\ ~Before(S, S \ {c}) /\ S \ {c} # S
    BY <1>1, <1>2, SmallerBefore
  <2> QED
    BY <1>1, <2>1, <2>2
<1> QED
  BY <1>3, <1>4 DEF Same, Other

\* With nothing open the minimal set is proven; with a deletion or an addition
\* open it is not.
LEMMA ProvenSettled ==
  ASSUME NEW obs, NEW n, Log(obs, n), NEW t, StableFailures(obs, t) # {},
         NEW base, \A h : Necessary(base, h)
  PROVE  ProvenMinimal(obs, base, Current(obs, t), t) <=> Settled(obs, t)
<1> DEFINE S == Current(obs, t)
<1>1. S \in (SUBSET Changes) \ {{}}
  BY CurrentIs
<1> HIDE DEF S
<1>2. ASSUME NEW c \in S
      PROVE  NecessaryChange(obs, base, S, c, t) <=> c \notin OpenDeletions(obs, S, t)
  <2>1. CASE S = {c}
    <3>1. S \ {c} = {}
      BY <2>1
    <3> QED
      BY <2>1, <3>1 DEF NecessaryChange, Subtraction, OpenDeletions
  <2>2. CASE S # {c}
    <3>1. S \ {c} # {}
      BY <1>2, <2>2
    <3>2. S \ {c} \in Tested(obs) =>
            (Necessary(At(obs, S \ {c}), t) <=> decisive_non_target(At(obs, S \ {c}), t))
      BY AtOk, ClassIs
    <3> QED
      BY <2>2, <3>1, <3>2 DEF NecessaryChange, Subtraction, OpenDeletions, Decisive
  <2> QED
    BY <2>1, <2>2
<1>3. (\A c \in S : NecessaryChange(obs, base, S, c, t)) <=> OpenDeletions(obs, S, t) = {}
  <2>1. \A c \in OpenDeletions(obs, S, t) : c \in S
    BY DEF OpenDeletions
  <2> QED
    BY <1>2, <2>1
<1>4. (\A c \in Changes \ S : Stable(obs, S \cup {c}, t)) <=> OpenAdditions(obs, S, t) = {}
  BY DEF OpenAdditions
<1> QED
  BY <1>3, <1>4 DEF ProvenMinimal, Settled, S

\* One observation more.
LEMMA OneMore ==
  ASSUME NEW m, NEW old, NEW new, Log(old, m), Log(new, m + 1),
         \A i \in 1..m : old[i] = new[i]
  PROVE  LET R == new[m + 1].ids IN
         /\ Tested(new) = Tested(old) \cup {R} /\ R \notin Tested(old)
         /\ At(new, R) = new[m + 1]
         /\ \A T \in Tested(old) : At(new, T) = At(old, T)
         /\ old[1] = new[1]
<1> DEFINE R == new[m + 1].ids
<1>1. m \in Nat \ {0} /\ \A i \in 1..(m + 1) : i \in 1..m \/ i = m + 1
  BY DEF Log
<1>2. 1..m \subseteq 1..(m + 1) /\ m + 1 \in 1..(m + 1) /\ m + 1 \notin 1..m
  BY <1>1
<1>3. R \notin Tested(old)
  <2> SUFFICES ASSUME NEW i \in 1..m, old[i].ids = R PROVE FALSE
    BY TestedIs
  <2> QED
    BY <1>2 DEF Log
<1>4. At(new, R) = new[m + 1]
  BY <1>2, AtIs
<1>5. ASSUME NEW T \in Tested(old)
      PROVE  T \in Tested(new) /\ At(new, T) = At(old, T)
  <2>1. PICK i \in 1..m : old[i].ids = T /\ At(old, T) = old[i]
    BY AtOk
  <2> QED
    BY <1>2, <2>1, AtIs
<1>6. R \in Tested(new)
  BY <1>2, AtIs
<1>7. ASSUME NEW T \in Tested(new), T # R
      PROVE  T \in Tested(old)
  <2>1. PICK i \in 1..(m + 1) : new[i].ids = T
    BY TestedIs
  <2>2. i \in 1..m
    BY <1>1, <1>7, <2>1
  <2> QED
    BY <2>1, <2>2, TestedIs
<1> HIDE DEF R
<1>8. Tested(new) = Tested(old) \cup {R}
  BY <1>5, <1>6, <1>7
<1>9. old[1] = new[1]
  BY <1>1
<1> QED
  BY <1>3, <1>4, <1>5, <1>8, <1>9 DEF R

\* An execution that decides nothing leaves open what it was to settle, and is
\* the last.
LEMMA UndecidedIsLast ==
  ASSUME NEW m, NEW old, NEW new, Log(old, m), Log(new, m + 1),
         \A i \in 1..m : old[i] = new[i],
         new[m + 1].ids = next_dependency_subset(old),
         new[m + 1].verdict \notin {"Pass", "Fail"}
  PROVE  ~Settled(new, new[1].hash) /\ next_dependency_subset(new) = {}
<1> DEFINE R == new[m + 1].ids
           t == new[1].hash
<1>1. /\ Tested(new) = Tested(old) \cup {R} /\ R \notin Tested(old)
      /\ At(new, R) = new[m + 1]
      /\ \A T \in Tested(old) : At(new, T) = At(old, T)
      /\ old[1] = new[1]
  BY OneMore
<1>2. R # {}
  <2>1. m + 1 \in 1..(m + 1)
    BY DEF Log
  <2> QED
    BY <2>1 DEF Log, ObsOk
<1>3. Failing(old) /\ Settles(old, t, R)
  BY <1>1, <1>2, NextIsNew
<1>4. ~Same(new[m + 1], t) /\ ~Other(new[m + 1], t)
  BY DEF Same, Other
<1> HIDE DEF R, t
<1>5. \A T : (Stable(new, T, t) <=> Stable(old, T, t)) /\ (Decisive(new, T, t) <=> Decisive(old, T, t))
  <2> TAKE T
  <2>1. /\ Stable(new, T, t) <=> T \in Tested(new) /\ Same(At(new, T), t)
        /\ Stable(old, T, t) <=> T \in Tested(old) /\ Same(At(old, T), t)
        /\ Decisive(new, T, t) <=> T \in Tested(new) /\ Other(At(new, T), t)
        /\ Decisive(old, T, t) <=> T \in Tested(old) /\ Other(At(old, T), t)
    BY StableIs
  <2> QED
    BY <1>1, <1>4, <2>1
<1>6. StableFailures(new, t) = StableFailures(old, t)
  <2>1. \A T : T \in StableFailures(new, t) <=> T \in StableFailures(old, t)
    BY <1>5, StableIs
  <2> QED
    BY <2>1
<1>7. Current(new, t) = Current(old, t)
  BY <1>6 DEF Current
<1>8. \A S : /\ OpenDeletions(new, S, t) = OpenDeletions(old, S, t)
             /\ OpenAdditions(new, S, t) = OpenAdditions(old, S, t)
  BY <1>5 DEF OpenDeletions, OpenAdditions
<1>9. \A Q : Settles(new, t, Q) <=> Settles(old, t, Q)
  BY <1>7, <1>8 DEF Settles, Deletes, Adds
<1>10. \A Q : Settles(new, t, Q) => Q = R
  BY <1>3, <1>9 DEF Settles, Deletes, Adds
<1>11. ~Settled(new, t)
  BY <1>3, <1>9 DEF Settles, Deletes, Adds, Settled
<1>12. Failing(new)
  BY <1>1, <1>3, <1>5 DEF Failing, t
<1>13. R \in Tested(new)
  BY <1>1
<1>14. \E Q : /\ Settles(new, t, Q)
              /\ next_dependency_subset(new) = IF Q \in Tested(new) THEN {} ELSE Q
  BY <1>11, <1>12, NextCases DEF t
<1> QED
  BY <1>10, <1>11, <1>13, <1>14 DEF t

\* In a finished adaptive scan nothing is left to request, or the budget is
\* spent, and an execution that decides nothing is the last.
LEMMA FinishedSearch ==
  ASSUME ScanInv, pc = "done", Schema = 2, Count(results) # 0
  PROVE  /\ Len(results) = Len(probes) + 1 /\ Count(results) = Len(probes)
         /\ next_probe = next_dependency_subset(Seen)
         /\ \A i \in 1..Count(results) :
              Seen[i].verdict \notin {"Pass", "Fail"} => ~Failing(Seen) \/ ~Settled(Seen, Target1)
<1> DEFINE n == Count(results)
<1>1. /\ probes \in Probes /\ NoRepeats(probes) /\ probes[1] = Changes
      /\ plan = PlanOf(probes) /\ Sought /\ LoopEnds
  BY DEF ScanInv, LoopInv, DoneInv
<1>2. /\ n \in Nat /\ n <= Len(probes) /\ Len(results) = n + 1 /\ baseline_ok /\ Log(Seen, n)
      /\ Seen = Shown(probes, results, n)
  BY SeenIs
<1>3. Len(plan) = Len(probes) + 1 /\ Len(probes) \in Nat /\ DOMAIN probes = 1..Len(probes)
  BY <1>1, PlanSize DEF Sought
<1>4. Len(results) = Len(plan)
  BY <1>1, <1>2 DEF LoopEnds, StopsAfterBaseline
<1>5. n = Len(probes)
  BY <1>2, <1>3, <1>4
<1>6. next_probe = next_dependency_subset(Seen)
  BY <1>3, <1>4 DEF next_probe, Seen
<1> HIDE DEF n
<1>7. ASSUME NEW i \in 1..n, Seen[i].verdict \notin {"Pass", "Fail"}, Failing(Seen),
             Settled(Seen, Target1)
      PROVE  FALSE
  <2> DEFINE new == Shown(probes, results, i)
             old == Shown(probes, results, i - 1)
  <2>1. Seen[1].verdict = "Fail"
    <3>1. At(Seen, Changes) = Seen[1]
      BY <1>2, FullIs
    <3>2. Same(At(Seen, Changes), Seen[1].hash)
      BY <1>2, <1>7, StableIs DEF Failing
    <3> QED
      BY <3>1, <3>2 DEF Same
  <2>2. i \in 2..n /\ i - 1 \in Nat \ {0}
    BY <1>2, <1>7, <2>1
  <2>3. ResultsOk(results)
    BY DEF ScanInv, LoopInv
  <2>4. Log(old, i - 1)
    <3>1. i - 1 <= Len(probes) /\ i - 1 + 1 <= Len(results)
      BY <1>2, <1>5, <2>2
    <3> QED
      BY <1>1, <2>2, <2>3, <3>1, ShownLog
  <2>5. Log(new, i) /\ new[i].ids = probes[i]
    <3>1. i \in Nat \ {0} /\ i <= Len(probes) /\ i + 1 <= Len(results) /\ i \in 1..i
      BY <1>2, <1>5, <2>2
    <3> QED
      BY <1>1, <2>3, <3>1, ShownLog
  <2>6. /\ \A k \in 1..(i - 1) : old[k] = new[k]
        /\ \A k \in 1..i : new[k] = Seen[k]
    BY <1>2, <2>2 DEF Shown
  <2>7. new[i].verdict \notin {"Pass", "Fail"}
    BY <1>2, <1>7, <2>2, <2>6
  <2>8. probes[i] = next_dependency_subset(old)
    BY <1>1, <1>5, <2>2 DEF Sought
  <2>9. i - 1 + 1 = i
    BY <2>2
  <2> HIDE DEF old, new
  <2>10. ~Settled(new, new[1].hash) /\ next_dependency_subset(new) = {}
    BY <2>4, <2>5, <2>6, <2>7, <2>8, <2>9, UndecidedIsLast
  <2>11. CASE i = n
    BY <1>2, <1>7, <2>10, <2>11 DEF new, Target1
  <2>12. CASE i # n
    <3>1. i + 1 \in 2..Len(probes) /\ i + 1 - 1 = i
      BY <1>2, <1>5, <2>2, <2>12
    <3>2. probes[i + 1] = {}
      BY <1>1, <2>10, <3>1 DEF Sought, new
    <3>3. probes[i + 1] \in (SUBSET Changes) \ {{}}
      BY <1>1, <3>1 DEF Probes
    <3> QED
      BY <3>2, <3>3
  <2> QED
    BY <2>11, <2>12
<1> QED
  BY <1>2, <1>3, <1>4, <1>5, <1>6, <1>7 DEF n

\* A search that the budget cuts off or that an undecided execution stops is
\* not called proven, and one that is neither is proven unless an added change
\* altered the failure (next_dependency_subset and
\* derive_observed_dependency_reduction agree on when the search is over).
THEOREM ExplainedCorrect == Spec => []UnprovenIsExplained
<1>1. ASSUME ScanInv PROVE UnprovenIsExplained
  <2> DEFINE t == Target1
             S == Current(Seen, t)
             n == Count(results)
             undecided == \E i \in DOMAIN results : results[i].verdict \in Indecisive
             altered == \E c \in Changes \ S : /\ S \cup {c} \in Tested(Seen)
                                               /\ ~Stable(Seen, S \cup {c}, t)
  <2>1. SUFFICES ASSUME pc = "done", Schema = 2,
                        Stable(reduction.probes, Changes, reduction.hash)
                 PROVE  reduction.status = "Inconclusive" <=>
                          \/ next_probe # {} \/ undecided
                          \/ \E c \in Changes \ reduction.minimal :
                               /\ reduction.minimal \cup {c} \in Tested(reduction.probes)
                               /\ ~Stable(reduction.probes, reduction.minimal \cup {c},
                                          reduction.hash)
    BY DEF UnprovenIsExplained, Indecisive
  <2>2. reduction.probes = Seen
    BY <1>1, <2>1, ReductionIs
  <2>3. n # 0
    BY <1>1, <2>1, <2>2, SeenIs DEF Stable
  <2>4. Log(Seen, n) /\ baseline_ok
    BY <1>1, <2>3, SeenIs
  <2>5. Failing(Seen)
    <3> SUFFICES ASSUME ~Failing(Seen) PROVE FALSE
      OBVIOUS
    <3>1. reduction.hash = None
      BY <1>1, <2>1, ReductionIs
    <3>2. Same(Seen[1], None) /\ ObsOk(Seen[1])
      <4>1. At(Seen, Changes) = Seen[1] /\ ObsOk(Seen[1])
        BY <2>4, FullIs
      <4>2. Same(At(Seen, Changes), None)
        BY <2>1, <2>2, <2>4, <3>1, StableIs
      <4> QED
        BY <4>1, <4>2
    <3> QED
      BY <3>2 DEF Same, ObsOk
  <2>6. reduction.hash = t /\ reduction.minimal = S
    BY <1>1, <2>1, <2>3, <2>5, ReductionIs
  <2>7. StableFailures(Seen, t) # {}
    BY <2>4, <2>5, StableIs DEF Failing, Target1
  <2>8. reduction.status = "Inconclusive" <=> ~Settled(Seen, t)
    <3>1. \A h : Necessary(BaselineObservation(plan, results), h)
      BY <1>1, <2>4, BaselineSeen
    <3>2. ProvenMinimal(Seen, BaselineObservation(plan, results), S, t) <=> Settled(Seen, t)
      BY <2>4, <2>7, <3>1, ProvenSettled
    <3>3. reduction.status =
            IF ProvenMinimal(Seen, BaselineObservation(plan, results), S, t)
            THEN "ProvenMinimal" ELSE "Inconclusive"
      BY <1>1, <2>1, <2>3, <2>5, ReductionIs
    <3> HIDE DEF t, S
    <3> QED
      BY <3>2, <3>3
  <2>9. next_probe = next_dependency_subset(Seen)
    BY <1>1, <2>1, <2>3, FinishedSearch
  <2> HIDE DEF n
  <2>10. ASSUME ~Settled(Seen, t), next_probe = {}
         PROVE  undecided \/ altered
    <3>1. PICK Q : /\ Settles(Seen, t, Q)
                   /\ next_dependency_subset(Seen) = IF Q \in Tested(Seen) THEN {} ELSE Q
      BY <2>4, <2>5, <2>10, NextCases DEF Target1
    <3>2. Q # {}
      BY <2>4, <2>5, <3>1, SettlesType DEF Target1
    <3>3. Q \in Tested(Seen)
      BY <2>9, <2>10, <3>1, <3>2
    <3>4. CASE Deletes(Seen, t, Q)
      <4>1. PICK c \in OpenDeletions(Seen, S, t) : Q = S \ {c}
        BY <3>4 DEF Deletes
      <4>2. RerunsOnFailure >= 3
        BY <2>1, ExperimentAssumption
      <4>3. At(Seen, Q).verdict \notin {"Pass", "Fail"}
        BY <2>4, <2>7, <3>3, <4>1, <4>2, DeletionDecides
      <4>4. PICK i \in 1..n : At(Seen, Q) = Seen[i]
        BY <2>4, <3>3, AtOk
      <4>5. /\ i + 1 \in DOMAIN results /\ ProbeOk(results[i + 1])
            /\ results[i + 1].verdict \notin {"FuturePass", "FutureFail"}
        BY <1>1, <2>3, <4>3, <4>4, SeenIs DEF n
      <4> QED
        BY <4>5 DEF ProbeOk
    <3>5. CASE Adds(Seen, t, Q)
      BY <3>3, <3>5 DEF Adds, OpenAdditions
    <3> QED
      BY <3>1, <3>4, <3>5 DEF Settles
  <2>11. next_probe # {} => ~Settled(Seen, t)
    BY <2>4, <2>5, <2>9, NextCases DEF Target1
  <2>12. altered => ~Settled(Seen, t)
    BY DEF Settled, OpenAdditions
  <2>13. undecided => ~Settled(Seen, t)
    <3> SUFFICES ASSUME NEW k \in DOMAIN results, results[k].verdict \in Indecisive
                 PROVE  ~Settled(Seen, t)
      OBVIOUS
    <3>1. /\ n \in Nat /\ Len(results) = n + 1 /\ DOMAIN results = 1..(n + 1)
          /\ results[1].verdict = "BaselinePass"
      BY <1>1, <2>3, SeenIs DEF n, baseline_ok, ScanInv, LoopInv, ResultsOk
    <3>2. k # 1
      BY <3>1 DEF Indecisive
    <3>3. k - 1 \in 1..n /\ k - 1 + 1 = k
      BY <3>1, <3>2
    <3>4. Seen[k - 1].verdict \notin {"Pass", "Fail"}
      <4>1. results[k].verdict \notin {"FuturePass", "FutureFail"}
        BY DEF Indecisive
      <4> QED
        BY <1>1, <2>3, <3>3, <4>1, SeenIs DEF n
    <3> QED
      BY <1>1, <2>1, <2>3, <2>5, <3>3, <3>4, FinishedSearch DEF n
  <2> HIDE DEF t, S, undecided
  <2>14. reduction.status = "Inconclusive" <=> next_probe # {} \/ undecided \/ altered
    BY <2>8, <2>10, <2>11, <2>12, <2>13
  <2> QED
    BY <2>2, <2>6, <2>14
<1> QED
  BY <1>1, Invariance, PTL

-----------------------------------------------------------------------------
(* The verifier. *)

\* The verifier finds the observations in order; the schedule it replays is the
\* scan's.
LEMMA PrefixShown ==
  ASSUME NEW ps, NEW rs, NEW n \in Nat, NEW k \in Nat, k <= n
  PROVE  SubSeq(Shown(ps, rs, n), 1, k) = Shown(ps, rs, k)
BY DEF Shown

LEMMA ValidLog ==
  ASSUME NEW obs, NEW n, Log(obs, n)
  PROVE  ValidObservations(obs)
<1>1. ASSUME NEW o, ObsOk(o) PROVE ValidObservation(o)
  <2>1. o.verdict = "Fail" => o.attempts \in Nat /\ o.attempts # 0
    BY <1>1, ExperimentAssumption DEF ObsOk
  <2>2. o.verdict = "Pass" => o.attempts # 0
    BY <1>1 DEF ObsOk
  <2> QED
    BY <1>1, <2>1, <2>2 DEF ObsOk, ValidObservation
<1> QED
  BY <1>1 DEF Log, ValidObservations

\* Every set of the log is found by the verifier's table, and nothing else.
LEMMA TableIs ==
  ASSUME ScanInv, Count(results) # 0
  PROVE  LET seen == ObservedBySubset(probes, plan, results) IN
         /\ DOMAIN seen = Tested(Seen) \cup {{}}
         /\ seen[{}] = BaselineObservation(plan, results)
         /\ \A T \in Tested(Seen) : T # {} /\ seen[T] = At(Seen, T)
<1> DEFINE n == Count(results)
           seen == ObservedBySubset(probes, plan, results)
           D == {T \in SUBSET Changes : IF T = {} THEN results # <<>>
                                        ELSE HasResult(probes, results, T)}
<1>1. /\ n \in Nat /\ n # 0 /\ n <= Len(probes) /\ Len(results) = n + 1 /\ Log(Seen, n)
      /\ \A i \in 1..n : Seen[i].ids = probes[i] /\ i \in DOMAIN probes /\ i + 1 \in DOMAIN results
  BY SeenIs
<1>2. /\ NoRepeats(probes) /\ DOMAIN probes = 1..Len(probes) /\ Len(probes) \in Nat
      /\ DOMAIN results = 1..Len(results) /\ results # <<>>
  BY <1>1, PlanSize DEF ScanInv, LoopInv, ResultsOk
<1> HIDE DEF n
<1>3. \A T : HasResult(probes, results, T) <=> T \in Tested(Seen)
  <2> TAKE T
  <2>1. \A j \in 1..Len(probes) : j + 1 \in 1..(n + 1) <=> j \in 1..n
    BY <1>1, <1>2
  <2>2. HasResult(probes, results, T) <=> \E j \in 1..n : probes[j] = T
    BY <1>1, <1>2, <2>1 DEF HasResult
  <2> QED
    BY <1>1, <2>2, TestedIs
<1>4. \A T \in Tested(Seen) : T \in (SUBSET Changes) \ {{}}
  BY <1>1, AtOk
<1>5. D = Tested(Seen) \cup {{}}
  BY <1>2, <1>3, <1>4
<1>6. DOMAIN seen = D
  BY DEF ObservedBySubset
<1>7. seen[{}] = BaselineObservation(plan, results)
  <2>1. {} \in D
    BY <1>5
  <2> QED
    BY <2>1 DEF ObservedBySubset
<1>8. ASSUME NEW T \in Tested(Seen)
      PROVE  T # {} /\ seen[T] = At(Seen, T)
  <2> DEFINE i == CHOOSE j \in DOMAIN probes : probes[j] = T
  <2>1. PICK k \in 1..n : Seen[k].ids = T /\ At(Seen, T) = Seen[k]
    BY <1>1, AtOk
  <2>2. k \in DOMAIN probes /\ probes[k] = T
    BY <1>1, <2>1
  <2>3. i = k
    BY <1>2, <2>2 DEF NoRepeats
  <2>4. T \in D /\ T # {}
    BY <1>4, <1>5
  <2>5. seen[T] = Observation(T, results[i + 1], plan[i + 1].grade)
    BY <2>4 DEF ObservedBySubset
  <2>6. k + 1 \in DOMAIN results
    BY <1>1
  <2>7. Seen[k] = Observation(probes[k], results[k + 1], plan[k + 1].grade)
    BY <2>2, <2>6 DEF Seen, Observations
  <2> QED
    BY <2>1, <2>2, <2>3, <2>4, <2>5, <2>7
<1> QED
  BY <1>5, <1>6, <1>7, <1>8

\* Runner and verifier derive one reduction, each in its own way.
LEMMA SameReduction ==
  ASSUME ScanInv, pc = "done"
  PROVE  ReductionOk(probes, plan, results, reduction)
<1> DEFINE base    == BaselineObservation(plan, results)
           n       == Count(results)
           seen    == ObservedBySubset(probes, plan, results)
           hash    == StableHash(seen[Changes])
           failing == {S \in (DOMAIN seen) \ {{}} : SameFailure(seen[S], hash)}
           minimal == CHOOSE S \in failing : \A T \in failing : ~Before(T, S)
<1>1. reduction = derive_dependency_reduction(Seen, base)
  BY DEF ScanInv, DoneInv, FinalReduction, Seen
<1>2. derive_expected_dependency_reduction(probes, plan, results) =
        IF Changes \notin DOMAIN seen THEN Reduction(Changes, None, "Blocked", Seen)
        ELSE IF hash = None
        THEN Reduction(Changes, None, StatusOf(seen[Changes].verdict), Seen)
        ELSE Reduction(minimal, hash,
               IF ProofHolds(seen, minimal, hash) THEN "ProvenMinimal" ELSE "Inconclusive", Seen)
  BY DEF derive_expected_dependency_reduction, Seen
<1> HIDE DEF seen, hash, failing, minimal
<1>3. CASE n = 0
  <2>1. reduction = Reduction(Changes, None, "Blocked", Seen)
    BY <1>1, <1>3, SeenIs DEF derive_dependency_reduction
  <2>2. Changes \notin DOMAIN seen
    <3>1. /\ Len(results) \in Nat /\ DOMAIN results = 1..Len(results) /\ Len(results) < 2
          /\ Len(probes) \in Nat /\ DOMAIN probes = 1..Len(probes)
      BY <1>3, PlanSize DEF ScanInv, LoopInv, ResultsOk, Count
    <3>2. ~HasResult(probes, results, Changes)
      <4>1. \A i \in 1..Len(probes) : i + 1 \notin 1..Len(results)
        BY <3>1
      <4> QED
        BY <3>1, <4>1 DEF HasResult
    <3>3. Changes # {}
      BY ChangesAssumption
    <3> QED
      BY <3>2, <3>3 DEF seen, ObservedBySubset
  <2> QED
    BY <1>2, <2>1, <2>2 DEF ReductionOk
<1>4. CASE n # 0
  <2>1. Log(Seen, n) /\ baseline_ok
    BY <1>4, SeenIs
  <2>2. Changes \in Tested(Seen) /\ At(Seen, Changes) = Seen[1] /\ ObsOk(Seen[1])
    BY <2>1, FullIs
  <2>3. /\ DOMAIN seen = Tested(Seen) \cup {{}} /\ seen[{}] = base
        /\ \A T \in Tested(Seen) : T # {} /\ seen[T] = At(Seen, T)
    BY <1>4, TableIs DEF seen
  <2> HIDE DEF base
  <2>4. seen[Changes] = Seen[1] /\ Changes \in DOMAIN seen
    BY <2>2, <2>3
  <2>5. \A o, h : SameFailure(o, h) <=> stable_target_failure(o, h)
    BY DEF SameFailure, stable_target_failure
  <2>6. Failing(Seen) <=> hash # None
    BY <2>2, <2>4, <2>5 DEF hash, StableHash, Failing, Stable
  <2>7. CASE ~Failing(Seen)
    <3>1. reduction = Reduction(Changes, None, NoStableFailure[Seen[1].verdict], Seen)
      BY <1>1, <2>2, <2>7 DEF derive_dependency_reduction, Failing, Stable
    <3>2. NoStableFailure[Seen[1].verdict] = StatusOf(Seen[1].verdict)
      BY <2>2 DEF ObsOk, ProbeVerdicts, NoStableFailure, StatusOf
    <3> QED
      BY <1>2, <2>4, <2>6, <2>7, <3>1, <3>2 DEF ReductionOk
  <2>8. CASE Failing(Seen)
    <3> DEFINE t == Target1
               S == Current(Seen, t)
    <3>1. hash = t /\ t # None
      BY <2>2, <2>4, <2>5, <2>8 DEF hash, StableHash, Failing, Stable, Target1
    <3>2. StableFailures(Seen, t) # {}
      BY <2>1, <2>8, StableIs DEF Failing, Target1
    <3>3. failing = StableFailures(Seen, t)
      <4>1. \A T : T \in (DOMAIN seen) \ {{}} <=> T \in Tested(Seen)
        BY <2>3
      <4> QED
        BY <2>3, <2>5, <3>1, <4>1 DEF failing, StableFailures
    <3>4. minimal = S /\ S \in StableFailures(Seen, t) /\ S # {}
      <4>1. failing \in SUBSET SUBSET Changes /\ failing # {} /\ \A T \in failing : T # {}
        BY <2>1, <3>2, <3>3, StableIs
      <4>2. S = Smallest(failing)
        BY <3>3 DEF Current
      <4>3. S \in failing /\ \A T \in failing : S = T \/ Before(S, T)
        BY <4>1, <4>2, SmallestIs
      <4> HIDE DEF S
      <4>4. \A T \in failing : ~Before(T, S)
        BY <4>1, <4>3, BeforeSelf, BeforeTotal
      <4>5. \E T \in failing : \A U \in failing : ~Before(U, T)
        BY <4>3, <4>4
      <4>6. minimal \in failing /\ \A T \in failing : ~Before(T, minimal)
        BY <4>5 DEF minimal
      <4>7. minimal = S
        BY <4>1, <4>2, <4>6, SmallestOnly
      <4> QED
        BY <3>3, <4>1, <4>3, <4>7
    <3> HIDE DEF t, S
    <3>5. \A c \in Changes \ S : Irrelevant(seen, S \cup {c}, t) <=> Stable(Seen, S \cup {c}, t)
      <4> TAKE c \in Changes \ S
      <4>1. S \cup {c} # {}
        OBVIOUS
      <4>2. S \cup {c} \in DOMAIN seen <=> S \cup {c} \in Tested(Seen)
        BY <2>3, <4>1
      <4> QED
        BY <2>3, <2>5, <4>2 DEF Irrelevant, Stable
    <3>6. \A c \in S : DeletionNecessary(seen, S \ {c}, t) <=> NecessaryChange(Seen, base, S, c, t)
      <4> TAKE c \in S
      <4>1. CASE S = {c}
        <5>1. S \ {c} = {} /\ {} \in DOMAIN seen
          BY <2>3, <4>1
        <5> QED
          BY <2>3, <4>1, <5>1 DEF DeletionNecessary, NecessaryChange, Subtraction, Necessary
      <4>2. CASE S # {c}
        <5>1. S \ {c} # {}
          BY <4>2
        <5>2. S \ {c} \in DOMAIN seen <=> S \ {c} \in Tested(Seen)
          BY <2>3, <5>1
        <5> QED
          BY <2>3, <4>2, <5>1, <5>2 DEF DeletionNecessary, NecessaryChange, Subtraction, Necessary
      <4> QED
        BY <4>1, <4>2
    <3>7. ProofHolds(seen, S, t) <=> ProvenMinimal(Seen, base, S, t)
      BY <3>5, <3>6 DEF ProofHolds, ProvenMinimal
    <3>8. reduction = Reduction(S, t, IF ProvenMinimal(Seen, base, S, t)
                                      THEN "ProvenMinimal" ELSE "Inconclusive", Seen)
      BY <1>1, <2>2, <2>8, <3>1 DEF derive_dependency_reduction, Current, S, t, Target1, Failing,
         Stable
    <3> QED
      BY <1>2, <2>4, <3>1, <3>4, <3>7, <3>8 DEF ReductionOk
  <2> QED
    BY <2>7, <2>8
<1> QED
  BY <1>3, <1>4

LEMMA SameFrontier ==
  ASSUME ScanInv, pc = "done"
  PROVE  frontier = ExpectedFrontier(probes, results, reduction)
<1> DEFINE first     == FirstOf(FutureFails(results))
           confirmed == first # 0 /\ results[first].attempt >= 2
           mine      == ReplayTarget(probes, results, reduction, first)
           theirs    == ReplayOf(probes, results, reduction, first)
<1>1. frontier = compute_breakage_frontier(baseline_ok, results, confirmed, mine)
  BY DEF ScanInv, DoneInv, FinalFrontier
<1>2. ExpectedFrontier(probes, results, reduction) =
        compute_breakage_frontier(baseline_ok, results, confirmed, IF confirmed THEN theirs ELSE 0)
  BY DEF ExpectedFrontier, BaselinePassed, baseline_ok
<1>3. mine = theirs
  BY ReductionIs DEF ReplayTarget, ReplayOf
<1> HIDE DEF confirmed, mine, theirs, first
<1>4. \A b : compute_breakage_frontier(b, results, confirmed, mine) =
             compute_breakage_frontier(b, results, confirmed, IF confirmed THEN mine ELSE 0)
  BY DEF compute_breakage_frontier
<1> QED
  BY <1>1, <1>2, <1>3, <1>4

LEMMA SameProbes ==
  ASSUME ScanInv, pc = "done"
  PROVE  ProbesOk(probes, plan, results)
<1> DEFINE n == Count(results)
<1>1. /\ probes \in Probes /\ probes[1] = Changes /\ plan = PlanOf(probes) /\ LoopEnds
      /\ ResultsOk(results)
      /\ Schema = 1 => probes = exhaustive_nonempty_subsets
      /\ Schema = 2 => Sought
  BY DEF ScanInv, LoopInv, DoneInv
<1>2. CASE Schema = 1
  BY <1>1, <1>2, ExhaustiveOk DEF ProbesOk
<1>3. CASE Schema = 2
  <2>1. /\ Sought /\ Len(plan) = Len(probes) + 1 /\ Len(probes) \in Nat /\ Len(probes) >= 1
        /\ DOMAIN probes = 1..Len(probes) /\ probes # <<>>
    BY <1>1, <1>3, PlanSize DEF Sought, Probes
  <2>2. Len(results) \in Nat /\ (results # <<>> <=> Len(results) >= 1)
    BY <1>1 DEF ResultsOk
  <2>3. results # <<>>
    BY <1>1, <2>1, <2>2 DEF LoopEnds, StopsAfterBaseline
  <2>4. plan[1].grade = "Observed"
    BY <1>1, PlanIs DEF PlannedBaseline, Scenario
  <2>5. ObservedPass(plan, results) <=> baseline_ok
    BY <2>4 DEF ObservedPass, BaselinePassed, baseline_ok
  <2>6. CASE n = 0
    <3>1. Len(results) = 1
      BY <2>2, <2>3, <2>6 DEF Count
    <3>2. ~baseline_ok
      BY <1>1, <2>1, <3>1 DEF LoopEnds, StopsAfterBaseline
    <3>3. Len(probes) = 1
      <4> SUFFICES ASSUME Len(probes) >= 2 PROVE FALSE
        BY <2>1
      <4>1. 2 \in 2..Len(probes)
        BY <2>1
      <4> QED
        BY <2>1, <3>1, <4>1 DEF Sought
    <3>4. AdaptiveProbesOk(probes, plan, results)
      BY <1>1, <2>1, <2>3, <2>5, <3>1, <3>2, <3>3 DEF AdaptiveProbesOk
    <3> QED
      BY <1>3, <3>4 DEF ProbesOk
  <2>7. CASE n # 0
    <3>1. /\ Len(results) = Len(probes) + 1 /\ n = Len(probes)
          /\ next_probe = next_dependency_subset(Seen)
      BY <1>3, <2>7, FinishedSearch
    <3>2. baseline_ok /\ Log(Seen, n) /\ Seen = Shown(probes, results, n)
      BY <2>7, SeenIs
    <3>3. Len(probes) + 1 <= MaxScenarios
      BY <2>1, SlotType DEF Sought
    <3>4. ValidObservations(Seen)
      BY <3>2, ValidLog
    <3>5. EachIsNext(probes, Seen)
      <4> SUFFICES ASSUME NEW i \in 1..Len(probes)
                   PROVE  probes[i] = next_dependency_subset(SubSeq(Seen, 1, i - 1))
        BY <2>1 DEF EachIsNext
      <4> HIDE DEF n
      <4>1. i - 1 \in Nat /\ i - 1 <= n /\ n \in Nat
        BY <2>1, <3>1
      <4>2. SubSeq(Seen, 1, i - 1) = Shown(probes, results, i - 1)
        BY <3>2, <4>1, PrefixShown
      <4>3. CASE i = 1
        <5>1. Shown(probes, results, 0) = <<>>
          BY DEF Shown
        <5>2. i - 1 = 0
          BY <4>3
        <5>3. next_dependency_subset(<<>>) = Changes
          BY DEF next_dependency_subset
        <5> QED
          BY <1>1, <4>2, <4>3, <5>1, <5>2, <5>3
      <4>4. CASE i # 1
        <5>1. i \in 2..Len(probes)
          BY <2>1, <4>4
        <5> QED
          BY <2>1, <4>2, <5>1 DEF Sought
      <4> QED
        BY <4>3, <4>4
    <3>6. StopsWhereItMay(probes, Seen)
      <4> SUFFICES ASSUME Len(probes) + 1 < MaxScenarios, next_probe # {} PROVE FALSE
        BY <3>1 DEF StopsWhereItMay
      <4>1. MayExtend
        BY <2>1, <3>1, <3>2 DEF MayExtend
      <4> QED
        BY <1>1, <3>2, <4>1 DEF LoopEnds, StopsAfterBaseline
    <3>7. AdaptiveProbesOk(probes, plan, results)
      BY <1>1, <2>1, <2>3, <2>5, <3>1, <3>2, <3>3, <3>4, <3>5, <3>6 DEF AdaptiveProbesOk, Seen
    <3> QED
      BY <1>3, <3>7 DEF ProbesOk
  <2> QED
    BY <2>6, <2>7
<1> QED
  BY <1>2, <1>3, VerifierAssumption

\* The verifier accepts every finished bundle: it expects the probes that were
\* run, derives the reduction that was derived and the frontier that follows
\* (verify_dependency_semantics and scan_with_adapter agree).
THEOREM AcceptedCorrect == Spec => []BundleIsAccepted
<1>1. ASSUME ScanInv PROVE BundleIsAccepted
  <2> SUFFICES ASSUME pc = "done"
               PROVE  BundleVerifies(probes, plan, results, reduction, frontier)
    BY DEF BundleIsAccepted
  <2>1. /\ probes \in Probes /\ plan = PlanOf(probes) /\ LoopEnds /\ ResultsOk(results)
        /\ Len(results) >= 2 => baseline_ok
    BY <1>1 DEF ScanInv, LoopInv, DoneInv
  <2>2. ResolutionsBound(probes, plan)
    <3> DEFINE k == Lesser(Len(probes), Slot)
    <3>1. /\ DOMAIN plan = 1..(1 + k) /\ plan[1] = PlannedBaseline
          /\ \A i \in 1..k : plan[i + 1] = PlannedProbe(probes[i])
      BY <2>1, PlanIs
    <3>2. k \in Nat
      BY <2>1, PlanSize, SlotType DEF Lesser
    <3>3. PlannedBaseline.is_baseline /\ PlannedBaseline.resolved = {{}}
      BY DEF PlannedBaseline, Scenario
    <3>4. \A S : ~PlannedProbe(S).is_baseline /\ PlannedProbe(S).resolved = {S}
      BY DEF PlannedProbe, Scenario
    <3> HIDE DEF k
    <3> SUFFICES ASSUME NEW i \in 1..(1 + k)
                 PROVE  plan[i].resolved = {IF plan[i].is_baseline THEN {} ELSE probes[i - 1]}
      BY <3>1 DEF ResolutionsBound
    <3>5. CASE i = 1
      BY <3>1, <3>3, <3>5
    <3>6. CASE i # 1
      <4>1. i - 1 \in 1..k /\ i - 1 + 1 = i
        BY <3>2, <3>6
      <4>2. plan[i] = PlannedProbe(probes[i - 1])
        BY <3>1, <4>1
      <4> QED
        BY <3>4, <4>2
    <3> QED
      BY <3>5, <3>6
  <2>3. ResultsClosed(plan, results)
    <3>1. Len(results) \in Nat /\ (results # <<>> <=> Len(results) >= 1)
      BY <2>1 DEF ResultsOk
    <3>2. Len(plan) \in Nat /\ Len(plan) >= 1
      BY <2>1, PlanSize
    <3>3. BaselinePassed(results) <=> baseline_ok
      BY DEF BaselinePassed, baseline_ok
    <3>4. CASE baseline_ok
      BY <2>1, <3>3, <3>4 DEF LoopEnds, StopsAfterBaseline, ResultsClosed
    <3>5. CASE ~baseline_ok
      <4>1. Len(results) >= 1
        BY <2>1, <3>1, <3>2 DEF LoopEnds, StopsAfterBaseline
      <4>2. Len(results) < 2
        BY <2>1, <3>1, <3>5 DEF ResultsOk
      <4> DEFINE q == Len(results)
      <4>3. q \in Nat /\ q >= 1 /\ q < 2
        BY <3>1, <4>1, <4>2
      <4> HIDE DEF q
      <4>4. q = 1
        BY <4>3
      <4> QED
        BY <3>3, <3>5, <4>4 DEF ResultsClosed, q
    <3> QED
      BY <3>4, <3>5
  <2> QED
    BY <1>1, <2>1, <2>2, <2>3, SameProbes, SameReduction, SameFrontier DEF BundleVerifies
<1> QED
  BY <1>1, Invariance, PTL

\* It refuses every finished search without its last probe, whatever else is
\* rewritten to match (expected_adaptive_dependency_probes).
THEOREM TruncationCorrect == Spec => []TruncationIsRefused
<1>1. ASSUME ScanInv PROVE TruncationIsRefused
  <2> DEFINE n   == Len(probes) - 1
             ps  == SubSeq(probes, 1, n)
             ss  == PlanOf(ps)
             rs  == SubSeq(results, 1, n + 1)
  <2> SUFFICES ASSUME pc = "done", Schema = 2, Len(results) > 2, NEW red, NEW fr,
                      BundleVerifies(ps, ss, rs, red, fr)
               PROVE  FALSE
    BY DEF TruncationIsRefused
  <2>1. /\ probes \in Probes /\ probes[1] = Changes /\ ResultsOk(results) /\ Sought
        /\ probes \in Seq((SUBSET Changes) \ {{}}) /\ Len(probes) \in Nat
        /\ results \in Seq(BaselineResults \cup ProbeResults) /\ Len(results) \in Nat
        /\ results[1].verdict = "BaselinePass"
    BY <1>1 DEF ScanInv, LoopInv, Probes, ResultsOk, baseline_ok
  <2>2. Len(results) = Len(probes) + 1
    <3> DEFINE q == Len(results)
    <3>1. q \in Nat /\ q > 2
      BY <2>1
    <3> HIDE DEF q
    <3>a. q # 0 /\ q - 1 # 0
      BY <3>1
    <3>2. Count(results) # 0
      BY <3>a DEF Count, q
    <3> QED
      BY <1>1, <3>2, FinishedSearch
  <2>3. n \in Nat /\ n >= 1 /\ Len(probes) = n + 1 /\ Len(results) = n + 2 /\ n + 1 <= Slot
    BY <2>1, <2>2 DEF Sought
  <2> HIDE DEF n
  <2>4. /\ ps \in Seq((SUBSET Changes) \ {{}}) /\ Len(ps) = n /\ DOMAIN ps = 1..n
        /\ \A i \in 1..n : ps[i] = probes[i]
    BY <2>1, <2>3
  <2>5. ps \in Probes
    <3>1. ps # <<>>
      BY <2>3, <2>4
    <3> QED
      BY <2>4, <3>1 DEF Probes
  <2>6. /\ rs \in Seq(BaselineResults \cup ProbeResults) /\ Len(rs) = n + 1
        /\ \A i \in 1..(n + 1) : rs[i] = results[i]
    <3> DEFINE T == BaselineResults \cup ProbeResults
    <3>1. results \in Seq(T) /\ n + 1 \in Nat /\ n + 1 <= Len(results)
      BY <2>1, <2>3
    <3> HIDE DEF T
    <3>2. rs \in Seq(T) /\ Len(rs) = n + 1 /\ \A i \in 1..(n + 1) : rs[i] = results[i]
      BY <3>1
    <3> QED
      BY <3>2 DEF T
  <2> HIDE DEF ps, rs
  <2>7. ResultsOk(rs)
    <3>1. \A i \in 2..(n + 1) : i \in 1..(n + 1) /\ i \in 2..Len(results)
      BY <2>3
    <3> QED
      BY <2>1, <2>6, <3>1 DEF ResultsOk
  <2>8. Len(ss) = n + 1
    <3>1. Len(ps) = n /\ n \in Nat /\ n <= Slot /\ Slot \in Nat
      BY <2>3, <2>4, SlotType
    <3>3. Len(PlanOf(ps)) = Len(ps) + 1
      BY <2>5, <3>1, PlanSize
    <3> QED
      BY <3>1, <3>3 DEF ss
  <2>9. Observations(ps, ss, rs) = Shown(probes, results, n)
    <3>1. Count(rs) = n
      BY <2>3, <2>6 DEF Count
    <3>2. Len(rs) <= Len(PlanOf(ps))
      BY <2>3, <2>6, <2>8
    <3>3. Observations(ps, ss, rs) = Shown(ps, rs, n)
      BY <2>5, <2>7, <3>1, <3>2, ObservationsAre
    <3>4. \A i \in 1..n : i + 1 \in 1..(n + 1)
      BY <2>3
    <3>5. \A i \in 1..n : ps[i] = probes[i] /\ rs[i + 1] = results[i + 1]
      BY <2>4, <2>6, <3>4
    <3> QED
      BY <2>3, <3>3, <3>5, ShownSame
  <2>10. next_dependency_subset(Shown(probes, results, n)) # {}
    <3>1. n + 1 \in 2..Len(probes) /\ n = (n + 1) - 1
      BY <2>3
    <3>2. \A i \in 2..Len(probes) : \A j : j = i - 1 =>
            probes[i] = next_dependency_subset(Shown(probes, results, j))
      BY <2>1 DEF Sought
    <3>3. probes[n + 1] = next_dependency_subset(Shown(probes, results, n))
      BY <3>1, <3>2
    <3>4. probes[n + 1] \in (SUBSET Changes) \ {{}}
      BY <2>1, <3>1
    <3> QED
      BY <3>3, <3>4
  <2>11. ObservedPass(ss, rs)
    <3>1. ss[1].grade = "Observed"
      BY <2>5, PlanIs DEF PlannedBaseline, Scenario
    <3>2. 1 \in 1..(n + 1) /\ rs # <<>>
      BY <2>3, <2>6
    <3> QED
      BY <2>1, <2>6, <3>1, <3>2 DEF ObservedPass, BaselinePassed
  <2>12. AdaptiveProbesOk(ps, ss, rs)
    BY DEF BundleVerifies, ProbesOk
  <2>13. StopsWhereItMay(ps, Observations(ps, ss, rs))
    BY <2>11, <2>12 DEF AdaptiveProbesOk
  <2>14. Len(ps) + 1 < MaxScenarios
    BY <2>3, <2>4, SlotType
  <2> QED
    BY <2>9, <2>10, <2>13, <2>14 DEF StopsWhereItMay
<1> QED
  BY <1>1, Invariance, PTL


-----------------------------------------------------------------------------
(* Refinement: a scenario is a Probe, the end concludes or gives up.        *)

\* What a log shows of a subset, and the smallest set known to fail.
Kind(o, t) ==
  IF stable_target_failure(o, t) THEN "same"
  ELSE IF decisive_non_target(o, t) THEN "different"
  ELSE "unclear"

TargetOf(rs) == IF Len(rs) >= 2 THEN rs[2].failure.hash ELSE None

OfBaseline(rs) ==
  IF rs = <<>> THEN "untested" ELSE IF BaselinePassed(rs) THEN "different" ELSE "unclear"

OutcomeOf(obs, rs) ==
  [S \in SUBSET Changes |->
     IF S = {} THEN OfBaseline(rs)
     ELSE IF S \in Tested(obs) THEN Kind(At(obs, S), TargetOf(rs)) ELSE "untested"]

SuspectsOf(obs, t) == IF StableFailures(obs, t) = {} THEN Changes ELSE Current(obs, t)

LEMMA Views ==
  /\ outcome = OutcomeOf(Seen, results) /\ suspects = SuspectsOf(Seen, TargetOf(results))
  /\ outcome' = OutcomeOf(Seen', results')
  /\ suspects' = SuspectsOf(Seen', TargetOf(results'))
BY DEF outcome, OutcomeOf, OfBaseline, BaselinePassed, baseline_ok, Class, Kind, Target,
       FullObserved, TargetOf, suspects, SuspectsOf, Current, Seen

LEMMA KindIs ==
  ASSUME NEW o, NEW t
  PROVE  /\ Kind(o, t) \in Abstract!Outcomes \ {"untested"}
         /\ Kind(o, t) = "same" <=> stable_target_failure(o, t)
         /\ decisive_non_target(o, t) /\ ~stable_target_failure(o, t) =>
              Kind(o, t) = "different"
BY DEF Kind, Abstract!Outcomes

\* The empty log.
LEMMA NothingShown ==
  ASSUME NEW obs, Tested(obs) = {}, NEW rs
  PROVE  /\ OutcomeOf(obs, rs) =
              [S \in SUBSET Changes |-> IF S = {} THEN OfBaseline(rs) ELSE "untested"]
         /\ \A t : SuspectsOf(obs, t) = Changes
BY DEF OutcomeOf, SuspectsOf, StableFailures

\* One observation more: it concerns its own subset only, and when that becomes
\* the smallest failing one it narrows the suspects.
LEMMA OutcomeStep ==
  ASSUME NEW m, NEW old, NEW new, Log(old, m), Log(new, m + 1),
         \A i \in 1..m : old[i] = new[i],
         NEW rs, NEW us, TargetOf(us) = TargetOf(rs), OfBaseline(us) = OfBaseline(rs)
  PROVE  OutcomeOf(new, us) =
           [OutcomeOf(old, rs) EXCEPT ![new[m + 1].ids] = Kind(new[m + 1], TargetOf(rs))]
<1> DEFINE R == new[m + 1].ids
           t == TargetOf(rs)
<1>1. /\ Tested(new) = Tested(old) \cup {R} /\ R \notin Tested(old)
      /\ At(new, R) = new[m + 1]
      /\ \A T \in Tested(old) : At(new, T) = At(old, T)
  BY OneMore
<1>2. R # {} /\ R \in SUBSET Changes
  <2>1. m + 1 \in 1..(m + 1)
    BY DEF Log
  <2> QED
    BY <2>1 DEF Log, ObsOk
<1> HIDE DEF R
<1>3. ASSUME NEW S \in SUBSET Changes
      PROVE  OutcomeOf(new, us)[S] = IF S = R THEN Kind(new[m + 1], t) ELSE OutcomeOf(old, rs)[S]
  BY <1>1, <1>2 DEF OutcomeOf
<1>4. /\ DOMAIN OutcomeOf(new, us) = SUBSET Changes /\ DOMAIN OutcomeOf(old, rs) = SUBSET Changes
      /\ OutcomeOf(new, us) = [S \in SUBSET Changes |-> OutcomeOf(new, us)[S]]
  BY DEF OutcomeOf
<1> QED
  BY <1>2, <1>3, <1>4 DEF R

LEMMA SuspectsStep ==
  ASSUME NEW m, NEW old, NEW new, Log(old, m), Log(new, m + 1),
         \A i \in 1..m : old[i] = new[i], NEW t,
         StableFailures(old, t) # {} /\ Before(new[m + 1].ids, Current(old, t)) =>
           new[m + 1].ids \subseteq Current(old, t)
  PROVE  LET R == new[m + 1].ids IN
         \/ SuspectsOf(new, t) = SuspectsOf(old, t)
         \/ /\ Kind(new[m + 1], t) = "same" /\ R \subseteq SuspectsOf(old, t)
            /\ SuspectsOf(new, t) = R
<1> DEFINE R == new[m + 1].ids
           F == StableFailures(old, t)
           G == StableFailures(new, t)
<1>1. /\ Tested(new) = Tested(old) \cup {R} /\ R \notin Tested(old)
      /\ At(new, R) = new[m + 1]
      /\ \A T \in Tested(old) : At(new, T) = At(old, T)
  BY OneMore
<1>2. R # {} /\ R \in SUBSET Changes
  <2>1. m + 1 \in 1..(m + 1)
    BY DEF Log
  <2> QED
    BY <2>1 DEF Log, ObsOk
<1>3. F \in SUBSET ((SUBSET Changes) \ {{}}) /\ G \in SUBSET ((SUBSET Changes) \ {{}})
  BY StableIs
<1>4. G = IF stable_target_failure(new[m + 1], t) THEN F \cup {R} ELSE F
  BY <1>1 DEF StableFailures
<1>5. CASE ~stable_target_failure(new[m + 1], t)
  BY <1>4, <1>5 DEF SuspectsOf, Current
<1>6. CASE stable_target_failure(new[m + 1], t)
  <2>1. Kind(new[m + 1], t) = "same" /\ G = F \cup {R} /\ G # {}
    BY <1>4, <1>6 DEF Kind
  <2>2. /\ SuspectsOf(new, t) = Current(new, t) /\ Current(new, t) \in G
        /\ \A T \in G : Current(new, t) = T \/ Before(Current(new, t), T)
    BY <2>1, CurrentIs, StableIs DEF SuspectsOf
  <2> HIDE DEF R, F, G
  <2>3. CASE F = {}
    BY <1>2, <2>1, <2>2, <2>3 DEF SuspectsOf, F, R
  <2>4. CASE F # {}
    <3>1. /\ SuspectsOf(old, t) = Current(old, t) /\ Current(old, t) \in F
          /\ \A T \in F : Current(old, t) = T \/ Before(Current(old, t), T)
      BY <2>4, CurrentIs, StableIs DEF SuspectsOf, F
    <3>2. CASE Current(new, t) = R
      <4>1. R = Current(old, t) \/ Before(R, Current(old, t))
        BY <2>1, <2>2, <3>1, <3>2
      <4>2. R \subseteq Current(old, t)
        BY <2>4, <4>1 DEF F, R
      <4> QED
        BY <2>1, <2>2, <3>1, <3>2, <4>2 DEF R
    <3>3. CASE Current(new, t) # R
      <4>1. Current(new, t) \in F /\ Current(old, t) \in G
        BY <2>1, <2>2, <3>1, <3>3
      <4>2. \/ Current(new, t) = Current(old, t)
            \/ Before(Current(new, t), Current(old, t)) /\ Before(Current(old, t), Current(new, t))
        BY <2>2, <3>1, <4>1
      <4>3. Current(new, t) \in SUBSET Changes /\ Current(old, t) \in SUBSET Changes
        BY <1>3, <2>2, <3>1
      <4>4. Current(new, t) = Current(old, t)
        BY <4>2, <4>3, BeforeTotal
      <4> QED
        BY <2>2, <3>1, <4>4
    <3> QED
      BY <3>2, <3>3
  <2> QED
    BY <2>3, <2>4
<1> QED
  BY <1>5, <1>6

LEMMA InitRefines == Init => Abstract!Init
<1> SUFFICES ASSUME Init PROVE Abstract!Init
  OBVIOUS
<1>1. results = <<>> /\ pc = "run"
  BY DEF Init
<1>2. Tested(Seen) = {}
  BY <1>1 DEF Tested, Seen, Observations
<1>3. OfBaseline(results) = "untested"
  BY <1>1 DEF OfBaseline
<1>4. outcome = [S \in SUBSET Changes |-> "untested"]
  <2>1. outcome = [S \in SUBSET Changes |-> IF S = {} THEN OfBaseline(results) ELSE "untested"]
    BY <1>2, Views, NothingShown
  <2> QED
    BY <1>3, <2>1
<1>5. suspects = Changes
  BY <1>2, Views, NothingShown
<1>6. verdict = "open"
  BY <1>1 DEF verdict
<1> QED
  BY <1>4, <1>5, <1>6 DEF Abstract!Init

\* A longer plan shows nothing new.
LEMMA ExtendRefines == ASSUME ScanInv, Extend PROVE UNCHANGED <<outcome, suspects, verdict>>
<1> DEFINE n == Count(results)
           R == next_probe
<1>1. /\ pc = "run" /\ pc' = "run" /\ results' = results /\ Len(results) <= Len(plan)
      /\ probes' = Append(probes, R) /\ plan' = PlanOf(probes')
  BY DEF Extend, ScanInv, LoopInv
<1>2. /\ probes \in Probes /\ Len(probes) \in Nat /\ ResultsOk(results) /\ Len(results) \in Nat
      /\ plan = PlanOf(probes)
  BY DEF ScanInv, LoopInv, Probes, ResultsOk
<1>3. /\ probes' \in Probes /\ Len(results) <= Len(PlanOf(probes'))
      /\ \A i \in 1..Len(probes) : probes'[i] = probes[i]
  <2>1. ScanInv'
    BY ExtendStep
  <2>2. \A i \in 1..Len(probes) : Append(probes, R)[i] = probes[i]
    BY <1>2 DEF Probes
  <2> QED
    BY <1>1, <2>1, <2>2 DEF ScanInv, LoopInv
<1>4. n \in Nat /\ n <= Len(probes) /\ Seen = Shown(probes, results, n)
  BY SeenIs
<1>5. Seen' = Shown(probes', results, n)
  BY <1>1, <1>2, <1>3, ObservationsAre DEF Seen
<1> HIDE DEF n
<1>6. Shown(probes', results, n) = Shown(probes, results, n)
  <2>1. \A i \in 1..n : probes'[i] = probes[i] /\ results[i + 1] = results[i + 1]
    BY <1>2, <1>3, <1>4
  <2> QED
    BY <1>4, <2>1, ShownSame
<1>7. Seen' = Seen
  BY <1>4, <1>5, <1>6
<1> QED
  BY <1>1, <1>7, Views DEF verdict

\* An exhaustive probe that comes before a failing one, and is executed after
\* it, is a subset of it: only the full set is executed out of order.
LEMMA InOrder ==
  ASSUME ScanInv, Schema = 1, NEW i, NEW j, j \in DOMAIN probes, i \in DOMAIN probes, i < j,
         Before(probes[j], probes[i])
  PROVE  probes[j] \subseteq probes[i]
<1>1. /\ probes \in Probes /\ probes[1] = Changes
      /\ \A k, l \in DOMAIN probes : 1 < k /\ k < l => Before(probes[k], probes[l])
  BY ExhaustiveOk DEF ScanInv, LoopInv
<1>2. /\ probes[i] \in SUBSET Changes /\ probes[j] \in SUBSET Changes
      /\ DOMAIN probes = 1..Len(probes) /\ Len(probes) \in Nat
  BY <1>1 DEF Probes
<1>3. CASE i = 1
  BY <1>1, <1>2, <1>3
<1>4. CASE i # 1
  <2>1. 1 < i
    BY <1>2, <1>4
  <2>2. Before(probes[i], probes[j])
    BY <1>1, <2>1
  <2>3. probes[i] # probes[j]
    BY <1>2, <2>2, BeforeSelf
  <2> QED
    BY <1>2, <2>2, <2>3, BeforeTotal
<1> QED
  BY <1>3, <1>4

\* A subset that the schedule asks for and that comes before the smallest
\* failing set is that set without one change.
LEMMA AskedInOrder ==
  ASSUME NEW obs, NEW n, Log(obs, n), next_dependency_subset(obs) # {},
         Before(next_dependency_subset(obs), Current(obs, obs[1].hash))
  PROVE  next_dependency_subset(obs) \subseteq Current(obs, obs[1].hash)
<1> DEFINE R == next_dependency_subset(obs)
           t == obs[1].hash
           S == Current(obs, t)
<1>1. R \in SUBSET Changes /\ Failing(obs) /\ Settles(obs, t, R)
  BY NextIsNew
<1>2. S \in SUBSET Changes
  BY <1>1, CurrentIs, StableIs DEF Failing
<1>3. CASE Deletes(obs, t, R)
  BY <1>3 DEF Deletes
<1>4. CASE Adds(obs, t, R)
  <2>1. PICK c \in OpenAdditions(obs, S, t) : R = S \cup {c}
    BY <1>4 DEF Adds
  <2>2. c \in R /\ R \ {c} = S
    BY <2>1 DEF OpenAdditions
  <2> HIDE DEF R, S
  <2>3. ~Before(R, S)
    BY <1>1, <2>2, SmallerBefore
  <2> QED
    BY <2>3 DEF R, S, t
<1> QED
  BY <1>1, <1>3, <1>4 DEF Settles

\* A scenario executes the empty set, the full one or the next probe.
LEMMA RunRefines == ASSUME ScanInv, RunScenario PROVE Abstract!Next
<1> DEFINE n == Len(results)
<1>1. /\ pc = "run" /\ pc' = "run" /\ probes' = probes /\ plan' = plan
      /\ n < Len(plan) /\ ~StopsAfterBaseline
  BY DEF RunScenario
<1>2. PICK r : results' = Append(results, r)
  BY DEF RunScenario
<1>3. /\ probes \in Probes /\ NoRepeats(probes) /\ probes[1] = Changes
      /\ plan = PlanOf(probes) /\ ResultsOk(results) /\ Len(results) <= Len(PlanOf(probes))
      /\ Schema = 2 => Sought
  BY DEF ScanInv, LoopInv
<1>4. ResultsOk(results') /\ Len(results') <= Len(PlanOf(probes))
  <2>1. ScanInv'
    BY RunStep
  <2> QED
    BY <1>1, <1>3, <2>1 DEF ScanInv, LoopInv
<1>5. /\ n \in Nat /\ n <= Len(probes) /\ Len(results') = n + 1
      /\ \A i \in 1..n : results'[i] = results[i]
      /\ Len(probes) \in Nat /\ DOMAIN probes = 1..Len(probes)
  <2>1. n \in Nat /\ results \in Seq(BaselineResults \cup ProbeResults)
    BY <1>3 DEF ResultsOk
  <2>2. Len(results') = n + 1 /\ \A i \in 1..n : results'[i] = results[i]
    BY <1>2, <2>1
  <2>3. Len(PlanOf(probes)) <= Len(probes) + 1 /\ Len(PlanOf(probes)) \in Nat
        /\ Len(probes) \in Nat /\ DOMAIN probes = 1..Len(probes)
    BY <1>3, PlanSize
  <2> QED
    BY <1>1, <1>3, <2>1, <2>2, <2>3
<1>6. verdict = "open" /\ verdict' = "open"
  BY <1>1 DEF verdict
<1>7. SUFFICES \E S \in SUBSET Changes, shown \in Abstract!Outcomes \ {"untested"} :
                  /\ outcome' = [outcome EXCEPT ![S] = shown]
                  /\ \/ suspects' = suspects
                     \/ shown = "same" /\ S \subseteq suspects /\ suspects' = S
  BY <1>6 DEF Abstract!Next, Abstract!Probe
<1>8. Seen = Shown(probes, results, Count(results)) /\ Seen' = Shown(probes, results', Count(results'))
  <2>1. Seen' = Observations(probes, PlanOf(probes), results')
    BY <1>1, <1>3 DEF Seen
  <2> QED
    BY <1>3, <1>4, <2>1, ObservationsAre DEF Seen
<1>9. Count(results) = (IF n = 0 THEN 0 ELSE n - 1) /\ Count(results') = n
  BY <1>5 DEF Count
<1> HIDE DEF n
<1>10. CASE n = 0
  <2>1. Tested(Seen) = {} /\ Tested(Seen') = {}
    BY <1>8, <1>9, <1>10 DEF Tested, Shown
  <2>2. results = <<>> /\ results' # <<>>
    BY <1>3, <1>5, <1>10 DEF n, ResultsOk
  <2>3. OfBaseline(results') \in Abstract!Outcomes \ {"untested"} /\ OfBaseline(results) = "untested"
    BY <2>2 DEF OfBaseline, Abstract!Outcomes
  <2>4. outcome = [S \in SUBSET Changes |-> IF S = {} THEN OfBaseline(results) ELSE "untested"]
    BY <2>1, NothingShown, Views
  <2>5. outcome' = [S \in SUBSET Changes |-> IF S = {} THEN OfBaseline(results') ELSE "untested"]
    BY <2>1, NothingShown, Views
  <2>6. outcome' = [outcome EXCEPT ![{}] = OfBaseline(results')]
    BY <2>4, <2>5
  <2>7. suspects' = suspects
    BY <2>1, NothingShown, Views
  <2> QED
    BY <2>3, <2>6, <2>7
<1>11. CASE n # 0
  <2>1. n \in Nat \ {0} /\ n + 1 <= Len(results') /\ n <= Len(probes)
    BY <1>5, <1>11
  <2>2. Log(Seen', n) /\ Seen'[n].ids = probes[n] /\ Seen'[1].hash = results'[2].failure.hash
    <3>1. /\ Log(Shown(probes, results', n), n)
          /\ \A i \in 1..n : LET o == Shown(probes, results', n)[i]
                                 q == results'[i + 1]
                             IN  o.ids = probes[i] /\ o.hash = q.failure.hash
      BY <1>3, <1>4, <2>1, ShownLog
    <3>2. 1 \in 1..n /\ n \in 1..n /\ 1 + 1 = 2
      BY <2>1
    <3> QED
      BY <1>8, <1>9, <3>1, <3>2
  <2>3. OfBaseline(results) = "different" /\ OfBaseline(results') = "different"
    <3>1. results # <<>> /\ results' # <<>> /\ results'[1] = results[1]
      BY <1>3, <1>4, <1>5, <2>1 DEF n, ResultsOk
    <3>2. baseline_ok
      BY <1>1, <3>1 DEF StopsAfterBaseline
    <3> QED
      BY <3>1, <3>2 DEF OfBaseline, BaselinePassed, baseline_ok
  <2>4. TargetOf(results') = Seen'[1].hash
    BY <1>5, <2>1, <2>2 DEF TargetOf
  <2>5. probes[n] \in SUBSET Changes
    BY <1>3, <1>5, <2>1 DEF Probes
  <2> DEFINE R == probes[n]
             t == TargetOf(results')
             o == Seen'[n]
  <2>6. Kind(o, t) \in Abstract!Outcomes \ {"untested"}
    BY KindIs
  <2>7. CASE n = 1
    <3>1. Tested(Seen) = {}
      BY <1>8, <1>9, <2>7 DEF Tested, Shown
    <3>2. R = Changes /\ Tested(Seen') = {Changes} /\ At(Seen', Changes) = o
      <4>1. Changes \in Tested(Seen') /\ At(Seen', Changes) = Seen'[1]
        BY <2>2, FullIs
      <4>2. \A S : S \in Tested(Seen') <=> S = Changes
        BY <1>3, <2>2, <2>7, <4>1, TestedIs
      <4> QED
        BY <1>3, <2>7, <4>1, <4>2
    <3>3. outcome = [S \in SUBSET Changes |-> IF S = {} THEN "different" ELSE "untested"]
      <4>1. outcome = [S \in SUBSET Changes |-> IF S = {} THEN OfBaseline(results) ELSE "untested"]
        BY <3>1, NothingShown, Views
      <4> QED
        BY <2>3, <4>1
    <3>4. outcome' = [S \in SUBSET Changes |->
                        IF S = {} THEN "different"
                        ELSE IF S = Changes THEN Kind(o, t) ELSE "untested"]
      BY <2>3, <3>2, Views DEF OutcomeOf
    <3> HIDE DEF o, t
    <3>5. outcome' = [outcome EXCEPT ![R] = Kind(o, t)]
      BY <3>2, <3>3, <3>4, ChangesAssumption
    <3>6. suspects = Changes
      BY <3>1, NothingShown, Views
    <3>7. suspects' = Changes
      <4>1. StableFailures(Seen', t) = {} \/ StableFailures(Seen', t) = {Changes}
        BY <3>2 DEF StableFailures
      <4>2. Smallest({Changes}) = Changes
        BY DEF Smallest
      <4> QED
        BY <4>1, <4>2, Views DEF SuspectsOf, Current, t
    <3> QED
      BY <2>5, <2>6, <3>5, <3>6, <3>7 DEF t, o
  <2>8. CASE n # 1
    <3> DEFINE m == n - 1
    <3>1. m \in Nat \ {0} /\ m + 1 = n /\ m <= Len(probes) /\ m + 1 <= Len(results)
          /\ Count(results) = m
      BY <1>5, <1>9, <2>1, <2>8 DEF n
    <3> HIDE DEF m
    <3>2. Log(Seen, m) /\ Log(Seen', m + 1)
      BY <1>3, <1>8, <2>2, <3>1, ShownLog
    <3>3. \A i \in 1..m : Seen[i] = Seen'[i]
      <4>1. \A i \in 1..m : i \in 1..n /\ i + 1 \in 1..n
        BY <3>1
      <4> QED
        BY <1>5, <1>8, <1>9, <3>1, <4>1 DEF Shown
    <3>4. TargetOf(results) = t /\ Seen[1].hash = t
      <4>1. 2 \in 1..n /\ n >= 2 /\ n + 1 >= 2 /\ 1 \in 1..m
        BY <3>1
      <4>2. TargetOf(results) = t
        BY <1>5, <4>1 DEF TargetOf, n
      <4> QED
        BY <2>4, <3>3, <4>1, <4>2
    <3>5. outcome' = [outcome EXCEPT ![R] = Kind(o, t)]
      <4>1. OutcomeOf(Seen', results') =
              [OutcomeOf(Seen, results) EXCEPT ![Seen'[m + 1].ids] =
                 Kind(Seen'[m + 1], TargetOf(results))]
        BY <2>3, <3>2, <3>3, <3>4, OutcomeStep
      <4> QED
        BY <2>2, <3>1, <3>4, <4>1, Views
    <3>6. StableFailures(Seen, t) # {} /\ Before(R, Current(Seen, t)) =>
            R \subseteq Current(Seen, t)
      <4> SUFFICES ASSUME StableFailures(Seen, t) # {}, Before(R, Current(Seen, t))
                   PROVE  R \subseteq Current(Seen, t)
        OBVIOUS
      <4>1. CASE Schema = 2
        <5>1. \A i \in 2..Len(probes) : \A j : j = i - 1 =>
                probes[i] = next_dependency_subset(Shown(probes, results, j))
          BY <1>3, <4>1 DEF Sought
        <5>2. n \in 2..Len(probes) /\ m = n - 1
          BY <2>1, <2>8, <3>1
        <5>3. R = next_dependency_subset(Seen)
          BY <1>8, <3>1, <5>1, <5>2
        <5>4. R # {}
          BY <1>3, <1>5, <2>1 DEF Probes
        <5> QED
          BY <3>2, <3>4, <5>3, <5>4, AskedInOrder
      <4>2. CASE Schema = 1
        <5>1. Current(Seen, t) \in Tested(Seen)
          BY <3>2, CurrentIs DEF Stable
        <5>2. PICK i \in 1..m : Seen[i].ids = Current(Seen, t)
          BY <3>2, <5>1, TestedIs
        <5>3. Seen[i].ids = probes[i]
          BY <1>8, <3>1, <5>2 DEF Shown, Observation
        <5>4. i \in DOMAIN probes /\ n \in DOMAIN probes /\ i < n
          BY <1>5, <2>1, <3>1
        <5> QED
          BY <4>2, <5>2, <5>3, <5>4, InOrder
      <4> QED
        BY <4>1, <4>2, VerifierAssumption
    <3>7. \/ suspects' = suspects
          \/ Kind(o, t) = "same" /\ R \subseteq suspects /\ suspects' = R
      <4>1. LET Q == Seen'[m + 1].ids IN
            \/ SuspectsOf(Seen', t) = SuspectsOf(Seen, t)
            \/ /\ Kind(Seen'[m + 1], t) = "same" /\ Q \subseteq SuspectsOf(Seen, t)
               /\ SuspectsOf(Seen', t) = Q
        <5>1. StableFailures(Seen, t) # {} /\ Before(Seen'[m + 1].ids, Current(Seen, t)) =>
                Seen'[m + 1].ids \subseteq Current(Seen, t)
          BY <2>2, <3>1, <3>6
        <5> HIDE DEF t
        <5> QED
          BY <3>2, <3>3, <5>1, SuspectsStep
      <4> QED
        BY <2>2, <3>1, <3>4, <4>1, Views
    <3> QED
      BY <2>5, <2>6, <3>5, <3>7
  <2> QED
    BY <2>7, <2>8
<1> QED
  BY <1>10, <1>11

\* What PROVEN_MINIMAL rests on is what the abstract reduction asks for.
Conclusive == pc = "done" /\ reduction.status = "ProvenMinimal" => Abstract!Minimal(suspects)

LEMMA ProvenIsConclusive == ScanInv => Conclusive
<1> SUFFICES ASSUME ScanInv, pc = "done", reduction.status = "ProvenMinimal"
             PROVE  Abstract!Minimal(suspects)
  BY DEF Conclusive
<1> DEFINE t == Target1
           S == Current(Seen, t)
<1>1. Count(results) # 0 /\ Failing(Seen)
  BY ReductionIs
<1>2. /\ Len(results) = Count(results) + 1 /\ baseline_ok /\ Log(Seen, Count(results))
      /\ Count(results) \in Nat
  BY <1>1, SeenIs
<1>3. ProvenMinimal(Seen, BaselineObservation(plan, results), S, t)
  BY <1>1, ReductionIs
<1>4. TargetOf(results) = t
  <2>1. Seen[1].hash = results[1 + 1].failure.hash
    <3>1. 1 \in 1..Count(results)
      BY <1>1, <1>2
    <3> QED
      BY <1>1, <3>1, SeenIs
  <2>2. Len(results) >= 2
    BY <1>1, <1>2
  <2> QED
    BY <2>1, <2>2 DEF TargetOf, Target1
<1>5. StableFailures(Seen, t) # {}
  BY <1>1, <1>2, StableIs DEF Failing, Target1
<1>6. S \in (SUBSET Changes) \ {{}} /\ Stable(Seen, S, t) /\ suspects = S
  BY <1>2, <1>4, <1>5, CurrentIs, Views DEF SuspectsOf
<1>7. /\ \A c \in Changes \ S : Stable(Seen, S \cup {c}, t)
      /\ OpenDeletions(Seen, S, t) = {}
  <2>1. \A h : Necessary(BaselineObservation(plan, results), h)
    BY <1>2, BaselineSeen
  <2>2. Settled(Seen, t)
    BY <1>2, <1>3, <1>5, <2>1, ProvenSettled
  <2> QED
    BY <1>3, <2>2 DEF ProvenMinimal, Settled
<1> HIDE DEF S
<1>8. ASSUME NEW T \in (SUBSET Changes) \ {{}}
      PROVE  /\ Stable(Seen, T, t) => outcome[T] = "same"
             /\ Decisive(Seen, T, t) => outcome[T] = "different"
  <2>1. outcome[T] = IF T \in Tested(Seen) THEN Kind(At(Seen, T), t) ELSE "untested"
    BY <1>4, Views DEF OutcomeOf
  <2>2. ASSUME Stable(Seen, T, t) PROVE outcome[T] = "same"
    BY <2>1, <2>2 DEF Stable, Kind
  <2>3. ASSUME Decisive(Seen, T, t) PROVE outcome[T] = "different"
    <3>1. T \in Tested(Seen) /\ Other(At(Seen, T), t)
      BY <1>2, <2>3, StableIs
    <3>2. ~stable_target_failure(At(Seen, T), t) /\ decisive_non_target(At(Seen, T), t)
      BY <1>2, <3>1, AtOk, ClassIs DEF Same, Other
    <3> QED
      BY <2>1, <3>1, <3>2 DEF Kind
  <2> QED
    BY <2>2, <2>3
<1>9. outcome[{}] = "different"
  <2>1. results # <<>> /\ BaselinePassed(results)
    BY <1>2 DEF baseline_ok, BaselinePassed
  <2> QED
    BY <2>1, Views DEF OutcomeOf, OfBaseline
<1>10. ASSUME NEW c \in S
       PROVE  outcome[S \ {c}] = "different"
  <2>1. CASE S = {c}
    <3>1. S \ {c} = {}
      BY <2>1
    <3> QED
      BY <1>9, <3>1
  <2>2. CASE S # {c}
    <3>1. S \ {c} \in (SUBSET Changes) \ {{}}
      BY <1>6, <1>10, <2>2
    <3>2. Decisive(Seen, S \ {c}, t)
      BY <1>7, <1>10, <2>2 DEF OpenDeletions
    <3> QED
      BY <1>8, <3>1, <3>2
  <2> QED
    BY <2>1, <2>2
<1>11. ASSUME NEW c \in Changes \ S
       PROVE  outcome[S \cup {c}] = "same"
  <2>1. S \cup {c} \in (SUBSET Changes) \ {{}}
    BY <1>6
  <2> QED
    BY <1>7, <1>8, <2>1
<1> QED
  BY <1>6, <1>8, <1>10, <1>11 DEF Abstract!Minimal

LEMMA ConclusiveNext == ScanInv' => Conclusive'
BY ProvenIsConclusive, PTL

LEMMA FinalizeRefines == ASSUME ScanInv, Finalize PROVE Abstract!Next
<1>1. /\ pc = "run" /\ pc' = "done" /\ probes' = probes /\ plan' = plan /\ results' = results
  BY DEF Finalize
<1>2. Seen' = Seen
  BY <1>1 DEF Seen
<1>3. UNCHANGED <<outcome, suspects>> /\ verdict = "open"
  BY <1>1, <1>2, Views DEF verdict
<1>4. CASE reduction'.status = "ProvenMinimal"
  <2>1. Conclusive'
    BY FinalizeStep, ConclusiveNext
  <2>2. Abstract!Minimal(suspects)
    BY <1>1, <1>3, <1>4, <2>1 DEF Conclusive, Abstract!Minimal
  <2>3. verdict' = "minimal"
    BY <1>1, <1>4 DEF verdict
  <2> QED
    BY <1>3, <2>2, <2>3 DEF Abstract!Conclude, Abstract!Next
<1>5. CASE reduction'.status # "ProvenMinimal"
  BY <1>1, <1>3, <1>5 DEF verdict, Abstract!GiveUp, Abstract!Next
<1> QED
  BY <1>4, <1>5

LEMMA StepRefines == ScanInv /\ [Next]_vars => [Abstract!Next]_(Abstract!vars)
<1> SUFFICES ASSUME ScanInv, [Next]_vars PROVE [Abstract!Next]_(Abstract!vars)
  OBVIOUS
<1>1. CASE Extend
  BY <1>1, ExtendRefines DEF Abstract!vars
<1>2. CASE UNCHANGED vars
  <2>1. pc' = pc /\ reduction' = reduction /\ results' = results /\ Seen' = Seen
    BY <1>2 DEF vars, Seen
  <2> QED
    BY <2>1, Views DEF Abstract!vars, verdict
<1> QED
  BY <1>1, <1>2, RunRefines, FinalizeRefines DEF Next

\* For every set of changes, budget and number of reruns and under either
\* schema, the search of a scan is a DeltaDebug: the suspects only narrow, to
\* subsets that failed as all changes did, and PROVEN_MINIMAL is recorded only
\* when executions of all neighbours of the set prove it (scan_with_adapter,
\* next_dependency_subset, derive_observed_dependency_reduction).
THEOREM ScanRefinesDeltaDebug == Spec => ImplementsDeltaDebug
BY Invariance, InitRefines, StepRefines, PTL DEF Spec, ImplementsDeltaDebug, Abstract!Spec

-----------------------------------------------------------------------------
(* The sets of changes behind the experiment: the families of dependencies,  *)
(* changes and entries that a manifest declares.                             *)

\* In a family without repeated names, a member is found by its name.
LEMMA MemberIsFound ==
  ASSUME NEW family, Distinct(family), NEW i \in DOMAIN family
  PROVE  Member(family, family[i].name) = family[i]
<1> DEFINE name == family[i].name
           j == CHOOSE k \in DOMAIN family : family[k].name = name
<1>1. name \in NamesOf(family) BY DEF NamesOf
<1>2. j \in DOMAIN family /\ family[j].name = name OBVIOUS
<1>3. j = i BY <1>2 DEF Distinct
<1> QED BY <1>1, <1>3 DEF Member

LEMMA NamedByIndex ==
  ASSUME NEW family, NEW name \in NamesOf(family)
  PROVE  \E i \in DOMAIN family : family[i].name = name
BY DEF NamesOf

\* A part of a family without repeats has none, and its members are the family's.
LEMMA PartIsDistinct ==
  ASSUME NEW family, Distinct(family), NEW part \in SUBSET DOMAIN family
  PROVE  /\ Distinct(Restrict(family, part))
         /\ DOMAIN Restrict(family, part) = part
         /\ \A i \in part : Restrict(family, part)[i] = family[i]
         /\ NamesOf(Restrict(family, part)) \subseteq NamesOf(family)
         /\ \A name \in NamesOf(Restrict(family, part)) :
              Member(Restrict(family, part), name) = Member(family, name)
<1> DEFINE some == Restrict(family, part)
<1>1. DOMAIN some = part /\ \A i \in part : some[i] = family[i] BY DEF Restrict
<1>2. Distinct(some) BY <1>1 DEF Distinct
<1>3. ASSUME NEW name \in NamesOf(some)
      PROVE  name \in NamesOf(family) /\ Member(some, name) = Member(family, name)
  <2>1. PICK i \in part : some[i].name = name BY <1>1, <1>3, NamedByIndex
  <2>2. Member(some, some[i].name) = some[i] BY <1>1, <1>2, <2>1, MemberIsFound
  <2>3. Member(family, family[i].name) = family[i] BY <2>1, MemberIsFound
  <2> QED BY <1>1, <2>1, <2>2, <2>3 DEF NamesOf
<1> QED BY <1>1, <1>2, <1>3

-----------------------------------------------------------------------------
(* Applying every change gives the candidate, whatever the changes are:     *)
(* additions, updates and removals.                                         *)

\* The candidate a valid set declares is exactly its baseline with all of its
\* changes applied: each dependency is changed as declared or left as it was
\* (DependencyCandidateSet::validate and resolution_for_changes agree).
THEOREM AllChangesGiveCandidate ==
  ASSUME NEW set, CandidateSetOk(set), NEW name
  PROVE  After(set.baseline, set.changes, name) = Member(set.candidate, name)
<1> USE DEF After
<1>1. CASE name \in NamesOf(set.baseline) \cup NamesOf(set.candidate)
  <2>1. CASE name \in NamesOf(set.changes)
    BY <1>1, <2>1 DEF CandidateSetOk
  <2>2. CASE name \notin NamesOf(set.changes)
    BY <1>1, <2>2 DEF CandidateSetOk
  <2> QED BY <2>1, <2>2
<1>2. CASE name \notin NamesOf(set.baseline) \cup NamesOf(set.candidate)
  BY <1>2 DEF CandidateSetOk, Member
<1> QED BY <1>1, <1>2

-----------------------------------------------------------------------------
(* The sets of a manifest.                                                 *)

LEMMA Fields ==
  ASSUME NEW id, NEW name, NEW artifact
  PROVE  /\ Dependency(id, name, artifact).id = id
         /\ Dependency(id, name, artifact).name = name
         /\ Dependency(id, name, artifact).artifact = artifact
BY DEF Dependency

\* Entry by entry: both sets and the changes.
LEMMA SetsOfManifest ==
  ASSUME NEW manifest, NEW i \in DOMAIN manifest.entries
  PROVE  LET e == manifest.entries[i]
         IN  /\ BaselineOf(manifest)[i] = Dependency(e.id, e.name, e.before)
             /\ CandidateOf(manifest)[i] = Dependency(e.id, e.name, e.after)
             /\ BaselineOf(manifest)[i].id = e.id
             /\ BaselineOf(manifest)[i].name = e.name
             /\ i \in Changing(manifest) =>
                  /\ ChangesOf(manifest)[i].id = e.id
                  /\ ChangesOf(manifest)[i].name = e.name
                  /\ ChangesOf(manifest)[i].kind = "update"
                  /\ ChangesOf(manifest)[i].before = BaselineOf(manifest)[i]
                  /\ ChangesOf(manifest)[i].after = CandidateOf(manifest)[i]
<1> DEFINE e == manifest.entries[i]
<1>1. /\ BaselineOf(manifest)[i] = Dependency(e.id, e.name, e.before)
      /\ CandidateOf(manifest)[i] = Dependency(e.id, e.name, e.after)
  BY DEF BaselineOf, CandidateOf
<1>2. i \in Changing(manifest) =>
         ChangesOf(manifest)[i] =
           [id |-> e.id, name |-> e.name, kind |-> "update",
            before |-> BaselineOf(manifest)[i], after |-> CandidateOf(manifest)[i]]
  BY DEF ChangesOf
<1> QED BY <1>1, <1>2, Fields

LEMMA EntriesAreDistinct ==
  ASSUME NEW manifest, CandidateSetOk(CandidateSetOf(manifest))
  PROVE  Distinct(manifest.entries)
<1>1. Distinct(BaselineOf(manifest)) BY DEF CandidateSetOk, CandidateSetOf, SetOk
<1>2. DOMAIN BaselineOf(manifest) = DOMAIN manifest.entries BY DEF BaselineOf
<1> QED BY <1>1, <1>2, SetsOfManifest DEF Distinct

\* A subset of the changes applied to the baseline: entry by entry the artifact
\* after its change, if chosen, and the one before it if not.
LEMMA AppliedEntries ==
  ASSUME NEW manifest, CandidateSetOk(CandidateSetOf(manifest)),
         NEW chosen \in SUBSET Changing(manifest)
  PROVE  LET applied == Applied(BaselineOf(manifest), Restrict(ChangesOf(manifest), chosen))
         IN  /\ DOMAIN applied = NamesOf(manifest.entries)
             /\ \A i \in DOMAIN manifest.entries :
                  LET e == manifest.entries[i]
                  IN  applied[e.name] =
                        Dependency(e.id, e.name, IF i \in chosen THEN e.after ELSE e.before)
<1> DEFINE E       == manifest.entries
           base    == BaselineOf(manifest)
           all     == ChangesOf(manifest)
           some    == Restrict(all, chosen)
           applied == Applied(base, some)
<1>1. /\ Distinct(E) /\ Distinct(base) /\ Distinct(all)
      /\ DOMAIN base = DOMAIN E /\ DOMAIN all = Changing(manifest)
      /\ \A i \in DOMAIN E : base[i] = Dependency(E[i].id, E[i].name, E[i].before)
                            /\ base[i].name = E[i].name
  BY EntriesAreDistinct, SetsOfManifest DEF CandidateSetOk, CandidateSetOf, SetOk, BaselineOf,
     ChangesOf
<1>2. /\ Distinct(some) /\ DOMAIN some = chosen
      /\ \A i \in chosen : some[i] = all[i]
  BY <1>1, PartIsDistinct
<1>3. \A i \in chosen : /\ i \in DOMAIN E
                        /\ some[i].name = E[i].name /\ some[i].kind = "update"
                        /\ some[i].after = Dependency(E[i].id, E[i].name, E[i].after)
  BY <1>1, <1>2, SetsOfManifest DEF Changing
<1>4. NamesOf(base) = NamesOf(E)
  BY <1>1 DEF NamesOf
<1>5. NamesOf(some) \subseteq NamesOf(E)
  BY <1>2, <1>3 DEF NamesOf
<1>6. Removed(some) = {}
  BY <1>2, <1>3 DEF Removed
<1>7. DOMAIN applied = NamesOf(E)
  BY <1>4, <1>5, <1>6 DEF Applied
<1>8. ASSUME NEW i \in DOMAIN E
      PROVE  applied[E[i].name] =
               Dependency(E[i].id, E[i].name, IF i \in chosen THEN E[i].after ELSE E[i].before)
  <2>1. E[i].name \in NamesOf(E) BY DEF NamesOf
  <2>2. applied[E[i].name] = After(base, some, E[i].name)
    BY <2>1, <1>4, <1>5, <1>6 DEF Applied
  <2>3. CASE i \in chosen
    <3>1. E[i].name \in NamesOf(some) BY <2>3, <1>2, <1>3 DEF NamesOf
    <3>2. Member(some, E[i].name) = some[i]
      BY <2>3, <1>2, <1>3, MemberIsFound
    <3> QED BY <2>2, <2>3, <3>1, <3>2, <1>3 DEF After
  <2>4. CASE i \notin chosen
    <3>1. E[i].name \notin NamesOf(some)
      BY <2>4, <1>1, <1>2, <1>3 DEF NamesOf, Distinct
    <3>2. Member(base, E[i].name) = base[i] BY <1>1, MemberIsFound
    <3> QED BY <2>2, <2>4, <3>1, <3>2, <1>1 DEF After
  <2> QED BY <2>3, <2>4
<1> QED BY <1>7, <1>8

\* The result has distinct ids, distinct names and only sound artifacts.
LEMMA AppliedIsASet ==
  ASSUME NEW manifest, CandidateSetOk(CandidateSetOf(manifest)),
         NEW chosen \in SUBSET Changing(manifest)
  PROVE  LET applied == Applied(BaselineOf(manifest), Restrict(ChangesOf(manifest), chosen))
         IN  /\ SetOk(applied)
             /\ \A i \in DOMAIN manifest.entries :
                  Member(applied, manifest.entries[i].name) = applied[manifest.entries[i].name]
             /\ NamesOf(applied) = NamesOf(manifest.entries)
<1> DEFINE E       == manifest.entries
           base    == BaselineOf(manifest)
           applied == Applied(base, Restrict(ChangesOf(manifest), chosen))
<1>1. Distinct(E) BY EntriesAreDistinct
<1>2. /\ DOMAIN applied = NamesOf(E)
      /\ \A i \in DOMAIN E :
           applied[E[i].name] =
             Dependency(E[i].id, E[i].name, IF i \in chosen THEN E[i].after ELSE E[i].before)
  BY AppliedEntries
<1>3. ASSUME NEW m \in DOMAIN applied, NEW n \in DOMAIN applied, m # n
      PROVE  applied[m].id # applied[n].id /\ applied[m].name # applied[n].name
  <2>1. PICK i \in DOMAIN E : E[i].name = m BY <1>2, NamedByIndex
  <2>2. PICK j \in DOMAIN E : E[j].name = n BY <1>2, NamedByIndex
  <2>3. i # j BY <1>3, <2>1, <2>2
  <2>4. /\ applied[m].id = E[i].id /\ applied[m].name = E[i].name
        /\ applied[n].id = E[j].id /\ applied[n].name = E[j].name
    BY <1>2, <2>1, <2>2, Fields
  <2> QED BY <1>1, <2>3, <2>4 DEF Distinct
<1>4. ASSUME NEW n \in DOMAIN applied
      PROVE  DependencyOk(applied[n])
  <2>1. PICK i \in DOMAIN E : E[i].name = n BY <1>2, NamedByIndex
  <2>2. DependencyOk(base[i]) /\ DependencyOk(CandidateOf(manifest)[i])
    BY <2>1 DEF CandidateSetOk, CandidateSetOf, SetOk, BaselineOf, CandidateOf
  <2>3. E[i].before.source \in Sources /\ E[i].after.source \in Sources
    BY <2>1, <2>2, SetsOfManifest, Fields DEF DependencyOk
  <2> QED BY <1>2, <2>1, <2>3, Fields DEF DependencyOk
<1>5. SetOk(applied) BY <1>3, <1>4 DEF SetOk, Distinct
<1>6. ASSUME NEW i \in DOMAIN E
      PROVE  /\ E[i].name \in DOMAIN applied
             /\ applied[E[i].name].name = E[i].name
             /\ Member(applied, E[i].name) = applied[E[i].name]
  <2>1. E[i].name \in DOMAIN applied /\ applied[E[i].name].name = E[i].name
    BY <1>2, Fields DEF NamesOf
  <2> QED BY <1>5, <2>1, MemberIsFound DEF SetOk
<1>7. NamesOf(applied) = NamesOf(E)
  <2>1. ASSUME NEW name \in NamesOf(applied) PROVE name \in NamesOf(E)
    <3>1. PICK n \in DOMAIN applied : applied[n].name = name BY <2>1, NamedByIndex
    <3>2. PICK i \in DOMAIN E : E[i].name = n BY <1>2, <3>1, NamedByIndex
    <3> QED BY <1>2, <1>6, <3>1, <3>2
  <2>2. ASSUME NEW name \in NamesOf(E) PROVE name \in NamesOf(applied)
    <3>1. PICK i \in DOMAIN E : E[i].name = name BY <2>2, NamedByIndex
    <3> QED BY <1>6, <3>1 DEF NamesOf
  <2> QED BY <2>1, <2>2
<1> QED BY <1>5, <1>6, <1>7

-----------------------------------------------------------------------------
(* The probes of an accepted manifest.                                     *)

\* No probe of an accepted manifest is refused for its resolution: baseline and
\* candidate members mixed in any way have distinct ids and names, each chosen
\* change finds the member it changes (resolution_for_changes never fails
\* after to_candidate_set succeeded).
THEOREM SubsetsResolve ==
  ASSUME NEW manifest, CandidateSetOk(CandidateSetOf(manifest)),
         NEW chosen \in SUBSET Changing(manifest)
  PROVE  LET set     == CandidateSetOf(manifest)
             changes == Restrict(ChangesOf(manifest), chosen)
         IN  resolution_for_changes(set, changes) = Applied(set.baseline, changes)
<1> DEFINE E       == manifest.entries
           set     == CandidateSetOf(manifest)
           base    == BaselineOf(manifest)
           all     == ChangesOf(manifest)
           some    == Restrict(all, chosen)
           applied == Applied(base, some)
<1>1. set.baseline = base /\ set.changes = all /\ set.candidate = CandidateOf(manifest)
  BY DEF CandidateSetOf
<1>2. /\ Distinct(E) /\ Distinct(base) /\ Distinct(all)
      /\ DOMAIN base = DOMAIN E /\ DOMAIN all = Changing(manifest)
  BY EntriesAreDistinct DEF CandidateSetOk, CandidateSetOf, SetOk, BaselineOf, ChangesOf
<1>3. /\ Distinct(some) /\ DOMAIN some = chosen
      /\ \A i \in chosen : some[i] = all[i]
  BY <1>2, PartIsDistinct
<1>4. Declared(set, some)
  BY <1>1, <1>2, <1>3 DEF Declared, Distinct
<1>5. ASSUME NEW i \in DOMAIN some
      PROVE  Applies(some[i], set.baseline)
  <2>1. i \in DOMAIN E /\ i \in Changing(manifest) BY <1>3 DEF Changing
  <2>2. some[i].name = E[i].name /\ some[i].kind = "update" /\ some[i].before = base[i]
    BY <1>3, <1>5, <2>1, SetsOfManifest
  <2>3. base[i].name = E[i].name BY <2>1, SetsOfManifest
  <2>4. Member(base, E[i].name) = base[i] BY <1>2, <2>1, <2>3, MemberIsFound
  <2> QED BY <1>1, <2>2, <2>4 DEF Applies
<1>6. SetOk(applied) BY AppliedIsASet
<1> QED BY <1>1, <1>4, <1>5, <1>6 DEF resolution_for_changes

\* Two probes with different changes install different resolutions: a result
\* is never attributed to changes that were not in the environment
\* (an update "must alter the exact resolution").
THEOREM ProbesDiffer ==
  ASSUME NEW manifest, CandidateSetOk(CandidateSetOf(manifest)),
         NEW one \in SUBSET Changing(manifest), NEW other \in SUBSET Changing(manifest),
         one # other
  PROVE  Applied(BaselineOf(manifest), Restrict(ChangesOf(manifest), one))
           # Applied(BaselineOf(manifest), Restrict(ChangesOf(manifest), other))
<1> DEFINE E         == manifest.entries
           result(S) == Applied(BaselineOf(manifest), Restrict(ChangesOf(manifest), S))
<1>1. PICK i : (i \in one /\ i \notin other) \/ (i \in other /\ i \notin one)
  OBVIOUS
<1>2. i \in Changing(manifest) /\ i \in DOMAIN E BY <1>1 DEF Changing
<1>3. ASSUME NEW S \in SUBSET Changing(manifest)
      PROVE  result(S)[E[i].name] =
               Dependency(E[i].id, E[i].name, IF i \in S THEN E[i].after ELSE E[i].before)
  BY <1>2, AppliedEntries
<1>4. ChangeOk(ChangesOf(manifest)[i])
  BY <1>2 DEF CandidateSetOk, CandidateSetOf, ChangesOf
<1>5. Dependency(E[i].id, E[i].name, E[i].before) # Dependency(E[i].id, E[i].name, E[i].after)
  BY <1>2, <1>4, SetsOfManifest DEF ChangeOk
<1>6. result(one)[E[i].name] # result(other)[E[i].name]
  BY <1>1, <1>3, <1>5
<1> QED BY <1>6

\* Every probe of an accepted manifest is itself a valid candidate set: its
\* chosen changes are the whole difference between the baseline and what it
\* installs, as probe_for_subset, the planner and the verifier ask again.
THEOREM ProbesAreValid ==
  ASSUME NEW manifest, CandidateSetOk(CandidateSetOf(manifest)),
         NEW chosen \in SUBSET Changing(manifest), chosen # {}
  PROVE  LET full    == CandidateSetOf(manifest)
             changes == Restrict(full.changes, chosen)
         IN  CandidateSetOk([baseline |-> full.baseline,
                             candidate |-> resolution_for_changes(full, changes),
                             changes |-> changes])
<1> DEFINE E       == manifest.entries
           full    == CandidateSetOf(manifest)
           base    == BaselineOf(manifest)
           all     == ChangesOf(manifest)
           some    == Restrict(all, chosen)
           applied == Applied(base, some)
<1>1. full.baseline = base /\ full.changes = all BY DEF CandidateSetOf
<1>2. resolution_for_changes(full, some) = applied BY <1>1, SubsetsResolve
<1>3. /\ SetOk(base) /\ Distinct(base) /\ Distinct(all) /\ Distinct(E)
      /\ DOMAIN base = DOMAIN E /\ DOMAIN all = Changing(manifest)
      /\ \A i \in DOMAIN all : ChangeOk(all[i])
  BY EntriesAreDistinct DEF CandidateSetOk, CandidateSetOf, SetOk, BaselineOf, ChangesOf
<1>4. /\ Distinct(some) /\ DOMAIN some = chosen
      /\ \A i \in chosen : some[i] = all[i]
  BY <1>3, PartIsDistinct
<1>5. /\ SetOk(applied) /\ NamesOf(applied) = NamesOf(E)
      /\ \A i \in DOMAIN E :
           Member(applied, E[i].name) =
             Dependency(E[i].id, E[i].name, IF i \in chosen THEN E[i].after ELSE E[i].before)
  BY AppliedIsASet, AppliedEntries
<1>6. NamesOf(base) = NamesOf(E) BY <1>3, SetsOfManifest DEF NamesOf
<1>7. ASSUME NEW i \in DOMAIN E
      PROVE  LET before == Member(base, E[i].name)
                 after  == Member(applied, E[i].name)
                 change == Member(some, E[i].name)
             IN  IF before = after THEN E[i].name \notin NamesOf(some)
                 ELSE /\ E[i].name \in NamesOf(some)
                      /\ change.before = before /\ change.after = after
  <2>1. /\ base[i].name = E[i].name
        /\ base[i] = Dependency(E[i].id, E[i].name, E[i].before)
        /\ CandidateOf(manifest)[i] = Dependency(E[i].id, E[i].name, E[i].after)
    BY SetsOfManifest
  <2>2. Member(base, E[i].name) = base[i] BY <1>3, <2>1, MemberIsFound
  <2>3. CASE i \in chosen
    <3>1. /\ some[i].name = E[i].name /\ some[i].kind = "update"
          /\ some[i].before = base[i] /\ some[i].after = CandidateOf(manifest)[i]
      BY <1>4, <2>3, SetsOfManifest
    <3>2. E[i].name \in NamesOf(some) BY <1>4, <2>3, <3>1 DEF NamesOf
    <3>3. Member(some, E[i].name) = some[i] BY <1>4, <2>3, <3>1, MemberIsFound
    <3>4. some[i].before # some[i].after
      BY <1>3, <1>4, <2>3, <3>1 DEF ChangeOk
    <3> QED BY <1>5, <2>1, <2>2, <2>3, <3>1, <3>2, <3>3, <3>4
  <2>4. CASE i \notin chosen
    <3>1. E[i].name \notin NamesOf(some)
      <4>1. \A j \in chosen : j \in DOMAIN E /\ some[j].name = E[j].name
        BY <1>4, SetsOfManifest DEF Changing
      <4> QED BY <1>3, <1>4, <2>4, <4>1 DEF NamesOf, Distinct
    <3> QED BY <1>5, <2>1, <2>2, <2>4, <3>1
  <2> QED BY <2>3, <2>4
<1>8. \A name \in NamesOf(base) \cup NamesOf(applied) :
         LET before == Member(base, name)
             after  == Member(applied, name)
             change == Member(some, name)
         IN  IF before = after THEN name \notin NamesOf(some)
             ELSE /\ name \in NamesOf(some)
                  /\ change.before = before /\ change.after = after
  <2> SUFFICES ASSUME NEW name \in NamesOf(E)
               PROVE  LET before == Member(base, name)
                          after  == Member(applied, name)
                          change == Member(some, name)
                      IN  IF before = after THEN name \notin NamesOf(some)
                          ELSE /\ name \in NamesOf(some)
                               /\ change.before = before /\ change.after = after
    BY <1>5, <1>6
  <2>1. PICK i \in DOMAIN E : E[i].name = name BY NamedByIndex
  <2> QED BY <1>7, <2>1
<1>9. NamesOf(some) \subseteq NamesOf(base)
  <2>1. NamesOf(all) \subseteq NamesOf(base)
    <3>1. \A j \in DOMAIN all : j \in DOMAIN E /\ all[j].name = E[j].name
      BY <1>3, SetsOfManifest DEF Changing
    <3> QED BY <1>6, <3>1 DEF NamesOf
  <2> QED BY <1>3, <2>1, PartIsDistinct
<1>10. DOMAIN some # {} /\ \A i \in DOMAIN some : ChangeOk(some[i]) BY <1>3, <1>4
<1> DEFINE probe == [baseline |-> base, candidate |-> applied, changes |-> some]
<1>11. CandidateSetOk(probe)
  <2>1. probe.baseline = base /\ probe.candidate = applied /\ probe.changes = some
    OBVIOUS
  <2> HIDE DEF probe, base, applied, some
  <2> QED BY <2>1, <1>3, <1>4, <1>5, <1>8, <1>9, <1>10 DEF CandidateSetOk
<1> QED BY <1>1, <1>2, <1>11

=============================================================================
