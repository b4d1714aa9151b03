------------------------- MODULE Supervisor_proofs -------------------------
(***************************************************************************)
(* Theorems of Supervisor for every CLUSTER_MIN, CLUSTER_MAX and bound:    *)
(* the pool never serves with more than CLUSTER_MAX children, nothing is   *)
(* spawned in a shutdown or a pause, and a scale-down keeps the floor.     *)
(* What the induction needs besides is that nothing has happened before    *)
(* start(); the rest are lemmas about the counts, one for each thing that  *)
(* is done to the list of children.  And of ProcessLife, for any lists of  *)
(* modules, requests, jobs and signals: what a process that serves has     *)
(* loaded, and what is closed when.                                        *)
(***************************************************************************)
EXTENDS Processes, FiniteSetTheorems, SequenceTheorems, WellFoundedInduction, TLAPS

USE LimitsAssumption, BoundsAssumption

\* Before start() there is nothing to exit, no timer and no signal handler.
BeforeStart == ~started => /\ children = <<>> /\ backoffs = 0 /\ pauses = 0
                           /\ ~paused /\ ~shuttingDown

Inv == TypeOK /\ LiveWithinMax /\ BeforeStart

-----------------------------------------------------------------------------
(***************************************************************************)
(* The counts.                                                             *)
(***************************************************************************)
LEMMA NewChildTyped == NewChild \in Child /\ NewChild.draining = FALSE /\ NewChild.killTimer = FALSE
BY DEF NewChild, Child

LEMMA UpTo ==
    ASSUME NEW n \in Nat
    PROVE  IsFiniteSet(1..n) /\ Cardinality(1..n) = n
<1>1. n \in Int /\ 1 \in Int
  OBVIOUS
<1>2. IsFiniteSet(1..n) /\ Cardinality(1..n) = IF 1 > n THEN 0 ELSE n - 1 + 1
  BY <1>1, FS_Interval, Zenon
<1>. QED  BY <1>2

LEMMA LiveFinite ==
    ASSUME NEW cs \in Seq(Child)
    PROVE  /\ Len(cs) \in Nat /\ DOMAIN cs = 1..Len(cs)
           /\ IsFiniteSet(Live(cs)) /\ Live(cs) \subseteq 1..Len(cs)
           /\ LiveCount(cs) \in Nat /\ LiveCount(cs) <= Len(cs) /\ Draining(cs) \in Nat
<1>1. Len(cs) \in Nat /\ DOMAIN cs = 1..Len(cs)
  BY LenProperties
<1>2. Live(cs) \in SUBSET (1..Len(cs))
  BY <1>1 DEF Live
<1>3. IsFiniteSet(1..Len(cs)) /\ Cardinality(1..Len(cs)) = Len(cs)
  BY <1>1, UpTo
<1>4. IsFiniteSet(Live(cs)) /\ Cardinality(Live(cs)) <= Len(cs)
  BY <1>2, <1>3, FS_Subset
<1>5. Cardinality(Live(cs)) \in Nat
  BY <1>4, FS_CardinalityType
<1>. QED  BY <1>1, <1>2, <1>4, <1>5 DEF LiveCount, Draining

\* Children that are spawned serve.
LEMMA SpawnCounts ==
    ASSUME NEW cs \in Seq(Child), NEW k \in Nat
    PROVE  LET ds == cs \o [i \in 1..k |-> NewChild]
           IN /\ ds \in Seq(Child) /\ Len(ds) = Len(cs) + k
              /\ LiveCount(ds) = LiveCount(cs) + k /\ Draining(ds) = Draining(cs)
<1>. DEFINE new == [i \in 1..k |-> NewChild]
            ds == cs \o new
            fresh == (Len(cs) + 1)..(Len(cs) + k)
<1>1. new \in Seq(Child) /\ Len(new) = k /\ \A i \in 1..k : new[i] = NewChild
  <2>1. new \in [1..k -> Child]
    BY NewChildTyped
  <2>2. new \in Seq(Child)
    BY <2>1, SeqDef
  <2>3. Len(new) \in Nat /\ DOMAIN new = 1..Len(new) /\ DOMAIN new = 1..k
    BY <2>2, LenProperties
  <2>4. Len(new) = k
    BY <2>3
  <2>. QED  BY <2>2, <2>4
<1>. HIDE DEF new
<1>2. /\ ds \in Seq(Child) /\ Len(ds) = Len(cs) + k
      /\ \A i \in 1..(Len(cs) + k) : ds[i] = IF i <= Len(cs) THEN cs[i] ELSE NewChild
  <2>1. /\ ds \in Seq(Child) /\ Len(ds) = Len(cs) + k
        /\ \A i \in 1..(Len(cs) + k) : ds[i] = IF i <= Len(cs) THEN cs[i] ELSE new[i - Len(cs)]
    BY <1>1, ConcatProperties
  <2>2. \A i \in 1..(Len(cs) + k) : ~(i <= Len(cs)) => i - Len(cs) \in 1..k
    BY LiveFinite
  <2>. QED  BY <1>1, <2>1, <2>2
<1>. HIDE DEF ds
<1>3. Len(cs) \in Nat /\ DOMAIN cs = 1..Len(cs) /\ DOMAIN ds = 1..(Len(cs) + k)
  BY <1>2, LiveFinite
<1>4. Live(ds) = Live(cs) \cup fresh
  <2>1. \A i \in 1..(Len(cs) + k) : i \in 1..Len(cs) \/ i \in fresh
    BY <1>3
  <2>2. fresh \subseteq 1..(Len(cs) + k) /\ 1..Len(cs) \subseteq 1..(Len(cs) + k)
    BY <1>3
  <2>3. \A i \in 1..Len(cs) : ds[i] = cs[i]
    BY <1>2, <1>3
  <2>4. \A i \in fresh : ds[i] = NewChild
    BY <1>2, <1>3
  <2>. QED  BY <1>3, <2>1, <2>2, <2>3, <2>4, NewChildTyped DEF Live
<1>5. IsFiniteSet(fresh) /\ Cardinality(fresh) = k
  BY <1>3, FS_Interval
<1>6. Live(cs) \cap fresh = {}
  BY <1>3, LiveFinite
<1>7. Cardinality(Live(cs) \cup fresh) = Cardinality(Live(cs)) + Cardinality(fresh) - Cardinality(Live(cs) \cap fresh)
  BY <1>5, LiveFinite, FS_Union
<1>8. Cardinality(Live(cs) \cap fresh) = 0
  BY <1>6, FS_EmptySet
<1>9. LiveCount(ds) = LiveCount(cs) + k
  BY <1>4, <1>5, <1>7, <1>8, LiveFinite DEF LiveCount
<1>10. Draining(ds) = Draining(cs)
  BY <1>2, <1>9, LiveFinite DEF Draining
<1>. QED  BY <1>2, <1>9, <1>10 DEF ds, new

LEMMA AppendCounts ==
    ASSUME NEW cs \in Seq(Child)
    PROVE  /\ Append(cs, NewChild) \in Seq(Child) /\ Len(Append(cs, NewChild)) = Len(cs) + 1
           /\ LiveCount(Append(cs, NewChild)) = LiveCount(cs) + 1
           /\ Draining(Append(cs, NewChild)) = Draining(cs)
<1>. DEFINE ds == Append(cs, NewChild)
<1>1. /\ ds \in Seq(Child) /\ Len(ds) = Len(cs) + 1
      /\ \A i \in 1..Len(cs) : ds[i] = cs[i]
      /\ ds[Len(cs) + 1] = NewChild
  BY NewChildTyped, AppendProperties
<1>. HIDE DEF ds
<1>2. Len(cs) \in Nat /\ DOMAIN cs = 1..Len(cs) /\ DOMAIN ds = 1..(Len(cs) + 1)
  BY <1>1, LiveFinite
<1>3. Live(ds) = Live(cs) \cup {Len(cs) + 1}
  <2>1. \A i : i \in 1..(Len(cs) + 1) <=> i \in 1..Len(cs) \/ i = Len(cs) + 1
    BY <1>2
  <2>. QED  BY <1>1, <1>2, <2>1, NewChildTyped DEF Live
<1>4. Len(cs) + 1 \notin Live(cs)
  BY <1>2 DEF Live
<1>5. LiveCount(ds) = LiveCount(cs) + 1
  BY <1>3, <1>4, LiveFinite, FS_AddElement DEF LiveCount
<1>6. Draining(ds) = Draining(cs)
  BY <1>1, <1>5, LiveFinite DEF Draining
<1>. QED  BY <1>1, <1>5, <1>6 DEF ds

\* A child that exits was counted as live or as draining, by its flag.
LEMMA RemoveCounts ==
    ASSUME NEW cs \in Seq(Child), NEW i \in DOMAIN cs
    PROVE  /\ RemoveAt(cs, i) \in Seq(Child) /\ Len(RemoveAt(cs, i)) = Len(cs) - 1
           /\ LiveCount(RemoveAt(cs, i)) <= LiveCount(cs)
           /\ Draining(RemoveAt(cs, i)) <= Draining(cs)
<1>. DEFINE ds == RemoveAt(cs, i)
            n == Len(cs)
            Old(j) == IF j < i THEN j ELSE j + 1
            New(j) == IF j < i THEN j ELSE j - 1
<1>1. n \in Nat /\ DOMAIN cs = 1..n /\ i \in 1..n
  BY LiveFinite
<1>2. /\ ds \in Seq(Child) /\ Len(ds) = n - 1
      /\ \A j \in 1..(n - 1) : ds[j] = cs[Old(j)]
  <2>. DEFINE a == SubSeq(cs, 1, i - 1)
              b == SubSeq(cs, i + 1, n)
  <2>1. /\ a \in Seq(Child) /\ Len(a) = i - 1 /\ \A j \in 1..(i - 1) : a[j] = cs[j]
    BY <1>1, SubSeqProperties
  <2>2. /\ b \in Seq(Child) /\ Len(b) = n - i /\ \A j \in 1..(n - i) : b[j] = cs[i + j]
    BY <1>1, SubSeqProperties
  <2>3. ds = a \o b
    BY DEF RemoveAt
  <2>. HIDE DEF a, b
  <2>4. /\ a \o b \in Seq(Child) /\ Len(a \o b) = (i - 1) + (n - i)
        /\ \A j \in 1..((i - 1) + (n - i)) : (a \o b)[j] = IF j <= i - 1 THEN a[j] ELSE b[j - (i - 1)]
    <3>1. /\ Len(a \o b) = Len(a) + Len(b) /\ a \o b \in Seq(Child)
          /\ \A j \in 1..(Len(a) + Len(b)) : (a \o b)[j] = IF j <= Len(a) THEN a[j] ELSE b[j - Len(a)]
      BY <2>1, <2>2, ConcatProperties
    <3>. QED  BY <2>1, <2>2, <3>1
  <2>5. ASSUME NEW j \in 1..(n - 1) PROVE (a \o b)[j] = cs[Old(j)]
    <3>1. CASE j < i
      BY <1>1, <2>1, <2>4, <3>1
    <3>2. CASE ~(j < i)
      <4>1. j - (i - 1) \in 1..(n - i) /\ i + (j - (i - 1)) = j + 1
        BY <1>1, <3>2
      <4>2. j \in 1..((i - 1) + (n - i)) /\ ~(j <= i - 1)
        BY <1>1, <3>2
      <4>3. (a \o b)[j] = b[j - (i - 1)]
        BY <2>4, <4>2
      <4>4. b[j - (i - 1)] = cs[j + 1]
        BY <2>2, <4>1
      <4>. QED  BY <3>2, <4>3, <4>4
    <3>. QED  BY <3>1, <3>2
  <2>. QED  BY <1>1, <2>3, <2>4, <2>5
<1>. HIDE DEF ds
<1>3. DOMAIN ds = 1..(n - 1)
  BY <1>2, LenProperties
<1>4. /\ \A j \in 1..(n - 1) : Old(j) \in 1..n /\ Old(j) # i /\ New(Old(j)) = j
      /\ \A j \in 1..n : j # i => New(j) \in 1..(n - 1) /\ Old(New(j)) = j
  BY <1>1
<1>. DEFINE live == Live(cs) \ {i}
            f == [j \in live |-> New(j)]
<1>5. f \in Bijection(live, Live(ds))
  <2>1. \A j \in live : j \in 1..n /\ j # i /\ ~cs[j].draining
    BY <1>1 DEF Live
  <2>2. \A j \in live : New(j) \in Live(ds)
    BY <1>2, <1>3, <1>4, <2>1 DEF Live
  <2>3. \A j, k \in live : New(j) = New(k) => j = k
    BY <1>4, <2>1
  <2>4. \A m \in Live(ds) : Old(m) \in live /\ New(Old(m)) = m
    BY <1>1, <1>2, <1>3, <1>4 DEF Live
  <2>. HIDE DEF live, New, Old
  <2>5. f \in [live -> Live(ds)]
    BY <2>2
  <2>6. f \in Injection(live, Live(ds))
    BY <2>3, <2>5 DEF Injection, IsInjective
  <2>7. f \in Surjection(live, Live(ds))
    BY <2>4, <2>5 DEF Surjection
  <2>. QED  BY <2>6, <2>7 DEF Bijection
<1>6. IsFiniteSet(live) /\ Cardinality(live) = IF i \in Live(cs) THEN LiveCount(cs) - 1 ELSE LiveCount(cs)
  BY LiveFinite, FS_RemoveElement DEF LiveCount
<1>7. LiveCount(ds) = IF i \in Live(cs) THEN LiveCount(cs) - 1 ELSE LiveCount(cs)
  <2>1. ExistsBijection(live, Live(ds))
    BY <1>5 DEF ExistsBijection
  <2>. HIDE DEF live
  <2>2. Cardinality(Live(ds)) = Cardinality(live)
    BY <1>6, <2>1, FS_Bijection
  <2>. QED  BY <1>6, <2>2 DEF LiveCount
<1>8. i \notin Live(cs) => LiveCount(cs) < n
  <2>1. ASSUME i \notin Live(cs) PROVE Cardinality(Live(cs)) # n
    <3>1. IsFiniteSet(1..n) /\ Cardinality(1..n) = n
      BY <1>1, UpTo
    <3>2. Live(cs) \in SUBSET (1..n) /\ Live(cs) # 1..n
      BY <1>1, <2>1, LiveFinite
    <3>. QED  BY <3>1, <3>2, FS_Subset
  <2>. QED  BY <1>1, <2>1, LiveFinite DEF LiveCount
<1>9. LiveCount(ds) <= LiveCount(cs) /\ Draining(ds) <= Draining(cs)
  BY <1>1, <1>2, <1>7, LiveFinite DEF Draining
<1>. QED  BY <1>2, <1>9 DEF ds

\* Nothing is counted differently while the draining flags stay.
LEMMA SameCounts ==
    ASSUME NEW cs \in Seq(Child), NEW ds \in Seq(Child), DOMAIN ds = DOMAIN cs,
           \A i \in DOMAIN cs : ds[i].draining = cs[i].draining
    PROVE  Len(ds) = Len(cs) /\ LiveCount(ds) = LiveCount(cs) /\ Draining(ds) = Draining(cs)
<1>1. Len(ds) = Len(cs)
  <2>1. Len(cs) \in Nat /\ Len(ds) \in Nat /\ 1..Len(ds) = 1..Len(cs)
    BY LiveFinite
  <2>. QED  BY <2>1
<1>2. Live(ds) = Live(cs)
  BY DEF Live
<1>. QED  BY <1>1, <1>2 DEF LiveCount, Draining

LEMMA MaxExists ==
    ASSUME NEW n \in Nat, NEW S \in SUBSET (1..n), S # {}
    PROVE  Max(S) \in S
<1>. DEFINE T == {k \in 0..n : n - k \in S}
<1>1. PICK i \in S : TRUE
  OBVIOUS
<1>2. n - i \in T
  <2>1. i \in 1..n
    OBVIOUS
  <2>2. n - i \in 0..n /\ n - (n - i) = i
    BY <2>1
  <2>. QED  BY <2>2
<1>3. T \subseteq Nat
  BY SMT
<1>4. T # {}
  BY <1>2
<1>5. PICK k \in T : \A m \in T : m >= k
  <2>. DEFINE less == {p \in Nat \X Nat : p[1] < p[2]}
  <2>1. OpToRel(<, Nat) = less
    BY DEF OpToRel
  <2>2. IsWellFoundedOn(less, Nat)
    BY <2>1, NatLessThanWellFounded
  <2>. HIDE DEF less, T
  <2>3. PICK k \in T : \A m \in T : ~(<<m, k>> \in less)
    BY <1>3, <1>4, <2>2, WFMin
  <2>4. ASSUME NEW m \in T PROVE m >= k
    <3>1. m \in Nat /\ k \in Nat
      BY <1>3
    <3>2. ~(<<m, k>> \in less)
      BY <2>3
    <3>3. ~(m < k)
      BY <3>1, <3>2 DEF less
    <3>. QED  BY <3>1, <3>3
  <2>. QED  BY <2>4
<1>6. n - k \in S /\ \A j \in S : n - k >= j
  <2>1. ASSUME NEW j \in S PROVE n - k >= j
    <3>1. j \in 1..n /\ n - j \in 0..n /\ n - (n - j) = j
      OBVIOUS
    <3>2. n - j >= k
      BY <1>5, <3>1
    <3>. QED  BY <1>3, <3>1, <3>2
  <2>. QED  BY <2>1
<1>. QED  BY <1>6 DEF Max

LEMMA DrainCounts ==
    ASSUME NEW cs \in Seq(Child), LiveCount(cs) > 0
    PROVE  /\ DrainOne(cs) \in Seq(Child) /\ Len(DrainOne(cs)) = Len(cs)
           /\ LiveCount(DrainOne(cs)) = LiveCount(cs) - 1
<1>. DEFINE n == SelectLastInSeq(cs, LAMBDA c : ~c.draining)
            a == [cs EXCEPT ![n].draining = TRUE]
            b == [a EXCEPT ![n].killTimer = TRUE]
            ds == [b EXCEPT ![n].signal = "SIGTERM"]
<1>1. Len(cs) \in Nat /\ DOMAIN cs = 1..Len(cs) /\ cs \in [1..Len(cs) -> Child]
  BY LenProperties
<1>2. Live(cs) # {}
  <2>1. ASSUME Live(cs) = {} PROVE LiveCount(cs) = 0
    BY <2>1, FS_EmptySet, Zenon DEF LiveCount
  <2>. QED  BY <2>1
<1>3. n \in Live(cs)
  <2>1. n = Max(Live(cs))
    BY <1>1, <1>2 DEF SelectLastInSeq, Live
  <2>2. Live(cs) \in SUBSET (1..Len(cs))
    BY <1>1 DEF Live
  <2>. QED  BY <1>1, <1>2, <2>1, <2>2, MaxExists
<1>4. DrainOne(cs) = ds
  BY DEF DrainOne
<1>. HIDE DEF n
<1>5. n \in 1..Len(cs) /\ cs[n] \in Child
  BY <1>1, <1>3 DEF Live
<1>. DEFINE R == [young : BOOLEAN, draining : BOOLEAN, killTimer : BOOLEAN,
                  signal : {"none", "SIGTERM", "SIGKILL"}]
<1>6. /\ a[n] \in R /\ a[n].draining = TRUE /\ DOMAIN a = 1..Len(cs)
      /\ \A i \in 1..Len(cs) : i # n => a[i] = cs[i]
  BY <1>1, <1>5 DEF Child
<1>. HIDE DEF a
<1>7. /\ b[n] \in R /\ b[n].draining = TRUE /\ DOMAIN b = 1..Len(cs)
      /\ \A i \in 1..Len(cs) : i # n => b[i] = cs[i]
  BY <1>5, <1>6
<1>. HIDE DEF b
<1>8. /\ ds[n] \in R /\ ds[n].draining = TRUE /\ ds[n].signal = "SIGTERM"
      /\ DOMAIN ds = 1..Len(cs)
      /\ \A i \in 1..Len(cs) : i # n => ds[i] = cs[i]
  BY <1>5, <1>7
<1>9. ds[n] \in Child
  BY <1>8 DEF Child
<1>10. ds \in Seq(Child) /\ Len(ds) = Len(cs)
  <2>1. ds = [i \in 1..Len(cs) |-> ds[i]]
    BY <1>8
  <2>. HIDE DEF ds
  <2>2. ds \in [1..Len(cs) -> Child]
    BY <1>1, <1>8, <1>9, <2>1
  <2>3. ds \in Seq(Child)
    BY <1>1, <2>2, SeqDef
  <2>4. Len(ds) \in Nat /\ 1..Len(ds) = 1..Len(cs)
    BY <1>8, <2>3, LenProperties
  <2>. QED  BY <1>1, <2>3, <2>4
<1>. HIDE DEF ds
<1>11. Live(ds) = Live(cs) \ {n}
  BY <1>1, <1>8 DEF Live
<1>12. LiveCount(ds) = LiveCount(cs) - 1
  BY <1>3, <1>11, LiveFinite, FS_RemoveElement DEF LiveCount
<1>. QED  BY <1>4, <1>10, <1>12

LEMMA FloorCounts ==
    ASSUME NEW cs \in Seq(Child), NEW p \in BOOLEAN, shuttingDown \in BOOLEAN
    PROVE  LET ds == EnsureFloor(cs, p)
           IN /\ ds \in Seq(Child) /\ Draining(ds) = Draining(cs)
              /\ shuttingDown \/ p => ds = cs
              /\ LiveCount(ds) <= ClusterMax \/ ds = cs
              /\ LiveCount(ds) \in Nat
<1>1. CASE shuttingDown \/ p \/ LiveCount(cs) >= ClusterMin
  BY <1>1, LiveFinite DEF EnsureFloor
<1>2. CASE ~(shuttingDown \/ p \/ LiveCount(cs) >= ClusterMin)
  <2>. DEFINE k == ClusterMin - LiveCount(cs)
              ds == cs \o [i \in 1..k |-> NewChild]
  <2>1. k \in Nat /\ LiveCount(cs) + k = ClusterMin
    BY <1>2, LiveFinite
  <2>2. EnsureFloor(cs, p) = ds
    BY <1>2 DEF EnsureFloor
  <2>. HIDE DEF k
  <2>3. ds \in Seq(Child) /\ LiveCount(ds) = LiveCount(cs) + k /\ Draining(ds) = Draining(cs)
    BY <2>1, SpawnCounts
  <2>. HIDE DEF ds
  <2>. QED  BY <1>2, <2>1, <2>2, <2>3
<1>. QED  BY <1>1, <1>2

-----------------------------------------------------------------------------
(***************************************************************************)
(* What a step does to the list of children.                               *)
(***************************************************************************)
ChildrenKept ==
    /\ children' \in Seq(Child)
    /\ LiveCount(children') <= ClusterMax
    /\ shuttingDown => Len(children') <= Len(children)
    /\ paused /\ paused' => Len(children') <= Len(children)
    /\ Draining(children') > Draining(children) => LiveCount(children') >= ClusterMin

\* The flags of the children stay, whatever else is noted about them.
LEMMA FlagsKept ==
    ASSUME children \in Seq(Child), LiveWithinMax, DOMAIN children' = DOMAIN children,
           \A i \in DOMAIN children : /\ children'[i] \in Child
                                      /\ children'[i].draining = children[i].draining,
           children' = [i \in DOMAIN children |-> children'[i]]
    PROVE  ChildrenKept
<1>1. DOMAIN children = 1..Len(children) /\ Len(children) \in Nat
  BY LenProperties
<1>2. children' \in [1..Len(children) -> Child]
  BY <1>1
<1>3. children' \in Seq(Child)
  BY <1>1, <1>2, SeqDef
<1>4. /\ Len(children') = Len(children) /\ LiveCount(children') = LiveCount(children)
      /\ Draining(children') = Draining(children)
  BY <1>3, SameCounts
<1>. QED  BY <1>1, <1>3, <1>4, LiveFinite DEF ChildrenKept, LiveWithinMax

LEMMA ChildrenStep ==
    ASSUME Inv, Next
    PROVE  ChildrenKept
<1>1. /\ children \in Seq(Child) /\ LiveWithinMax /\ LiveCount(children) <= ClusterMax
      /\ shuttingDown \in BOOLEAN /\ paused \in BOOLEAN /\ FALSE \in BOOLEAN
      /\ Len(children) \in Nat /\ LiveCount(children) \in Nat /\ Draining(children) \in Nat
      /\ DOMAIN children = 1..Len(children)
  BY LiveFinite DEF Inv, TypeOK, LiveWithinMax
<1>2. ~started => children = <<>> /\ ~shuttingDown /\ ~paused
  BY DEF Inv, BeforeStart
<1>3. CASE UNCHANGED children
  BY <1>1, <1>3 DEF ChildrenKept
<1>4. CASE Start
  <2>. DEFINE new == [i \in 1..ClusterMin |-> NewChild]
  <2>1. children' = new /\ ~shuttingDown /\ ~paused /\ children = <<>>
    BY <1>2, <1>4 DEF Start
  <2>2. <<>> \in Seq(Child) /\ LiveCount(<<>>) = 0 /\ Draining(<<>>) = 0 /\ ClusterMin \in Nat
    <3>1. <<>> \in Seq(Child) /\ Len(<<>>) = 0
      BY EmptySeq
    <3>2. LiveCount(<<>>) \in Nat /\ LiveCount(<<>>) <= Len(<<>>)
      BY <3>1, LiveFinite
    <3>3. Draining(<<>>) = Len(<<>>) - LiveCount(<<>>)
      BY DEF Draining
    <3>. QED  BY <3>1, <3>2, <3>3
  <2>3. LET ds == <<>> \o new
        IN ds \in Seq(Child) /\ LiveCount(ds) = LiveCount(<<>>) + ClusterMin /\ Draining(ds) = Draining(<<>>)
    BY <2>2, SpawnCounts
  <2>4. <<>> \o new = new
    <3>1. new \in [1..ClusterMin -> Child]
      BY NewChildTyped
    <3>2. new \in Seq(Child)
      BY <2>2, <3>1, SeqDef
    <3>. HIDE DEF new
    <3>. QED  BY <3>2, ConcatEmptySeq
  <2>. HIDE DEF new
  <2>. QED  BY <1>1, <2>1, <2>2, <2>3, <2>4 DEF ChildrenKept
<1>5. ASSUME NEW i \in DOMAIN children, children' = RemoveAt(children, i) PROVE ChildrenKept
  <2>1. /\ children' \in Seq(Child) /\ Len(children') = Len(children) - 1
        /\ LiveCount(children') <= LiveCount(children) /\ Draining(children') <= Draining(children)
    BY <1>1, <1>5, RemoveCounts
  <2>. QED  BY <1>1, <2>1, LiveFinite DEF ChildrenKept
<1>6. ASSUME NEW i \in DOMAIN children, ExitSettled(i) PROVE ChildrenKept
  <2>. DEFINE cs == RemoveAt(children, i)
  <2>1. /\ cs \in Seq(Child) /\ Len(cs) = Len(children) - 1
        /\ LiveCount(cs) <= LiveCount(children) /\ Draining(cs) <= Draining(children)
    BY <1>1, RemoveCounts
  <2>2. children' = EnsureFloor(cs, paused) /\ ~shuttingDown
    BY <1>6 DEF ExitSettled
  <2>. HIDE DEF cs
  <2>3. LET ds == EnsureFloor(cs, paused)
        IN /\ ds \in Seq(Child) /\ Draining(ds) = Draining(cs)
           /\ shuttingDown \/ paused => ds = cs
           /\ LiveCount(ds) <= ClusterMax \/ ds = cs
    BY <1>1, <2>1, FloorCounts
  <2>. QED  BY <1>1, <2>1, <2>2, <2>3, LiveFinite DEF ChildrenKept
<1>7. ASSUME NEW p \in BOOLEAN, children' = EnsureFloor(children, p), paused /\ paused' => p
      PROVE  ChildrenKept
  <2>1. LET ds == EnsureFloor(children, p)
        IN /\ ds \in Seq(Child) /\ Draining(ds) = Draining(children)
           /\ shuttingDown \/ p => ds = children
           /\ LiveCount(ds) <= ClusterMax \/ ds = children
    BY <1>1, FloorCounts
  <2>. QED  BY <1>1, <1>7, <2>1 DEF ChildrenKept
<1>8. ASSUME NEW util, Tick(util) PROVE ChildrenKept
  <2>. DEFINE cs == EnsureFloor(children, FALSE)
  <2>1. /\ cs \in Seq(Child) /\ Draining(cs) = Draining(children)
        /\ LiveCount(cs) <= ClusterMax /\ LiveCount(cs) \in Nat
    <3>1. LET ds == EnsureFloor(children, FALSE)
          IN /\ ds \in Seq(Child) /\ Draining(ds) = Draining(children)
             /\ LiveCount(ds) <= ClusterMax \/ ds = children
             /\ LiveCount(ds) \in Nat
      BY <1>1, FloorCounts
    <3>. QED  BY <1>1, <3>1
  <2>2. /\ ~shuttingDown /\ ~paused
        /\ \/ LiveCount(cs) < ClusterMax /\ children' = Append(cs, NewChild)
           \/ LiveCount(cs) > ClusterMin /\ children' = DrainOne(cs)
           \/ children' = cs
    BY <1>8 DEF Tick
  <2>. HIDE DEF cs
  <2>3. CASE LiveCount(cs) < ClusterMax /\ children' = Append(cs, NewChild)
    <3>1. /\ children' \in Seq(Child) /\ LiveCount(children') = LiveCount(cs) + 1
          /\ Draining(children') = Draining(cs)
      BY <2>1, <2>3, AppendCounts
    <3>. QED  BY <1>1, <2>1, <2>2, <2>3, <3>1 DEF ChildrenKept
  <2>4. CASE LiveCount(cs) > ClusterMin /\ children' = DrainOne(cs)
    <3>1. children' \in Seq(Child) /\ LiveCount(children') = LiveCount(cs) - 1
      <4>1. LiveCount(cs) > 0
        BY <2>1, <2>4
      <4>. QED  BY <2>1, <2>4, <4>1, DrainCounts
    <3>. QED  BY <1>1, <2>1, <2>2, <2>4, <3>1 DEF ChildrenKept
  <2>5. CASE children' = cs
    BY <1>1, <2>1, <2>2, <2>5 DEF ChildrenKept
  <2>. QED  BY <2>2, <2>3, <2>4, <2>5
<1>. DEFINE R == [young : BOOLEAN, draining : BOOLEAN, killTimer : BOOLEAN,
                  signal : {"none", "SIGTERM", "SIGKILL"}]
<1>9. \A i \in DOMAIN children : /\ children[i] \in Child /\ children[i] \in R
                                 /\ children[i].killTimer => children[i].draining
                                 /\ children[i].draining => children[i].signal # "none"
  BY <1>1, ElementOfSeq DEF Child
<1>10. children \in [DOMAIN children -> Child]
  BY <1>1, LenProperties
<1>11. ASSUME NEW i \in DOMAIN children, KillTimerFires(i) PROVE ChildrenKept
  <2>. DEFINE a == [children EXCEPT ![i].killTimer = FALSE]
  <2>1. /\ a[i] \in R /\ a[i].killTimer = FALSE /\ a[i].draining = children[i].draining
        /\ DOMAIN a = DOMAIN children
        /\ \A j \in DOMAIN children : j # i => a[j] = children[j]
    BY <1>9
  <2>2. children' = [a EXCEPT ![i].signal = "SIGKILL"]
    BY <1>9, <1>11 DEF KillTimerFires
  <2>. HIDE DEF a
  <2>3. /\ children'[i] \in R /\ children'[i].killTimer = FALSE
        /\ children'[i].draining = children[i].draining /\ children'[i].signal = "SIGKILL"
        /\ DOMAIN children' = DOMAIN children
        /\ children' = [j \in DOMAIN children |-> children'[j]]
        /\ \A j \in DOMAIN children : j # i => children'[j] = children[j]
    BY <2>1, <2>2
  <2>4. children'[i] \in Child
    BY <2>3 DEF Child
  <2>. QED  BY <1>1, <1>9, <2>3, <2>4, FlagsKept
<1>12. ASSUME NEW i \in DOMAIN children, Settle(i) PROVE ChildrenKept
  <2>1. children' = [children EXCEPT ![i].young = FALSE]
    BY <1>12 DEF Settle
  <2>2. /\ children'[i] \in R /\ children'[i].killTimer = children[i].killTimer
        /\ children'[i].draining = children[i].draining /\ children'[i].signal = children[i].signal
        /\ DOMAIN children' = DOMAIN children
        /\ children' = [j \in DOMAIN children |-> children'[j]]
        /\ \A j \in DOMAIN children : j # i => children'[j] = children[j]
    BY <1>9, <1>10, <2>1
  <2>3. children'[i] \in Child
    BY <1>9, <2>2 DEF Child
  <2>. QED  BY <1>1, <1>9, <2>2, <2>3, FlagsKept
<1>13. CASE Shutdown \/ ShutdownDeadline
  <2>1. \/ children' = [i \in DOMAIN children |->
                          [children[i] EXCEPT !.signal =
                             IF children[i].signal = "none" THEN "SIGTERM" ELSE children[i].signal]]
        \/ children' = [i \in DOMAIN children |-> [children[i] EXCEPT !.signal = "SIGKILL"]]
    BY <1>9, <1>13 DEF Shutdown, ShutdownDeadline
  <2>2. /\ DOMAIN children' = DOMAIN children
        /\ children' = [j \in DOMAIN children |-> children'[j]]
    BY <2>1
  <2>3. ASSUME NEW i \in DOMAIN children
        PROVE  /\ children'[i] \in Child
               /\ children'[i].draining = children[i].draining
    <3>1. /\ children'[i] \in R /\ children'[i].killTimer = children[i].killTimer
          /\ children'[i].draining = children[i].draining /\ children'[i].signal # "none"
      BY <1>9, <2>1
    <3>. QED  BY <1>9, <3>1 DEF Child
  <2>. QED  BY <1>1, <2>2, <2>3, FlagsKept
<1>14. ASSUME NEW i \in DOMAIN children, ExitInShutdown(i) \/ ExitDrained(i) \/ Crash(i)
       PROVE  ChildrenKept
  BY <1>5, <1>14 DEF ExitInShutdown, ExitDrained, Crash
<1>15. CASE BackoffFires
  <2>1. children' = EnsureFloor(children, paused)
    BY <1>15 DEF BackoffFires
  <2>. QED  BY <1>1, <1>7, <2>1
<1>16. CASE PauseFires
  <2>1. children' = EnsureFloor(children, FALSE) /\ ~paused'
    BY <1>16 DEF PauseFires
  <2>. QED  BY <1>1, <1>7, <2>1
<1>17. CASE CoolDown \/ CrashLeavesWindow
  BY <1>3, <1>17 DEF CoolDown, CrashLeavesWindow
<1>. QED  BY <1>4, <1>6, <1>8, <1>11, <1>12, <1>13, <1>14, <1>15, <1>16, <1>17
          DEF Next, TickStep, Timers, Exit

LEMMA BeforeStartStep ==
    ASSUME Inv, Next
    PROVE  BeforeStart'
<1>1. ~started => /\ children = <<>> /\ backoffs = 0 /\ pauses = 0 /\ ~paused /\ ~shuttingDown
  BY DEF Inv, BeforeStart
<1>2. SUFFICES ASSUME ~started'
               PROVE  /\ children' = <<>> /\ backoffs' = 0 /\ pauses' = 0
                      /\ ~paused' /\ ~shuttingDown'
  BY DEF BeforeStart
<1>3. ~started
  <2>1. ASSUME NEW i \in DOMAIN children, Exit(i) \/ KillTimerFires(i) \/ Settle(i)
        PROVE  started' = started
    BY <2>1 DEF Exit, ExitInShutdown, ExitDrained, Crash, ExitSettled, KillTimerFires, Settle
  <2>2. ASSUME TickStep \/ Timers \/ Shutdown \/ CoolDown \/ CrashLeavesWindow
        PROVE  started' = started
    BY <2>2 DEF TickStep, Tick, Timers, BackoffFires, PauseFires, ShutdownDeadline, Shutdown,
                CoolDown, CrashLeavesWindow
  <2>3. ~Start
    BY <1>2 DEF Start
  <2>. QED  BY <1>2, <2>1, <2>2, <2>3 DEF Next
<1>4. DOMAIN children = {}
  BY <1>1, <1>3
<1>5. ~TickStep /\ ~BackoffFires /\ ~PauseFires /\ ~Shutdown /\ ~Start
  <2>1. ~TickStep /\ ~Shutdown
    BY <1>3 DEF TickStep, Tick, Shutdown
  <2>2. ~Start
    BY <1>2 DEF Start
  <2>3. backoffs = 0 /\ pauses = 0 /\ ~(0 > 0)
    BY <1>1, <1>3
  <2>4. ~BackoffFires /\ ~PauseFires
    BY <2>3 DEF BackoffFires, PauseFires
  <2>. QED  BY <2>1, <2>2, <2>4
<1>6. CASE ShutdownDeadline
  <2>1. children' = [i \in {} |-> [children[i] EXCEPT !.signal = "SIGKILL"]]
    BY <1>4, <1>6 DEF ShutdownDeadline
  <2>2. children' = <<>>
    BY <2>1
  <2>. QED  BY <1>1, <1>3, <1>6, <2>2 DEF ShutdownDeadline
<1>7. CASE CoolDown \/ CrashLeavesWindow
  BY <1>1, <1>3, <1>7 DEF CoolDown, CrashLeavesWindow
<1>. QED  BY <1>4, <1>5, <1>6, <1>7 DEF Next, Timers

LEMMA TypeStep ==
    ASSUME Inv, Next
    PROVE  TypeOK'
<1>1. /\ crashes \in 0..(CrashLimit + ClusterMax) /\ CrashLimit \in Nat
      /\ backoffs \in 0..MaxBackoffs /\ pauses \in 0..MaxPauses
      /\ MaxBackoffs \in Nat /\ MaxPauses \in Nat
  BY DEF Inv, TypeOK, CrashLimit
<1>2. /\ started \in BOOLEAN /\ paused \in BOOLEAN /\ shuttingDown \in BOOLEAN
      /\ cooled \in BOOLEAN /\ deadline \in BOOLEAN /\ done \in BOOLEAN
  BY DEF Inv, TypeOK
<1>3. children' \in Seq(Child)
  BY ChildrenStep DEF ChildrenKept
<1>. DEFINE Rest == /\ started' \in BOOLEAN /\ paused' \in BOOLEAN /\ shuttingDown' \in BOOLEAN
                    /\ cooled' \in BOOLEAN /\ deadline' \in BOOLEAN /\ done' \in BOOLEAN
                    /\ crashes' \in 0..(CrashLimit + ClusterMax)
                    /\ backoffs' \in 0..MaxBackoffs /\ pauses' \in 0..MaxPauses
<1>4. ASSUME Start \/ TickStep \/ CoolDown PROVE Rest
  BY <1>1, <1>2, <1>4 DEF Start, TickStep, Tick, CoolDown
<1>5. ASSUME BackoffFires \/ PauseFires \/ CrashLeavesWindow PROVE Rest
  <2>1. CASE BackoffFires
    BY <1>1, <1>2, <2>1 DEF BackoffFires
  <2>2. CASE PauseFires
    <3>1. /\ pauses > 0 /\ pauses' = pauses - 1 /\ crashes' = 0 /\ backoffs' = backoffs
      BY <2>2 DEF PauseFires
    <3>2. /\ started' = started /\ paused' = FALSE /\ shuttingDown' = shuttingDown
          /\ cooled' = cooled /\ deadline' = deadline /\ done' = done
      BY <2>2 DEF PauseFires
    <3>3. pauses' \in 0..MaxPauses
      BY <1>1, <3>1
    <3>4. crashes' \in 0..(CrashLimit + ClusterMax)
      BY <1>1, <3>1
    <3>. QED  BY <1>1, <1>2, <3>1, <3>2, <3>3, <3>4
  <2>3. CASE CrashLeavesWindow
    BY <1>1, <1>2, <2>3 DEF CrashLeavesWindow
  <2>. QED  BY <1>5, <2>1, <2>2, <2>3
<1>6. ASSUME Shutdown \/ ShutdownDeadline PROVE Rest
  <2>1. /\ started' = started /\ paused' = paused /\ cooled' = cooled
        /\ crashes' = crashes /\ backoffs' = backoffs /\ pauses' = pauses
    BY <1>6 DEF Shutdown, ShutdownDeadline
  <2>2. shuttingDown' \in BOOLEAN /\ deadline' \in BOOLEAN /\ done' \in BOOLEAN
    <3>1. CASE Shutdown
      <4>1. shuttingDown' = TRUE /\ done' = (children = <<>>) /\ deadline' = (children # <<>>)
        BY <3>1 DEF Shutdown
      <4>. QED  BY <4>1
    <3>2. CASE ShutdownDeadline
      BY <1>2, <3>2 DEF ShutdownDeadline
    <3>. QED  BY <1>6, <3>1, <3>2
  <2>. QED  BY <1>1, <1>2, <2>1, <2>2
<1>7. ASSUME NEW i \in DOMAIN children, ExitInShutdown(i) PROVE Rest
  <2>1. done' \in BOOLEAN
    <3>1. done' = (children' = <<>>)
      BY <1>7 DEF ExitInShutdown
    <3>. QED  BY <3>1
  <2>. QED  BY <1>1, <1>2, <1>7, <2>1 DEF ExitInShutdown
<1>8. ASSUME NEW i \in DOMAIN children, Crash(i) PROVE Rest
  <2>1. crashes' \in 0..(CrashLimit + ClusterMax)
    BY <1>1, <1>8 DEF Crash
  <2>2. backoffs' \in 0..MaxBackoffs /\ pauses' \in 0..MaxPauses /\ paused' \in BOOLEAN
    <3>1. \/ paused' = TRUE /\ pauses < MaxPauses /\ pauses' = pauses + 1 /\ backoffs' = backoffs
          \/ backoffs < MaxBackoffs /\ backoffs' = backoffs + 1 /\ paused' = paused /\ pauses' = pauses
      BY <1>8 DEF Crash
    <3>2. backoffs' \in 0..MaxBackoffs
      BY <1>1, <3>1
    <3>3. pauses' \in 0..MaxPauses
      BY <1>1, <3>1
    <3>. QED  BY <1>2, <3>1, <3>2, <3>3
  <2>. QED  BY <1>2, <1>8, <2>1, <2>2 DEF Crash
<1>9. ASSUME NEW i \in DOMAIN children,
             ExitDrained(i) \/ ExitSettled(i) \/ KillTimerFires(i) \/ Settle(i)
      PROVE  Rest
  BY <1>1, <1>2, <1>9 DEF ExitDrained, ExitSettled, KillTimerFires, Settle
<1>10. Rest
  BY <1>4, <1>5, <1>6, <1>7, <1>8, <1>9 DEF Next, Timers, Exit
<1>. QED  BY <1>3, <1>10 DEF TypeOK

LEMMA InitInv == Init => Inv
<1>1. SUFFICES ASSUME Init PROVE Inv
  OBVIOUS
<1>2. children = <<>> /\ <<>> \in Seq(Child) /\ Len(<<>>) = 0
  BY <1>1, EmptySeq DEF Init
<1>3. TypeOK
  <2>1. 0 \in 0..MaxBackoffs /\ 0 \in 0..MaxPauses /\ 0 \in 0..(CrashLimit + ClusterMax)
    BY DEF CrashLimit
  <2>. QED  BY <1>1, <1>2, <2>1 DEF Init, TypeOK
<1>4. LiveWithinMax
  <2>1. LiveCount(<<>>) \in Nat /\ LiveCount(<<>>) <= Len(<<>>)
    BY <1>2, LiveFinite
  <2>. QED  BY <1>2, <2>1 DEF LiveWithinMax
<1>5. BeforeStart
  BY <1>1 DEF Init, BeforeStart
<1>. QED  BY <1>3, <1>4, <1>5 DEF Inv

LEMMA InvStep == Inv /\ [Next]_vars => Inv'
<1>1. ASSUME Inv, Next PROVE Inv'
  <2>1. LiveWithinMax'
    <3>1. LiveCount(children') <= ClusterMax
      BY <1>1, ChildrenStep DEF ChildrenKept
    <3>. QED  BY <3>1 DEF LiveWithinMax, LiveCount, Live
  <2>. QED  BY <1>1, <2>1, TypeStep, BeforeStartStep DEF Inv
<1>2. ASSUME Inv, UNCHANGED vars PROVE Inv'
  BY <1>2 DEF vars, Inv, TypeOK, LiveWithinMax, LiveCount, Live, BeforeStart
<1>. QED  BY <1>1, <1>2

LEMMA InvAlways == Spec => []Inv
BY InitInv, InvStep, PTL DEF Spec

\* supervisor.ts, "within [CLUSTER_MIN, CLUSTER_MAX]": however ticks, timers, exits and
\* signals meet, never more than CLUSTER_MAX children serve.
THEOREM PoolAlwaysWithinMax == Spec => []PoolWithinMax
<1>1. Inv => PoolWithinMax
  BY DEF Inv, PoolWithinMax
<1>. QED  BY <1>1, InvAlways, PTL

\* supervisor-core.ts, ensureFloor, tick and shutdown: no path spawns in a shutdown or
\* while a crash loop is paused, and draining one more leaves CLUSTER_MIN that serve.
THEOREM PoolAlwaysKeepsLimits == Spec => PoolKeepsLimits
<1>1. ASSUME Inv, [Next]_vars
      PROVE  /\ [shuttingDown => Len(children') <= Len(children)]_vars
             /\ [paused /\ paused' => Len(children') <= Len(children)]_vars
             /\ [Draining(children') > Draining(children) => LiveCount(children') >= ClusterMin]_vars
  BY <1>1, ChildrenStep DEF ChildrenKept
<1>. QED  BY <1>1, InvAlways, PTL DEF Spec, PoolKeepsLimits, NoSpawnInShutdown, PauseHaltsRespawns,
          ScaleDownKeepsFloor

-----------------------------------------------------------------------------
(***************************************************************************)
(* ProcessLife.  The states of the two processes are independent: what is  *)
(* loaded and answered, where the API's only shutdown is and what it has   *)
(* closed, and how far the worker's shutdowns, any number of them, are.    *)
(***************************************************************************)
Names == DOMAIN Declares

\* The modules loaded so far are the first of the list, and whoever serves has loaded it.
LoadTyped ==
    /\ modules \in Seq(Names) /\ modules \in Lists
    /\ loaded \in Seq(Names) /\ Len(loaded) <= Len(modules)
    /\ \A i \in 1..Len(loaded) : loaded[i] = modules[i]
    /\ handler \in [DOMAIN handler -> Names] /\ DOMAIN handler \subseteq Proc!Keys

\* What is loaded answers its keys; no later module takes one away.
LoadOK ==
    /\ \A i \in 1..Len(loaded) : \A k \in Declares[loaded[i]] :
         k \in DOMAIN handler /\ handler[k] = loaded[i]
    /\ api \in {"up", "exited"} => Len(loaded) = Len(modules)

ApiTyped ==
    /\ api \in {"booting", "up", "exited", "crashed"}
    /\ parent \in {"none", "alive", "dead"} /\ watched \in {"no", "alive", "dead"}
    /\ req \in [Requests -> {"new", "open", "done", "cut"}]
    /\ redis \in {"open", "quitting", "closed"} /\ db \in {"open", "closed"}
    /\ call \in [Signals -> {"no", "drain", "redis", "quit", "db"}]
    /\ faulty \in BOOLEAN

\* A shutdown runs once; while it runs, where it is tells what is closed, and from the drain on
\* no request is open.
ApiOK ==
    /\ \A s, t \in Signals : call[s] # "no" /\ call[t] # "no" => s = t
    /\ api \in {"booting", "crashed"} => \A s \in Signals : call[s] = "no"
    /\ api # "exited" =>
         /\ db = "open" /\ \A r \in Requests : req[r] # "cut"
         /\ redis # "open" => \E s \in Signals : call[s] \in {"quit", "db"}
    /\ api = "up" => \A s \in Signals :
         /\ call[s] = "quit" => redis = "quitting"
         /\ call[s] = "db" => redis = "closed"
         /\ call[s] \in {"redis", "quit", "db"} => \A r \in Requests : req[r] # "open"
    /\ db = "closed" => redis = "closed"
    /\ api = "exited" /\ ~faulty => db = "closed" /\ \A r \in Requests : req[r] # "cut"

WorkerTyped ==
    /\ worker \in {"up", "exited", "crashed"} /\ wredis \in {"open", "quitting", "closed"}
    /\ job \in [Jobs -> {"waiting", "active", "done"}]
    /\ wcall \in [Signals -> {"no", "heartbeat", "drain", "redis", "quit", "db"}]

\* However many of its shutdowns run, none gets past the drain while a job is active.
WorkerOK ==
    worker = "up" =>
      /\ \A s \in Signals : wcall[s] \in {"redis", "quit", "db"} => Proc!Active = {}
      /\ wredis # "open" => \E s \in Signals : wcall[s] \in {"quit", "db"}

LifeInv == LoadTyped /\ LoadOK /\ ApiTyped /\ ApiOK /\ WorkerTyped /\ WorkerOK

LEMMA LifeInitial == Proc!ListsAssumption /\ Proc!Init => LifeInv
<1>. SUFFICES ASSUME Proc!ListsAssumption, Proc!Init
              PROVE  LifeInv
  OBVIOUS
<1>1. /\ modules \in Lists /\ modules \in Seq(Names) /\ Len(modules) \in Nat
      /\ loaded = <<>> /\ loaded \in Seq(Names) /\ Len(loaded) = 0
  BY DEF Proc!Init, Proc!ListsAssumption, Names
<1>2. handler \in [DOMAIN handler -> Names] /\ DOMAIN handler \subseteq Proc!Keys
  BY DEF Proc!Init
<1>3. LoadTyped
  BY <1>1, <1>2 DEF LoadTyped
<1>4. LoadOK
  BY <1>1 DEF Proc!Init, LoadOK
<1>5. ApiTyped /\ WorkerTyped
  BY DEF Proc!Init, ApiTyped, WorkerTyped
<1>6. ApiOK /\ WorkerOK
  BY DEF Proc!Init, ApiOK, WorkerOK
<1>. QED  BY <1>3, <1>4, <1>5, <1>6 DEF LifeInv

LEMMA LoadKeeps ==
    ASSUME LifeInv, Proc!LoadModule
    PROVE  LoadTyped' /\ LoadOK'
<1>. DEFINE n == Len(loaded) + 1
            m == modules[n]
<1>0. /\ LoadTyped /\ LoadOK /\ api = "booting" /\ Len(loaded) < Len(modules)
      /\ loaded' = Append(loaded, m) /\ UNCHANGED <<modules, api>>
      /\ IF Proc!Contains(loaded, m) THEN UNCHANGED handler
         ELSE /\ Declares[m] \cap DOMAIN handler = {}
              /\ handler' = [k \in DOMAIN handler \cup Declares[m] |->
                               IF k \in Declares[m] THEN m ELSE handler[k]]
  BY DEF LifeInv, Proc!LoadModule, Proc!NextModule, Proc!Collides
<1>1. n \in 1..Len(modules) /\ m \in Names /\ Len(loaded) \in Nat /\ Len(modules) \in Nat
  BY <1>0 DEF LoadTyped
<1>. HIDE DEF m
<1>2. /\ loaded' \in Seq(Names) /\ Len(loaded') = n /\ loaded'[n] = m
      /\ \A i \in 1..Len(loaded) : loaded'[i] = loaded[i]
  BY <1>0, <1>1 DEF LoadTyped
<1>3. \A i \in 1..Len(loaded') : (i = n \/ i \in 1..Len(loaded))
  BY <1>1, <1>2
<1>4. \A i \in 1..Len(loaded') : loaded'[i] = modules'[i]
  BY <1>0, <1>2, <1>3 DEF LoadTyped, m
<1>5. CASE Proc!Contains(loaded, m)
  <2>1. PICK j \in 1..Len(loaded) : loaded[j] = m
    BY <1>5 DEF Proc!Contains
  <2>2. LoadTyped'
    BY <1>0, <1>1, <1>2, <1>4, <1>5 DEF LoadTyped
  <2>3. LoadOK'
    BY <1>0, <1>2, <1>3, <1>5, <2>1 DEF LoadOK
  <2>. QED  BY <2>2, <2>3
<1>6. CASE ~Proc!Contains(loaded, m)
  <2>1. /\ Declares[m] \cap DOMAIN handler = {}
        /\ handler' = [k \in DOMAIN handler \cup Declares[m] |-> IF k \in Declares[m] THEN m ELSE handler[k]]
    BY <1>0, <1>6
  <2>2. /\ DOMAIN handler' = DOMAIN handler \cup Declares[m]
        /\ \A k \in Declares[m] : handler'[k] = m
        /\ \A k \in DOMAIN handler : handler'[k] = handler[k]
    BY <2>1
  <2>3. handler' \in [DOMAIN handler' -> Names] /\ DOMAIN handler' \subseteq Proc!Keys
    <3>1. \A k \in DOMAIN handler : handler[k] \in Names
      BY <1>0 DEF LoadTyped
    <3>2. Declares[m] \subseteq Proc!Keys
      BY <1>1 DEF Proc!Keys, Names
    <3>. QED  BY <1>0, <1>1, <2>1, <2>2, <3>1, <3>2 DEF LoadTyped
  <2>4. LoadTyped'
    BY <1>0, <1>1, <1>2, <1>4, <2>3 DEF LoadTyped
  <2>5. LoadOK'
    BY <1>0, <1>2, <1>3, <2>2 DEF LoadOK
  <2>. QED  BY <2>4, <2>5
<1>. QED  BY <1>5, <1>6

LEMMA ApiStep == LifeInv /\ Proc!ApiNext => ApiTyped' /\ ApiOK'
<1>. SUFFICES ASSUME LifeInv, Proc!ApiNext
              PROVE  ApiTyped' /\ ApiOK'
  OBVIOUS
<1>0. ApiTyped /\ ApiOK
  BY DEF LifeInv
<1>. USE <1>0 DEF ApiTyped
<1>1. CASE Proc!LoadModule
  BY <1>1 DEF Proc!LoadModule, ApiOK
<1>2. CASE Proc!BootFails
  BY <1>2 DEF Proc!BootFails, ApiOK
<1>3. CASE Proc!Listen
  BY <1>3 DEF Proc!Listen, ApiOK
<1>4. CASE Proc!ParentDies
  BY <1>4 DEF Proc!ParentDies, ApiOK
<1>5. ASSUME Proc!Exits, api = "up", UNCHANGED <<parent, watched, redis, call>>,
             db' \in {"open", "closed"}, faulty' \in BOOLEAN, db' = "closed" => redis = "closed",
             ~faulty' => db' = "closed" /\ \A r \in Requests : req[r] # "open"
      PROVE  ApiTyped' /\ ApiOK'
  <2>1. /\ api' = "exited" /\ req' = [r \in Requests |-> IF req[r] = "open" THEN "cut" ELSE req[r]]
    BY <1>5 DEF Proc!Exits
  <2>2. \A r \in Requests : req[r] # "cut"
    BY <1>5 DEF ApiOK
  <2>3. ApiTyped'
    BY <1>5, <2>1
  <2>. QED  BY <1>5, <2>1, <2>2, <2>3 DEF ApiOK
<1>6. CASE Proc!Deadline
  <2>1. db' = "closed" => redis = "closed"
    BY <1>6 DEF Proc!Deadline, ApiOK
  <2>. QED  BY <1>5, <1>6, <2>1 DEF Proc!Deadline
<1>7. ASSUME NEW r \in Requests, Proc!Accept(r)
      PROVE  ApiTyped' /\ ApiOK'
  <2>1. /\ api = "up" /\ req' = [req EXCEPT ![r] = "open"] /\ \A s \in Signals : call[s] = "no"
        /\ UNCHANGED <<api, parent, watched, redis, db, call, faulty>>
    BY <1>7 DEF Proc!Accept, Proc!Stopping
  <2>. QED  BY <2>1 DEF ApiOK
<1>8. ASSUME NEW r \in Requests, Proc!Finish(r)
      PROVE  ApiTyped' /\ ApiOK'
  <2>1. /\ api = "up" /\ req[r] = "open" /\ UNCHANGED <<api, parent, watched, redis, db, call, faulty>>
        /\ req' = [req EXCEPT ![r] = IF redis = "open" /\ db = "open" THEN "done" ELSE "cut"]
    BY <1>8 DEF Proc!Finish
  <2>2. redis = "open" /\ db = "open"
    BY <2>1 DEF ApiOK
  <2>. QED  BY <2>1, <2>2 DEF ApiOK
<1>9. ASSUME NEW s \in Signals, Proc!Begins(s), UNCHANGED <<api, parent, watched, req, redis, db, faulty>>
      PROVE  ApiTyped' /\ ApiOK'
  <2>1. /\ api = "up" /\ call' = [call EXCEPT ![s] = "drain"] /\ \A t \in Signals : call[t] = "no"
    BY <1>9 DEF Proc!Begins, Proc!Stopping
  <2>2. redis = "open"
    BY <2>1 DEF ApiOK
  <2>3. call'[s] = "drain" /\ \A t \in Signals \ {s} : call'[t] = "no"
    BY <2>1
  <2>. QED  BY <1>9, <2>1, <2>2, <2>3 DEF ApiOK
<1>10. ASSUME NEW s \in Signals, Proc!Drained(s) \/ Proc!Quit(s) \/ Proc!QuitAnswered(s)
       PROVE  ApiTyped' /\ ApiOK'
  <2>1. /\ api = "up" /\ call[s] \in {"drain", "redis", "quit"}
        /\ UNCHANGED <<api, parent, watched, req, db, faulty>>
    BY <1>10 DEF Proc!Drained, Proc!Quit, Proc!QuitAnswered
  <2>2. \A t \in Signals \ {s} : call[t] = "no"
    BY <2>1 DEF ApiOK
  <2>3. CASE Proc!Drained(s)
    <3>1. call' = [call EXCEPT ![s] = "redis"] /\ redis' = redis /\ \A r \in Requests : req[r] # "open"
      BY <2>3 DEF Proc!Drained, Proc!Open
    <3>2. call[s] = "drain" /\ redis = "open"
      BY <2>1, <2>2, <2>3 DEF Proc!Drained, ApiOK
    <3>3. call'[s] = "redis" /\ \A t \in Signals \ {s} : call'[t] = "no"
      BY <2>2, <3>1
    <3>. QED  BY <2>1, <3>1, <3>2, <3>3 DEF ApiOK
  <2>4. CASE Proc!Quit(s)
    <3>1. call[s] = "redis" /\ redis = "open" /\ \A r \in Requests : req[r] # "open"
      BY <2>1, <2>2, <2>4 DEF Proc!Quit, ApiOK
    <3>2. call' = [call EXCEPT ![s] = "quit"] /\ redis' = "quitting"
      BY <2>4, <3>1 DEF Proc!Quit
    <3>3. call'[s] = "quit" /\ \A t \in Signals \ {s} : call'[t] = "no"
      BY <2>2, <3>2
    <3>. QED  BY <2>1, <3>1, <3>2, <3>3 DEF ApiOK
  <2>5. CASE Proc!QuitAnswered(s)
    <3>1. call[s] = "quit" /\ redis' = "closed" /\ call' = [call EXCEPT ![s] = "db"]
      BY <2>5 DEF Proc!QuitAnswered
    <3>2. call'[s] = "db" /\ \A t \in Signals \ {s} : call'[t] = "no"
      BY <2>2, <3>1
    <3>3. \A r \in Requests : req[r] # "open"
      BY <2>1, <3>1 DEF ApiOK
    <3>. QED  BY <2>1, <3>1, <3>2, <3>3 DEF ApiOK
  <2>. QED  BY <1>10, <2>3, <2>4, <2>5
<1>11. ASSUME NEW s \in Signals, Proc!QuitRejected(s)
       PROVE  ApiTyped' /\ ApiOK'
  BY <1>11 DEF Proc!QuitRejected, ApiOK
<1>12. ASSUME NEW s \in Signals, Proc!CloseFails(s)
       PROVE  ApiTyped' /\ ApiOK'
  <2>1. db' = "closed" => redis = "closed"
    BY <1>12 DEF Proc!CloseFails, ApiOK
  <2>. QED  BY <1>5, <1>12, <2>1 DEF Proc!CloseFails
<1>13. ASSUME NEW s \in Signals, Proc!CloseDb(s)
       PROVE  ApiTyped' /\ ApiOK'
  <2>1. redis = "closed" /\ \A r \in Requests : req[r] # "open"
    BY <1>13 DEF Proc!CloseDb, ApiOK
  <2>. QED  BY <1>5, <1>13, <2>1 DEF Proc!CloseDb
<1>. QED  BY <1>1, <1>2, <1>3, <1>4, <1>6, <1>7, <1>8, <1>9, <1>10, <1>11, <1>12, <1>13
          DEF Proc!ApiNext, Proc!Closes, Proc!Signal, Proc!OrphanSeen

LEMMA WorkerStep == LifeInv /\ Proc!WorkerNext => WorkerTyped' /\ WorkerOK'
<1>. SUFFICES ASSUME LifeInv, Proc!WorkerNext
              PROVE  WorkerTyped' /\ WorkerOK'
  OBVIOUS
<1>0. WorkerTyped /\ WorkerOK
  BY DEF LifeInv
<1>. USE <1>0 DEF WorkerTyped
<1>1. ASSUME NEW j \in Jobs, Proc!Take(j)
      PROVE  WorkerTyped' /\ WorkerOK'
  <2>1. /\ worker = "up" /\ job' = [job EXCEPT ![j] = "active"] /\ UNCHANGED <<worker, wredis, wcall>>
        /\ \A s \in Signals : wcall[s] \in {"no", "heartbeat"}
    BY <1>1 DEF Proc!Take
  <2>. QED  BY <2>1 DEF WorkerOK
<1>2. ASSUME NEW j \in Jobs, Proc!Complete(j)
      PROVE  WorkerTyped' /\ WorkerOK'
  <2>1. job' = [job EXCEPT ![j] = "done"] /\ UNCHANGED <<worker, wredis, wcall>>
    BY <1>2 DEF Proc!Complete
  <2>2. Proc!Active' \subseteq Proc!Active
    BY <2>1 DEF Proc!Active
  <2>. QED  BY <2>1, <2>2 DEF WorkerOK
<1>3. ASSUME NEW s \in Signals, NEW x \in {"heartbeat", "drain", "redis", "quit", "db"},
             worker = "up", wcall' = [wcall EXCEPT ![s] = x], UNCHANGED <<worker, job>>,
             wredis' \in {"open", "quitting", "closed"},
             x \in {"redis", "quit", "db"} => Proc!Active = {},
             \/ wredis' = "open" \/ x \in {"quit", "db"}
             \/ wredis # "open" /\ wcall[s] \notin {"quit", "db"}
      PROVE  WorkerTyped' /\ WorkerOK'
  <2>1. wcall'[s] = x /\ \A t \in Signals \ {s} : wcall'[t] = wcall[t]
    BY <1>3
  <2>2. Proc!Active' = Proc!Active
    BY <1>3 DEF Proc!Active
  <2>3. wredis' # "open" => \E t \in Signals : wcall'[t] \in {"quit", "db"}
    BY <1>3, <2>1 DEF WorkerOK
  <2>. QED  BY <1>3, <2>1, <2>2, <2>3 DEF WorkerOK
<1>4. ASSUME NEW s \in Signals, Proc!WorkerSignal(s) \/ Proc!HeartbeatStopped(s) \/ Proc!WorkersClosed(s)
      PROVE  WorkerTyped' /\ WorkerOK'
  BY <1>3, <1>4 DEF Proc!WorkerSignal, Proc!HeartbeatStopped, Proc!WorkersClosed
<1>5. ASSUME NEW s \in Signals, Proc!WorkerQuit(s)
      PROVE  WorkerTyped' /\ WorkerOK'
  <2>1. Proc!Active = {}
    BY <1>5 DEF Proc!WorkerQuit, WorkerOK
  <2>. QED  BY <1>3, <1>5, <2>1 DEF Proc!WorkerQuit
<1>6. ASSUME NEW s \in Signals, Proc!WorkerQuitAnswered(s)
      PROVE  WorkerTyped' /\ WorkerOK'
  <2>1. Proc!Active = {}
    BY <1>6 DEF Proc!WorkerQuitAnswered, WorkerOK
  <2>2. /\ worker = "up" /\ wcall' = [wcall EXCEPT ![s] = "db"] /\ wredis' = "closed"
        /\ UNCHANGED <<worker, job>>
    BY <1>6 DEF Proc!WorkerQuitAnswered
  <2>3. wcall'[s] = "db" /\ \A t \in Signals \ {s} : wcall'[t] = wcall[t]
    BY <2>2
  <2>4. WorkerTyped'
    BY <2>2
  <2>5. Proc!Active' = {}
    BY <2>1, <2>2 DEF Proc!Active
  <2>. QED  BY <2>2, <2>3, <2>4, <2>5 DEF WorkerOK
<1>7. ASSUME NEW s \in Signals, Proc!WorkerRejected(s) \/ Proc!WorkerExits(s)
      PROVE  WorkerTyped' /\ WorkerOK'
  BY <1>7 DEF Proc!WorkerRejected, Proc!WorkerExits, WorkerOK
<1>. QED  BY <1>1, <1>2, <1>4, <1>5, <1>6, <1>7 DEF Proc!WorkerNext

LEMMA LifeStep == LifeInv /\ [Proc!Next]_(Proc!vars) => LifeInv'
<1>. SUFFICES ASSUME LifeInv, [Proc!Next]_(Proc!vars)
              PROVE  LifeInv'
  OBVIOUS
<1>1. UNCHANGED <<modules, loaded, handler, api>> => LoadTyped' /\ LoadOK'
  BY DEF LifeInv, LoadTyped, LoadOK
<1>2. UNCHANGED Proc!workerVars => WorkerTyped' /\ WorkerOK'
  BY DEF LifeInv, WorkerTyped, WorkerOK, Proc!workerVars, Proc!Active
<1>3. UNCHANGED Proc!apiVars => LoadTyped' /\ LoadOK' /\ ApiTyped' /\ ApiOK'
  BY DEF LifeInv, LoadTyped, LoadOK, ApiTyped, ApiOK, Proc!apiVars
<1>4. CASE Proc!ApiNext
  <2>1. /\ UNCHANGED Proc!workerVars
        /\ ~Proc!LoadModule =>
             /\ UNCHANGED <<modules, loaded, handler>>
             /\ api' \in {"up", "exited"} => api \in {"up", "exited"} \/ Len(loaded) = Len(modules)
    BY <1>4 DEF Proc!ApiNext, Proc!BootFails, Proc!Listen, Proc!ParentDies, Proc!Deadline, Proc!Accept,
                Proc!Finish, Proc!Signal, Proc!OrphanSeen, Proc!Closes, Proc!Drained, Proc!Quit,
                Proc!QuitAnswered, Proc!QuitRejected, Proc!CloseFails, Proc!CloseDb, Proc!Exits,
                Proc!LoadModule
  <2>2. LoadTyped' /\ LoadOK'
    BY <2>1, LoadKeeps DEF LifeInv, LoadTyped, LoadOK
  <2>. QED  BY <1>2, <1>4, <2>1, <2>2, ApiStep DEF LifeInv
<1>5. CASE Proc!WorkerNext
  <2>1. UNCHANGED Proc!apiVars
    BY <1>5 DEF Proc!WorkerNext, Proc!Take, Proc!Complete, Proc!WorkerSignal, Proc!HeartbeatStopped,
                Proc!WorkersClosed, Proc!WorkerQuit, Proc!WorkerQuitAnswered, Proc!WorkerRejected,
                Proc!WorkerExits
  <2>. QED  BY <1>3, <1>5, <2>1, WorkerStep DEF LifeInv
<1>6. CASE UNCHANGED Proc!vars
  BY <1>2, <1>3, <1>6 DEF Proc!vars, LifeInv
<1>. QED  BY <1>4, <1>5, <1>6 DEF Proc!Next

\* index.ts, registry.ts and worker.ts, for any lists of modules, requests, jobs and signals: a
\* process that serves answers every key of every configured module by the module that declares
\* it; connections are closed when no request and no job is left, Redis before the database; and
\* a shutdown that met neither its deadline nor an error has cut no request and closed everything.
THEOREM ProcessAlwaysWhole == Proc!Spec => []ProcessWhole
<1>. USE ListsAssumption
<1>1. LifeInv => ProcessWhole
  <2>. SUFFICES ASSUME LifeInv
                PROVE  ProcessWhole
    OBVIOUS
  <2>1. loaded = SubSeq(modules, 1, Len(loaded)) /\ Len(loaded) <= Len(modules)
    BY DEF LifeInv, LoadTyped
  <2>2. Proc!TypeOK
    BY <2>1 DEF LifeInv, LoadTyped, ApiTyped, WorkerTyped, Proc!TypeOK, Names
  <2>3. Proc!ServesWhole
    <3>1. DOMAIN modules = 1..Len(modules)
      BY DEF LifeInv, LoadTyped
    <3>. QED  BY <3>1 DEF LifeInv, LoadTyped, LoadOK, Proc!ServesWhole
  <2>4. Proc!DrainsFirst
    <3>1. api = "up" /\ (redis # "open" \/ db # "open") => Proc!Open = {}
      BY DEF LifeInv, ApiTyped, ApiOK, Proc!Open
    <3>2. worker = "up" /\ wredis # "open" => Proc!Active = {}
      BY DEF LifeInv, WorkerOK
    <3>. QED  BY <3>1, <3>2 DEF LifeInv, ApiOK, Proc!DrainsFirst
  <2>. QED  BY <2>2, <2>3, <2>4 DEF ProcessWhole
<1>. QED  BY <1>1, LifeInitial, LifeStep, PTL DEF Proc!Spec
=============================================================================
