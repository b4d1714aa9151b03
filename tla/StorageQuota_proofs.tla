------------------------ MODULE StorageQuota_proofs ------------------------
(***************************************************************************)
(* Lemmas about Total, the sum of the byte weights of all files: it is a   *)
(* natural number, it is additive over weights that never overlap, and an  *)
(* update of one weight changes it by the difference.                      *)
(***************************************************************************)
EXTENDS StorageQuota, FiniteSetTheorems, TLAPS

LEMMA SizesFinite ==
    /\ IsFiniteSet(Sizes)
    /\ IsFiniteSet(Files \X Sizes)
<1>1. IsFiniteSet(Sizes)
  BY MaxBytesPositive, FS_Interval DEF Sizes
<1>. QED  BY <1>1, FilesFinite, FS_Product

\* A total counts finitely many bytes, whatever the weights are.
LEMMA TotalType ==
    ASSUME NEW w
    PROVE  /\ IsFiniteSet(BytesOf(w))
           /\ Total(w) \in Nat
<1>1. BytesOf(w) \in SUBSET (Files \X Sizes)
  BY DEF BytesOf
<1>2. IsFiniteSet(BytesOf(w))
  BY <1>1, SizesFinite, FS_Subset
<1>. QED  BY <1>2, FS_CardinalityType DEF Total

LEMMA TotalZero ==
    ASSUME NEW w, \A f \in Files : w[f] = 0
    PROVE  Total(w) = 0
<1>1. ASSUME NEW b \in BytesOf(w)
      PROVE  FALSE
  <2>1. b[1] \in Files /\ b[2] \in 1..MaxBytes /\ b[2] <= w[b[1]]
    BY <1>1 DEF BytesOf, Sizes
  <2>2. w[b[1]] = 0
    BY <2>1
  <2>. QED  BY <2>1, <2>2, MaxBytesPositive
<1>2. BytesOf(w) = {}
  BY <1>1
<1>. QED  BY <1>2, FS_EmptySet DEF Total

\* Each file's weight is in u or in v: the bytes of w are those of u and v.
LEMMA TotalSplit ==
    ASSUME NEW w \in Weights, NEW u \in Weights, NEW v \in Weights,
           \A f \in Files : \/ u[f] = 0 /\ v[f] = w[f]
                            \/ v[f] = 0 /\ u[f] = w[f]
    PROVE  Total(w) = Total(u) + Total(v)
<1>1. BytesOf(w) = BytesOf(u) \cup BytesOf(v)
  <2>1. ASSUME NEW b \in Files \X Sizes
        PROVE  b[2] <= w[b[1]] <=> b[2] <= u[b[1]] \/ b[2] <= v[b[1]]
    <3>1. b[1] \in Files /\ b[2] \in 1..MaxBytes
      BY DEF Sizes
    <3>2. w[b[1]] \in 0..MaxBytes /\ u[b[1]] \in 0..MaxBytes /\ v[b[1]] \in 0..MaxBytes
      BY <3>1 DEF Weights
    <3>3. \/ u[b[1]] = 0 /\ v[b[1]] = w[b[1]]
          \/ v[b[1]] = 0 /\ u[b[1]] = w[b[1]]
      BY <3>1
    <3>. QED  BY <3>1, <3>2, <3>3, MaxBytesPositive
  <2>. QED  BY <2>1 DEF BytesOf
<1>2. BytesOf(u) \cap BytesOf(v) = {}
  <2>1. ASSUME NEW b \in Files \X Sizes, b[2] <= u[b[1]], b[2] <= v[b[1]]
        PROVE  FALSE
    <3>1. b[1] \in Files /\ b[2] \in 1..MaxBytes
      BY DEF Sizes
    <3>2. u[b[1]] = 0 \/ v[b[1]] = 0
      BY <3>1
    <3>. QED  BY <2>1, <3>1, <3>2, MaxBytesPositive
  <2>. QED  BY <2>1 DEF BytesOf
<1>3. IsFiniteSet(BytesOf(u)) /\ IsFiniteSet(BytesOf(v))
  BY TotalType
<1>4. Cardinality(BytesOf(u) \cap BytesOf(v)) = 0
  BY <1>2, FS_EmptySet
<1>5. Total(u) \in Nat /\ Total(v) \in Nat
  BY TotalType
<1>6. Cardinality(BytesOf(u) \cup BytesOf(v))
        = Cardinality(BytesOf(u)) + Cardinality(BytesOf(v)) - Cardinality(BytesOf(u) \cap BytesOf(v))
  BY <1>3, FS_Union
<1>. QED  BY <1>1, <1>4, <1>5, <1>6 DEF Total

\* The weight n of a single file: n pairs <<f, 1>>, ..., <<f, n>>.
LEMMA TotalPoint ==
    ASSUME NEW f \in Files, NEW n \in 0..MaxBytes
    PROVE  Total([g \in Files |-> IF g = f THEN n ELSE 0]) = n
<1>. DEFINE w == [g \in Files |-> IF g = f THEN n ELSE 0]
<1>1. BytesOf(w) = {f} \X (1..n)
  <2>1. ASSUME NEW b \in BytesOf(w)
        PROVE  b \in {f} \X (1..n)
    <3>1. b \in Files \X Sizes /\ b[2] <= w[b[1]]
      BY <2>1 DEF BytesOf
    <3>2. b[1] \in Files /\ b[2] \in 1..MaxBytes /\ b = <<b[1], b[2]>>
      BY <3>1 DEF Sizes
    <3>3. b[1] = f
      BY <3>1, <3>2, MaxBytesPositive
    <3>. QED  BY <3>1, <3>2, <3>3, MaxBytesPositive
  <2>2. ASSUME NEW b \in {f} \X (1..n)
        PROVE  b \in BytesOf(w)
    <3>1. b[1] = f /\ b[2] \in 1..n /\ b = <<b[1], b[2]>>
      BY <2>2
    <3>2. b \in Files \X Sizes
      BY <3>1, MaxBytesPositive DEF Sizes
    <3>. QED  BY <3>1, <3>2 DEF BytesOf
  <2>. QED  BY <2>1, <2>2
<1>2. IsFiniteSet({f}) /\ Cardinality({f}) = 1
  BY FS_Singleton
<1>3. IsFiniteSet(1..n) /\ Cardinality(1..n) = n
  BY FS_Interval, MaxBytesPositive
<1>4. Cardinality({f} \X (1..n)) = Cardinality({f}) * Cardinality(1..n)
  BY <1>2, <1>3, FS_Product
<1>5. Cardinality({f} \X (1..n)) = n
  BY <1>2, <1>3, <1>4
<1>. QED  BY <1>1, <1>5 DEF Total

\* Changing the weight of one file changes the total by the difference.
LEMMA TotalUpdate ==
    ASSUME NEW w \in Weights, NEW f \in Files, NEW n \in 0..MaxBytes
    PROVE  /\ [w EXCEPT ![f] = n] \in Weights
           /\ w[f] \in 0..MaxBytes
           /\ Total([w EXCEPT ![f] = n]) = Total(w) - w[f] + n
           /\ w[f] <= Total(w)
<1>. DEFINE rest == [w EXCEPT ![f] = 0]
            old  == [g \in Files |-> IF g = f THEN w[f] ELSE 0]
            new  == [g \in Files |-> IF g = f THEN n ELSE 0]
            wn   == [w EXCEPT ![f] = n]
<1>1. w[f] \in 0..MaxBytes
  BY DEF Weights
<1>2. rest \in Weights /\ old \in Weights /\ new \in Weights /\ wn \in Weights
  BY <1>1, MaxBytesPositive DEF Weights
<1>3. \A g \in Files : \/ rest[g] = 0 /\ old[g] = w[g]
                       \/ old[g] = 0 /\ rest[g] = w[g]
  BY DEF Weights
<1>4. \A g \in Files : \/ rest[g] = 0 /\ new[g] = wn[g]
                       \/ new[g] = 0 /\ rest[g] = wn[g]
  BY DEF Weights
<1>5. Total(old) = w[f] /\ Total(new) = n
  BY <1>1, TotalPoint
<1>. HIDE DEF rest, old, new, wn
<1>6. Total(w) = Total(rest) + Total(old)
  BY <1>2, <1>3, TotalSplit, SMTT(60)
<1>7. Total(wn) = Total(rest) + Total(new)
  BY <1>2, <1>4, TotalSplit, SMTT(60)
<1>8. Total(rest) \in Nat
  BY <1>2, TotalType
<1>9. Total(wn) = Total(w) - w[f] + n /\ w[f] <= Total(w)
  BY <1>1, <1>5, <1>6, <1>7, <1>8, MaxBytesPositive
<1>. QED  BY <1>1, <1>2, <1>9 DEF wn

=============================================================================
