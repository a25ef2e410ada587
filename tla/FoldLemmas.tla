----------------------------- MODULE FoldLemmas -----------------------------
(***************************************************************************)
(* Induction over data for the proofs of this project.  The induction      *)
(* theorems of the library take an operator as a parameter, which the      *)
(* provers in use cannot instantiate; the lemmas below take sets and       *)
(* functions instead.  They rest on the well-foundedness of the strict     *)
(* subset order on finite sets.                                            *)
(***************************************************************************)
EXTENDS Integers, SequencesExt, FiniteSetTheorems, WellFoundedInduction, TLAPS

\* Induction over the natural numbers: a set of them that holds 0 and every
\* successor of a member holds them all.
LEMMA NatByInduction ==
  ASSUME NEW S \in SUBSET Nat, 0 \in S, \A n \in S : n + 1 \in S
  PROVE  S = Nat
<1> SUFFICES ASSUME NEW m \in Nat, m \notin S PROVE FALSE
  OBVIOUS
<1> DEFINE F == {0..k : k \in Nat \ S}
<1>1. F \subseteq FiniteSubsetsOf(Nat)
  <2> SUFFICES ASSUME NEW k \in Nat PROVE 0..k \in FiniteSubsetsOf(Nat)
    OBVIOUS
  <2> QED BY FS_Interval DEF FiniteSubsetsOf
<1>2. F # {}
  OBVIOUS
<1>3. PICK x \in F : \A y \in F : <<y, x>> \notin StrictSubsetOrdering(Nat)
  <2>1. IsWellFoundedOn(StrictSubsetOrdering(Nat), FiniteSubsetsOf(Nat))
    BY FS_StrictSubsetOrderingWellFounded
  <2> HIDE DEF F
  <2> QED BY <1>1, <1>2, <2>1, WFMin
<1>4. PICK k \in Nat \ S : x = 0..k
  BY <1>3
<1>5. k - 1 \in Nat \ S
  <2>1. k # 0
    BY <1>4
  <2>2. k - 1 \in Nat /\ (k - 1) + 1 = k
    BY <2>1
  <2> QED BY <2>2
<1>6. 0..(k - 1) \in F
  BY <1>5
<1>7. <<0..(k - 1), 0..k>> \in StrictSubsetOrdering(Nat)
  <2>1. k \in 0..k /\ k \notin 0..(k - 1)
    BY <1>4
  <2>2. 0..(k - 1) \in SUBSET Nat /\ 0..k \in SUBSET Nat
    OBVIOUS
  <2> HIDE DEF F
  <2> QED BY <2>1, <2>2 DEF StrictSubsetOrdering
<1> QED BY <1>3, <1>4, <1>6, <1>7

\* The same up to a bound.
LEMMA UpToByInduction ==
  ASSUME NEW n \in Nat, NEW S, 0 \in S,
         \A k \in 0..(n - 1) : k \in S => k + 1 \in S
  PROVE  \A k \in 0..n : k \in S
<1> DEFINE T == {k \in Nat : k \in S \/ k > n}
<1>1. T = Nat
  <2>1. T \in SUBSET Nat /\ 0 \in T
    OBVIOUS
  <2>2. \A k \in T : k + 1 \in T
    OBVIOUS
  <2> HIDE DEF T
  <2> QED BY <2>1, <2>2, NatByInduction
<1> QED BY <1>1

\* The recursive function a fold over the set S is made of: c chooses the
\* element that is folded next and G is the operation.
Folds(it, S, base, G, c) ==
  \A s \in SUBSET S :
    it[s] = IF s = {} THEN base ELSE G[<<it[s \ {c[s]}], c[s]>>]

\* It exists for every finite set.
LEMMA FoldExists ==
  ASSUME NEW S, IsFiniteSet(S), NEW V, NEW base \in V,
         NEW G \in [V \X S -> V], NEW c \in [(SUBSET S) \ {{}} -> S],
         \A s \in (SUBSET S) \ {{}} : c[s] \in s
  PROVE  \E it \in [SUBSET S -> V] : Folds(it, S, base, G, c)
<1> DEFINE Small(k) == {s \in SUBSET S : Cardinality(s) <= k}
           FoldsOn(it, D) ==
             \A s \in D : it[s] = IF s = {} THEN base
                                  ELSE G[<<it[s \ {c[s]}], c[s]>>]
           P == {k \in Nat : \E it \in [Small(k) -> V] : FoldsOn(it, Small(k))}
<1>1. \A s \in SUBSET S : IsFiniteSet(s) /\ Cardinality(s) \in Nat
  BY FS_Subset, FS_CardinalityType
<1>2. \A s \in (SUBSET S) \ {{}} :
        /\ s \ {c[s]} \in SUBSET S
        /\ Cardinality(s \ {c[s]}) = Cardinality(s) - 1
  BY <1>1, FS_RemoveElement
<1>3. 0 \in P
  <2>1. Small(0) = {{}}
    BY <1>1, FS_EmptySet
  <2> DEFINE it == [s \in {{}} |-> base]
  <2>2. it \in [Small(0) -> V] /\ FoldsOn(it, Small(0))
    BY <2>1
  <2> QED BY <2>2
<1>4. ASSUME NEW k \in P PROVE k + 1 \in P
  <2>1. PICK it \in [Small(k) -> V] : FoldsOn(it, Small(k))
    BY <1>4
  <2> DEFINE jt == [s \in Small(k + 1) |->
                      IF s \in Small(k) THEN it[s]
                      ELSE G[<<it[s \ {c[s]}], c[s]>>]]
  <2>2. Small(k) \subseteq Small(k + 1)
    BY <1>1
  <2>3. \A s \in Small(k + 1) : s # {} => s \ {c[s]} \in Small(k)
    BY <1>1, <1>2
  <2>4. {} \in Small(k)
    BY FS_EmptySet
  <2>5. jt \in [Small(k + 1) -> V]
    <3> SUFFICES ASSUME NEW s \in Small(k + 1) PROVE jt[s] \in V
      OBVIOUS
    <3>1. CASE s \in Small(k)
      BY <3>1
    <3>2. CASE s \notin Small(k)
      BY <2>3, <2>4, <3>2
    <3> QED BY <3>1, <3>2
  <2>6. FoldsOn(jt, Small(k + 1))
    <3> SUFFICES ASSUME NEW s \in Small(k + 1)
                 PROVE  jt[s] = IF s = {} THEN base
                                ELSE G[<<jt[s \ {c[s]}], c[s]>>]
      OBVIOUS
    <3>1. s # {} => jt[s \ {c[s]}] = it[s \ {c[s]}]
      BY <2>2, <2>3
    <3>2. CASE s \in Small(k)
      <4>1. jt[s] = it[s]
        BY <3>2
      <4>2. it[s] = IF s = {} THEN base ELSE G[<<it[s \ {c[s]}], c[s]>>]
        BY <2>1, <3>2
      <4> HIDE DEF jt
      <4> QED BY <3>1, <4>1, <4>2
    <3>3. CASE s \notin Small(k)
      <4>1. jt[s] = G[<<it[s \ {c[s]}], c[s]>>] /\ s # {}
        BY <2>4, <3>3
      <4> HIDE DEF jt
      <4> QED BY <3>1, <4>1
    <3> QED BY <3>2, <3>3
  <2>7. \E ht \in [Small(k + 1) -> V] : FoldsOn(ht, Small(k + 1))
    <3> HIDE DEF jt, FoldsOn, Small
    <3> QED BY <2>5, <2>6
  <2> HIDE DEF FoldsOn, Small, jt
  <2> QED BY <2>7
<1>5. P = Nat
  <2> HIDE DEF P
  <2>1. P \in SUBSET Nat
    BY DEF P
  <2> QED BY <1>3, <1>4, <2>1, NatByInduction
<1>6. Cardinality(S) \in P /\ Small(Cardinality(S)) = SUBSET S
  BY <1>1, <1>5, FS_Subset
<1>7. PICK it \in [SUBSET S -> V] : FoldsOn(it, SUBSET S)
  BY <1>6
<1> QED BY <1>7 DEF Folds

\* The greatest element of an interval, and of any set of positions.
LEMMA MaxOfPositions ==
  ASSUME NEW n \in Nat, NEW s \in SUBSET (1..n), s # {}
  PROVE  Max(s) \in s
<1>1. PICK k \in s : \A j \in s : k >= j
  <2> DEFINE T == {m \in Nat : \A j \in s : j <= n - m}
  <2>1. SUFFICES ASSUME \A k \in s : \E j \in s : ~(k >= j)
                 PROVE  FALSE
    OBVIOUS
  <2>2. 0 \in T
    OBVIOUS
  <2>3. \A m \in T : m + 1 \in T
    <3> SUFFICES ASSUME NEW m \in T, NEW j \in s PROVE j <= n - (m + 1)
      OBVIOUS
    <3>1. PICK i \in s : ~(j >= i)
      BY <2>1
    <3> QED BY <3>1
  <2>4. T = Nat
    <3>1. T \in SUBSET Nat
      OBVIOUS
    <3> HIDE DEF T
    <3> QED BY <2>2, <2>3, <3>1, NatByInduction
  <2>5. \A j \in s : j <= n - n
    BY <2>4
  <2>6. PICK j \in s : TRUE
    OBVIOUS
  <2> QED BY <2>5, <2>6
<1> QED BY <1>1 DEF Max

LEMMA MaxOfInterval ==
  ASSUME NEW k \in Nat \ {0}
  PROVE  Max(1..k) = k /\ (1..k) \ {k} = 1..(k - 1)
<1>1. Max(1..k) = k
  <2>1. k \in 1..k /\ \A j \in 1..k : k >= j
    OBVIOUS
  <2> QED BY <2>1 DEF Max
<1> QED BY <1>1

\* The recursive function of FoldLeft exists for any operation G that keeps
\* its values in V.
FoldsLeft(it, n, base, G) ==
  \A s \in SUBSET (1..n) :
    it[s] = IF s = {} THEN base ELSE G[<<it[s \ {Max(s)}], Max(s)>>]

LEMMA FoldLeftExists ==
  ASSUME NEW n \in Nat, NEW V, NEW base \in V, NEW G \in [V \X (1..n) -> V]
  PROVE  \E it \in [SUBSET (1..n) -> V] : FoldsLeft(it, n, base, G)
<1> DEFINE S == 1..n
           c == [s \in (SUBSET S) \ {{}} |-> Max(s)]
<1>1. IsFiniteSet(S)
  BY FS_Interval
<1>2. \A s \in (SUBSET S) \ {{}} : Max(s) \in s
  BY MaxOfPositions
<1>3. c \in [(SUBSET S) \ {{}} -> S] /\ \A s \in (SUBSET S) \ {{}} : c[s] \in s
  BY <1>2
<1>4. PICK it \in [SUBSET S -> V] : Folds(it, S, base, G, c)
  <2>1. G \in [V \X S -> V]
    OBVIOUS
  <2> HIDE DEF S, c
  <2> QED BY <1>1, <1>3, <2>1, FoldExists
<1> QED BY <1>4 DEF Folds, FoldsLeft

\* The function on 0..n that starts at base and goes on by G exists.
RecursesTo(f, n, base, G) ==
  \A i \in 0..n : f[i] = IF i = 0 THEN base ELSE G[<<f[i - 1], i>>]

LEMMA RecursionExists ==
  ASSUME NEW n \in Nat, NEW V, NEW base \in V, NEW G \in [V \X (1..n) -> V]
  PROVE  \E f \in [0..n -> V] : RecursesTo(f, n, base, G)
<1>1. PICK it \in [SUBSET (1..n) -> V] : FoldsLeft(it, n, base, G)
  BY FoldLeftExists
<1> DEFINE f == [i \in 0..n |-> it[1..i]]
<1>2. \A i \in 0..n : 1..i \in SUBSET (1..n)
  OBVIOUS
<1>3. f \in [0..n -> V]
  BY <1>2
<1>4. ASSUME NEW i \in 0..n
      PROVE  f[i] = IF i = 0 THEN base ELSE G[<<f[i - 1], i>>]
  <2>1. CASE i = 0
    <3>1. 1..i = {}
      BY <2>1
    <3> QED BY <1>1, <1>2, <2>1, <3>1 DEF FoldsLeft
  <2>2. CASE i # 0
    <3>1. 1..i # {} /\ Max(1..i) = i /\ (1..i) \ {i} = 1..(i - 1)
      BY <2>2, MaxOfInterval
    <3>2. it[1..i] = G[<<it[1..(i - 1)], i>>]
      BY <1>1, <1>2, <3>1 DEF FoldsLeft
    <3>3. i - 1 \in 0..n
      BY <2>2
    <3> QED BY <2>2, <3>2, <3>3
  <2> QED BY <2>1, <2>2
<1> QED BY <1>3, <1>4 DEF RecursesTo

\* A function on the subsets of 1..n that unfolds as G as long as its values
\* are in V, as the one FoldLeft chooses does, runs through V.
Unfolds(it, n, V, base, G) ==
  /\ it[{}] = base
  /\ \A s \in SUBSET (1..n) : s # {} /\ it[s \ {Max(s)}] \in V
       => it[s] = G[<<it[s \ {Max(s)}], Max(s)>>]

Runs(it, n, V, base, G) ==
  /\ it[1..0] = base /\ \A k \in 0..n : it[1..k] \in V
  /\ \A k \in 1..n : it[1..k] = G[<<it[1..(k - 1)], k>>]

LEMMA FoldRuns ==
  ASSUME NEW n \in Nat, NEW V, NEW base \in V, NEW G \in [V \X (1..n) -> V],
         NEW it, Unfolds(it, n, V, base, G)
  PROVE  Runs(it, n, V, base, G)
<1>1. it[1..0] = base
  <2>1. 1..0 = {}
    OBVIOUS
  <2> QED BY <2>1 DEF Unfolds
<1>2. ASSUME NEW k \in 1..n, it[1..(k - 1)] \in V
      PROVE  it[1..k] = G[<<it[1..(k - 1)], k>>] /\ it[1..k] \in V
  <2>1. 1..k \in SUBSET (1..n) /\ k \in 1..k
    OBVIOUS
  <2>2. Max(1..k) = k /\ (1..k) \ {k} = 1..(k - 1)
    BY MaxOfInterval
  <2>3. it[1..k] = G[<<it[1..(k - 1)], k>>]
    BY <1>2, <2>1, <2>2 DEF Unfolds
  <2> QED BY <1>2, <2>3
<1>3. \A k \in 0..n : it[1..k] \in V
  <2> DEFINE S == {k \in 0..n : it[1..k] \in V}
  <2>1. 0 \in S
    BY <1>1
  <2>2. ASSUME NEW k \in 0..(n - 1), k \in S PROVE k + 1 \in S
    <3>1. k + 1 \in 1..n /\ (k + 1) - 1 = k
      OBVIOUS
    <3>2. it[1..((k + 1) - 1)] \in V
      BY <2>2, <3>1
    <3>3. it[1..(k + 1)] \in V
      BY <1>2, <3>1, <3>2
    <3> QED BY <3>1, <3>3
  <2>3. \A k \in 0..n : k \in S
    <3> HIDE DEF S
    <3> QED BY <2>1, <2>2, UpToByInduction
  <2> QED BY <2>3
<1>4. ASSUME NEW k \in 1..n
      PROVE  it[1..k] = G[<<it[1..(k - 1)], k>>]
  <2>1. k - 1 \in 0..n
    OBVIOUS
  <2> QED BY <1>2, <1>3, <2>1
<1> QED BY <1>1, <1>3, <1>4 DEF Runs

\* The same for the function on the subsets of a finite set that FoldSet
\* chooses, where c names the element that is folded next.
UnfoldsSet(it, S, V, base, G, c) ==
  /\ it[{}] = base
  /\ \A s \in SUBSET S : s # {} /\ it[s \ {c[s]}] \in V
       => it[s] = G[<<it[s \ {c[s]}], c[s]>>]

LEMMA SetFoldStays ==
  ASSUME NEW S, IsFiniteSet(S), NEW V, NEW base \in V,
         NEW G \in [V \X S -> V], NEW c, NEW it,
         \A s \in SUBSET S : s # {} => c[s] \in s,
         UnfoldsSet(it, S, V, base, G, c)
  PROVE  it[S] \in V
<1> DEFINE T == {k \in Nat : \A s \in SUBSET S : Cardinality(s) <= k => it[s] \in V}
<1>1. \A s \in SUBSET S : IsFiniteSet(s) /\ Cardinality(s) \in Nat
  BY FS_Subset, FS_CardinalityType
<1>2. 0 \in T
  <2> SUFFICES ASSUME NEW s \in SUBSET S, Cardinality(s) <= 0 PROVE it[s] \in V
    OBVIOUS
  <2>1. s = {}
    BY <1>1, FS_EmptySet
  <2> QED BY <2>1 DEF UnfoldsSet
<1>3. ASSUME NEW k \in T PROVE k + 1 \in T
  <2> SUFFICES ASSUME NEW s \in SUBSET S, Cardinality(s) <= k + 1 PROVE it[s] \in V
    OBVIOUS
  <2>1. CASE s = {}
    BY <2>1 DEF UnfoldsSet
  <2>2. CASE s # {}
    <3> DEFINE r == s \ {c[s]}
    <3>1. c[s] \in s
      BY <2>2
    <3>2. r \in SUBSET S /\ Cardinality(r) = Cardinality(s) - 1
      BY <1>1, <3>1, FS_RemoveElement
    <3>3. it[r] \in V
      <4> HIDE DEF r
      <4> QED BY <1>1, <1>3, <3>2
    <3>4. it[s] = G[<<it[r], c[s]>>]
      BY <2>2, <3>3 DEF UnfoldsSet
    <3>5. c[s] \in S
      BY <3>1
    <3> HIDE DEF r
    <3> QED BY <3>3, <3>4, <3>5
  <2> QED BY <2>1, <2>2
<1>4. T = Nat
  <2>1. T \in SUBSET Nat
    OBVIOUS
  <2> HIDE DEF T
  <2> QED BY <1>2, <1>3, <2>1, NatByInduction
<1>5. S \in SUBSET S /\ Cardinality(S) \in T
  BY <1>1, <1>4
<1>6. Cardinality(S) \in Nat
  BY <1>1
<1> QED BY <1>5, <1>6

\* The least of a set of natural numbers.
LEMMA MinOfNats ==
  ASSUME NEW s \in SUBSET Nat, s # {}
  PROVE  Min(s) \in s /\ \A j \in s : Min(s) <= j
<1>1. PICK k \in s : \A j \in s : k <= j
  <2> DEFINE T == {m \in Nat : \A j \in s : j >= m}
  <2>1. SUFFICES ASSUME \A k \in s : \E j \in s : ~(k <= j)
                 PROVE  FALSE
    OBVIOUS
  <2>2. 0 \in T
    OBVIOUS
  <2>3. ASSUME NEW m \in T PROVE m + 1 \in T
    <3> SUFFICES ASSUME NEW j \in s PROVE j >= m + 1
      OBVIOUS
    <3>1. PICK i \in s : ~(j <= i)
      BY <2>1
    <3>2. i >= m /\ i \in Nat /\ j \in Nat /\ m \in Nat
      BY <2>3
    <3> QED BY <3>1, <3>2
  <2>4. T = Nat
    <3>1. T \in SUBSET Nat
      OBVIOUS
    <3> HIDE DEF T
    <3> QED BY <2>2, <2>3, <3>1, NatByInduction
  <2>5. PICK j \in s : TRUE
    OBVIOUS
  <2>6. j \in Nat /\ j + 1 \in Nat
    BY <2>5
  <2>7. j + 1 \in T
    BY <2>4, <2>6
  <2>8. j >= j + 1
    BY <2>5, <2>7
  <2> QED BY <2>6, <2>8
<1> QED BY <1>1 DEF Min

\* Rows of a width: one row further is at least a width further.
LEMMA RowsApart ==
  ASSUME NEW C \in Nat, NEW i \in Nat, NEW j \in Nat, j < i
  PROVE  j * C + C <= i * C /\ j * C \in Nat /\ i * C \in Nat
<1>1. PICK d \in Nat : i = j + 1 + d
  <2>1. i - j - 1 \in Nat /\ i = j + 1 + (i - j - 1)
    OBVIOUS
  <2> QED BY <2>1
<1>2. d * C \in Nat
  OBVIOUS
<1>3. i * C = j * C + C + d * C
  BY <1>1
<1>4. j * C \in Nat
  OBVIOUS
<1> QED BY <1>2, <1>3, <1>4

\* Sequences of one length, the last at most, put one behind the other: where
\* their elements are.
Flattened(f, seqs, C, i) ==
  /\ Len(f) = (i - 1) * C + Len(seqs[i])
  /\ \A j \in 1..i : \A r \in 1..Len(seqs[j]) : f[(j - 1) * C + r] = seqs[j][r]

LEMMA FlattenSeqFacts ==
  ASSUME NEW V, NEW n \in Nat \ {0}, NEW seqs \in [1..n -> Seq(V)], NEW C \in Nat,
         \A j \in 1..(n - 1) : Len(seqs[j]) = C, \A j \in 1..n : Len(seqs[j]) <= C
  PROVE  FlattenSeq(seqs) \in Seq(V) /\ Flattened(FlattenSeq(seqs), seqs, C, n)
<1> DEFINE F == Seq(V)
           G == [p \in F \X (1..n) |-> IF p[2] = 1 THEN seqs[1] ELSE p[1] \o seqs[p[2]]]
           Step(f) == \A i \in 1..n : f[i] = IF i = 1 THEN seqs[i] ELSE f[i - 1] \o seqs[i]
           flat == CHOOSE f : f = [i \in 1..n |-> IF i = 1 THEN seqs[i] ELSE f[i - 1] \o seqs[i]]
<1>1. Len(seqs) = n
  OBVIOUS
<1>2. FlattenSeq(seqs) = flat[n]
  BY <1>1 DEF FlattenSeq
<1>3. \E f : f = [i \in 1..n |-> IF i = 1 THEN seqs[i] ELSE f[i - 1] \o seqs[i]]
  <2>1. G \in [F \X (1..n) -> F]
    OBVIOUS
  <2>2. <<>> \in F
    OBVIOUS
  <2>3. PICK g \in [0..n -> F] : RecursesTo(g, n, <<>>, G)
    <3> HIDE DEF F, G
    <3> QED BY <2>1, <2>2, RecursionExists
  <2> DEFINE f == [i \in 1..n |-> g[i]]
  <2>4. ASSUME NEW i \in 1..n
        PROVE  f[i] = IF i = 1 THEN seqs[i] ELSE f[i - 1] \o seqs[i]
    <3>1. i \in 0..n /\ i # 0 /\ i - 1 \in 0..n /\ (i # 1 => i - 1 \in 1..n)
      OBVIOUS
    <3>2. g[i] = G[<<g[i - 1], i>>] /\ g[i - 1] \in F
      <4> HIDE DEF F, G
      <4> QED BY <2>3, <3>1 DEF RecursesTo
    <3>3. <<g[i - 1], i>> \in F \X (1..n)
      BY <3>2
    <3>4. g[i] = IF i = 1 THEN seqs[1] ELSE g[i - 1] \o seqs[i]
      <4> HIDE DEF F
      <4> QED BY <3>2, <3>3
    <3> HIDE DEF F, G
    <3> QED BY <3>1, <3>4
  <2> HIDE DEF F, G
  <2>5. f = [i \in 1..n |-> IF i = 1 THEN seqs[i] ELSE f[i - 1] \o seqs[i]]
    BY <2>4
  <2> HIDE DEF f
  <2> QED BY <2>5
<1>4. flat = [i \in 1..n |-> IF i = 1 THEN seqs[i] ELSE flat[i - 1] \o seqs[i]]
  <2> HIDE DEF F, G, Step
  <2> QED BY <1>3
<1> HIDE DEF F, G, Step, flat
<1>5. \A i \in 1..n : flat[i] = IF i = 1 THEN seqs[i] ELSE flat[i - 1] \o seqs[i]
  BY <1>4
<1> DEFINE S == {0} \union {i \in 1..n : flat[i] \in Seq(V) /\ Flattened(flat[i], seqs, C, i)}
<1>6. ASSUME NEW i \in 0..(n - 1), i \in S PROVE i + 1 \in S
  <2>i. PICK k : k = i + 1
    OBVIOUS
  <2>1. k \in 1..n /\ seqs[k] \in Seq(V) /\ Len(seqs[k]) <= C /\ i = k - 1
    BY <2>i
  <2>2. CASE i = 0
    <3>1. flat[k] = seqs[k] /\ k = 1
      BY <1>5, <2>1, <2>2
    <3>2. \A j \in 1..k : j = k
      BY <3>1
    <3>3. (k - 1) * C = 0 /\ C \in Nat
      BY <3>1
    <3>4. Flattened(flat[k], seqs, C, k)
      BY <2>1, <3>1, <3>2, <3>3 DEF Flattened
    <3> QED BY <2>1, <2>i, <3>1, <3>4
  <2>3. CASE i # 0
    <3>f. PICK f : f = flat[i]
      OBVIOUS
    <3>s. PICK s : s = seqs[k]
      OBVIOUS
    <3>0. i \in 1..n /\ i \in 1..(n - 1)
      BY <2>3
    <3>1. f \in Seq(V) /\ Flattened(f, seqs, C, i) /\ i \in 1..n /\ i \in 1..(n - 1)
      BY <1>6, <2>3, <3>f, <3>0
    <3>2. flat[k] = f \o s /\ s \in Seq(V)
      <4>1. k # 1 /\ k - 1 = i
        BY <2>1, <2>3
      <4>2. flat[k] = flat[i] \o seqs[k]
        BY <1>5, <2>1, <4>1
      <4> QED BY <2>1, <3>f, <3>s, <4>2
    <3>c. Len(f \o s) = Len(f) + Len(s) /\ f \o s \in Seq(V)
          /\ (\A q \in 1..Len(f) : (f \o s)[q] = f[q])
          /\ \A q \in 1..Len(s) : (f \o s)[Len(f) + q] = s[q]
      BY <3>1, <3>2
    <3>3. Len(seqs[i]) = C
      BY <3>1
    <3>4. (i - 1) * C \in Nat /\ i * C \in Nat /\ i * C = (i - 1) * C + C /\ Len(s) \in Nat
      BY <3>1, <3>2
    <3>5. Len(f) = i * C
      BY <3>1, <3>3, <3>4 DEF Flattened
    <3>6. Len(f \o s) = (k - 1) * C + Len(s) /\ f \o s \in Seq(V)
      BY <2>1, <3>c, <3>5
    <3>7. ASSUME NEW j \in 1..k, NEW r \in 1..Len(seqs[j])
          PROVE  (f \o s)[(j - 1) * C + r] = seqs[j][r]
      <4>l. Len(seqs[j]) \in Nat /\ Len(seqs[j]) <= C /\ r \in Nat /\ 1 <= r /\ r <= C
        BY <2>1
      <4>1. CASE j = k
        <5>1. (j - 1) * C + r = Len(f) + r /\ r \in 1..Len(s)
          BY <2>1, <3>5, <3>s, <4>1
        <5> QED BY <3>c, <3>s, <4>1, <5>1
      <4>2. CASE j # k
        <5>1. j \in 1..i
          BY <2>1, <4>2
        <5>2. (j - 1) * C + C <= i * C /\ (j - 1) * C \in Nat
          <6>1. j - 1 \in Nat /\ i \in Nat /\ j - 1 < i
            BY <5>1, <3>1
          <6> QED BY <6>1, RowsApart
        <5>q. PICK q : q = (j - 1) * C
          OBVIOUS
        <5>t. PICK t : t = i * C
          OBVIOUS
        <5>3. q + r \in 1..Len(f)
          <6>1. q \in Nat /\ t \in Nat /\ q + C <= t /\ Len(f) = t
            BY <3>4, <3>5, <5>2, <5>q, <5>t
          <6>2. q + r <= q + C /\ 1 <= q + r
            BY <4>l, <6>1
          <6> QED BY <4>l, <6>1, <6>2
        <5>4. f[(j - 1) * C + r] = seqs[j][r]
          BY <3>1, <5>1 DEF Flattened
        <5> QED BY <3>c, <5>3, <5>4, <5>q
      <4> QED BY <4>1, <4>2
    <3>8. Flattened(flat[k], seqs, C, k)
      BY <3>2, <3>6, <3>7, <3>s DEF Flattened
    <3> QED BY <2>1, <2>i, <3>2, <3>6, <3>8
  <2> QED BY <2>2, <2>3
<1>7. n \in S
  <2>1. 0 \in S /\ n \in 0..n
    OBVIOUS
  <2> HIDE DEF S
  <2> QED BY <1>6, <2>1, UpToByInduction
<1> QED BY <1>2, <1>7

\* A part of a sequence.
LEMMA PartOf ==
  ASSUME NEW K, NEW q \in Seq(K), NEW a \in Nat, NEW b \in Nat, a <= b, b <= Len(q)
  PROVE  /\ SubSeq(q, a + 1, b) \in Seq(K) /\ Len(SubSeq(q, a + 1, b)) = b - a
         /\ \A r \in 1..(b - a) : SubSeq(q, a + 1, b)[r] = q[a + r]
<1>1. Len(q) \in Nat
  OBVIOUS
<1>2. SubSeq(q, a + 1, b) \in Seq(K) /\ Len(SubSeq(q, a + 1, b)) = b - a
  BY <1>1
<1>3. \A r \in 1..(b - a) : SubSeq(q, a + 1, b)[r] = q[a + r]
  BY <1>1
<1> QED BY <1>2, <1>3
=============================================================================
