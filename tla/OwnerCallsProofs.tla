-------------------------- MODULE OwnerCallsProofs --------------------------
(***************************************************************************)
(* What the funding planner returns, for every list of sources, amount,    *)
(* mode and cap; and from there what the calls of an owner do, for every   *)
(* owner, set of gateways, number of concurrent calls and limits of the    *)
(* plan.                                                                   *)
(***************************************************************************)
EXTENDS OwnerCalls, FoldLemmas

-----------------------------------------------------------------------------
(* The folds the planner is written with, as runs over their sequence.     *)

\* Keep runs through its sequence and appends what belongs to the set.
KeepRun(r, q, X, S) ==
  /\ r \in [0..Len(q) -> Seq(X)]
  /\ r[0] = <<>> /\ r[Len(q)] = Keep(q, S)
  /\ \A k \in 1..Len(q) :
       r[k] = IF q[k] \in S THEN Append(r[k - 1], q[k]) ELSE r[k - 1]

LEMMA KeepRuns ==
  ASSUME NEW X, NEW q \in Seq(X), NEW S
  PROVE  \E r : KeepRun(r, q, X, S)
<1> DEFINE n == Len(q)
           V == Seq(X)
           base == <<>>
           G == [p \in V \X (1..n) |->
                   IF q[p[2]] \in S THEN Append(p[1], q[p[2]]) ELSE p[1]]
           it == CHOOSE f : f = [s \in SUBSET DOMAIN q |->
                   IF s = {} THEN base
                   ELSE LET x == Max(s)
                        IN  IF q[x] \in S THEN Append(f[s \ {x}], q[x])
                            ELSE f[s \ {x}]]
           r == [k \in 0..n |-> it[1..k]]
<1>1. n \in Nat /\ DOMAIN q = 1..n /\ \A i \in 1..n : q[i] \in X
  OBVIOUS
<1>2. G \in [V \X (1..n) -> V] /\ base \in V
  OBVIOUS
<1>3. PICK f \in [SUBSET (1..n) -> V] : FoldsLeft(f, n, base, G)
  <2> HIDE DEF V, G, n, base
  <2> QED BY <1>1, <1>2, FoldLeftExists
<1>4. f = [s \in SUBSET DOMAIN q |->
             IF s = {} THEN base
             ELSE LET x == Max(s)
                        IN  IF q[x] \in S THEN Append(f[s \ {x}], q[x])
                            ELSE f[s \ {x}]]
  <2>1. \A s \in SUBSET (1..n) : s # {} => Max(s) \in 1..n
    BY <1>1, MaxOfPositions
  <2>2. \A s \in SUBSET (1..n) :
          s # {} => G[<<f[s \ {Max(s)}], Max(s)>>]
                      = IF q[Max(s)] \in S
                        THEN Append(f[s \ {Max(s)}], q[Max(s)])
                        ELSE f[s \ {Max(s)}]
    BY <2>1
  <2> HIDE DEF G, V, n, base
  <2> QED BY <1>1, <1>3, <2>2 DEF FoldsLeft
<1>5. it = [s \in SUBSET DOMAIN q |->
              IF s = {} THEN base
              ELSE LET x == Max(s)
                   IN  IF q[x] \in S THEN Append(it[s \ {x}], q[x])
                       ELSE it[s \ {x}]]
  <2> HIDE DEF base
  <2> QED BY <1>4
<1>6. Unfolds(it, n, V, base, G)
  <2>1. \A s \in SUBSET (1..n) : s # {} => Max(s) \in 1..n
    BY <1>1, MaxOfPositions
  <2> HIDE DEF it, base
  <2> QED BY <1>1, <1>5, <2>1 DEF Unfolds
<1>7. /\ it[1..0] = base /\ \A k \in 0..n : it[1..k] \in V
      /\ \A k \in 1..n : it[1..k] = G[<<it[1..(k - 1)], k>>]
  <2>1. n \in Nat /\ base \in V /\ G \in [V \X (1..n) -> V]
    BY <1>1, <1>2
  <2> HIDE DEF it, G, V, n, r, base
  <2>2. Runs(it, n, V, base, G)
    BY ONLY <1>6, <2>1, FoldRuns
  <2> QED BY ONLY <2>2 DEF Runs
<1>8. Keep(q, S) = it[1..n]
  BY <1>1 DEF Keep, FoldLeft, MapThenFoldSet
<1>9. \A k \in 1..n :
        r[k] = IF q[k] \in S THEN Append(r[k - 1], q[k]) ELSE r[k - 1]
  <2>1. \A k \in 1..n : k - 1 \in 0..n /\ k \in 0..n
    BY <1>1
  <2> HIDE DEF it, base
  <2> QED BY <1>1, <1>7, <2>1
<1>10. r \in [0..n -> V] /\ r[0] = base /\ r[n] = Keep(q, S)
  <2> HIDE DEF it, base
  <2> QED BY <1>1, <1>7, <1>8
<1> HIDE DEF r, it
<1> QED BY <1>9, <1>10 DEF KeepRun

\* An element is put in its place among those sorted before.
LEMMA PlaceType ==
  ASSUME NEW X, NEW q \in Seq(X), NEW s \in X, NEW before
  PROVE  \E i \in 1..(Len(q) + 1) : /\ Place(q, s, before) = InsertAt(q, i, s)
                                    /\ Place(q, s, before) \in Seq(X)
<1> DEFINE earlier == {i \in 1..Len(q) : <<s, q[i]>> \notin before}
<1>1. IsFiniteSet(1..Len(q)) /\ Cardinality(1..Len(q)) = Len(q)
  <2>1. Len(q) \in Nat
    OBVIOUS
  <2> QED BY <2>1, FS_Interval
<1>2. Cardinality(earlier) \in 0..Len(q)
  <2>1. earlier \subseteq 1..Len(q)
    OBVIOUS
  <2> HIDE DEF earlier
  <2>2. Cardinality(earlier) \in Nat /\ Cardinality(earlier) <= Len(q)
    BY <1>1, <2>1, FS_Subset, FS_CardinalityType
  <2> QED BY <2>2
<1>3. Place(q, s, before) = InsertAt(q, Cardinality(earlier) + 1, s)
  BY DEF Place
<1>4. ASSUME NEW i \in 1..(Len(q) + 1) PROVE InsertAt(q, i, s) \in Seq(X)
  BY DEF InsertAt
<1> HIDE DEF earlier
<1> QED BY <1>2, <1>3, <1>4

\* Sort runs through its sequence and puts each element in its place.
SortRun(r, q, X, before) ==
  /\ r \in [0..Len(q) -> Seq(X)]
  /\ r[0] = <<>> /\ r[Len(q)] = Sort(q, before)
  /\ \A k \in 1..Len(q) :
       r[k] = Place(r[k - 1], q[k], before)

LEMMA SortRuns ==
  ASSUME NEW X, NEW q \in Seq(X), NEW before
  PROVE  \E r : SortRun(r, q, X, before)
<1> DEFINE n == Len(q)
           V == Seq(X)
           base == <<>>
           G == [p \in V \X (1..n) |-> Place(p[1], q[p[2]], before)]
           it == CHOOSE f : f = [s \in SUBSET DOMAIN q |->
                   IF s = {} THEN base
                   ELSE LET x == Max(s) IN Place(f[s \ {x}], q[x], before)]
           r == [k \in 0..n |-> it[1..k]]
<1>1. n \in Nat /\ DOMAIN q = 1..n /\ \A i \in 1..n : q[i] \in X
  OBVIOUS
<1>2. G \in [V \X (1..n) -> V] /\ base \in V
  <2>1. \A u \in V, i \in 1..n : Place(u, q[i], before) \in V
    BY <1>1, PlaceType
  <2> QED BY <2>1
<1>3. PICK f \in [SUBSET (1..n) -> V] : FoldsLeft(f, n, base, G)
  <2> HIDE DEF V, G, n, base
  <2> QED BY <1>1, <1>2, FoldLeftExists
<1>4. f = [s \in SUBSET DOMAIN q |->
             IF s = {} THEN base
             ELSE LET x == Max(s) IN Place(f[s \ {x}], q[x], before)]
  <2>1. \A s \in SUBSET (1..n) : s # {} => Max(s) \in 1..n
    BY <1>1, MaxOfPositions
  <2>2. \A s \in SUBSET (1..n) :
          s # {} => G[<<f[s \ {Max(s)}], Max(s)>>]
                      = Place(f[s \ {Max(s)}], q[Max(s)], before)
    BY <2>1
  <2> HIDE DEF G, V, n, base
  <2> QED BY <1>1, <1>3, <2>2 DEF FoldsLeft
<1>5. it = [s \in SUBSET DOMAIN q |->
              IF s = {} THEN base
              ELSE LET x == Max(s) IN Place(it[s \ {x}], q[x], before)]
  <2> HIDE DEF base
  <2> QED BY <1>4
<1>6. Unfolds(it, n, V, base, G)
  <2>1. \A s \in SUBSET (1..n) : s # {} => Max(s) \in 1..n
    BY <1>1, MaxOfPositions
  <2> HIDE DEF it, base
  <2> QED BY <1>1, <1>5, <2>1 DEF Unfolds
<1>7. /\ it[1..0] = base /\ \A k \in 0..n : it[1..k] \in V
      /\ \A k \in 1..n : it[1..k] = G[<<it[1..(k - 1)], k>>]
  <2>1. n \in Nat /\ base \in V /\ G \in [V \X (1..n) -> V]
    BY <1>1, <1>2
  <2> HIDE DEF it, G, V, n, r, base
  <2>2. Runs(it, n, V, base, G)
    BY ONLY <1>6, <2>1, FoldRuns
  <2> QED BY ONLY <2>2 DEF Runs
<1>8. Sort(q, before) = it[1..n]
  BY <1>1 DEF Sort, FoldLeft, MapThenFoldSet
<1>9. \A k \in 1..n : r[k] = Place(r[k - 1], q[k], before)
  <2>1. \A k \in 1..n : k - 1 \in 0..n /\ k \in 0..n
    BY <1>1
  <2> HIDE DEF it, base
  <2> QED BY <1>1, <1>7, <2>1
<1>10. r \in [0..n -> V] /\ r[0] = base /\ r[n] = Sort(q, before)
  <2> HIDE DEF it, base
  <2> QED BY <1>1, <1>7, <1>8
<1> HIDE DEF r, it
<1> QED BY <1>9, <1>10 DEF SortRun

\* AmountOf adds up the amounts of a plan.
AmountRun(r, q) ==
  /\ r \in [0..Len(q) -> Nat]
  /\ r[0] = 0 /\ r[Len(q)] = AmountOf(q)
  /\ \A k \in 1..Len(q) :
       r[k] = r[k - 1] + q[k].amount

LEMMA AmountRuns ==
  ASSUME NEW X, NEW q \in Seq(X), \A e \in X : e.amount \in Nat
  PROVE  \E r : AmountRun(r, q)
<1> DEFINE n == Len(q)
           V == Nat
           base == 0
           G == [p \in V \X (1..n) |-> p[1] + q[p[2]].amount]
           it == CHOOSE f : f = [s \in SUBSET DOMAIN q |->
                   IF s = {} THEN base
                   ELSE LET x == Max(s) IN f[s \ {x}] + q[x].amount]
           r == [k \in 0..n |-> it[1..k]]
<1>1. n \in Nat /\ DOMAIN q = 1..n /\ \A i \in 1..n : q[i].amount \in Nat
  OBVIOUS
<1>2. G \in [V \X (1..n) -> V] /\ base \in V
  BY <1>1
<1>3. PICK f \in [SUBSET (1..n) -> V] : FoldsLeft(f, n, base, G)
  <2> HIDE DEF V, G, n, base
  <2> QED BY <1>1, <1>2, FoldLeftExists
<1>4. f = [s \in SUBSET DOMAIN q |->
             IF s = {} THEN base
             ELSE LET x == Max(s) IN f[s \ {x}] + q[x].amount]
  <2>1. \A s \in SUBSET (1..n) : s # {} => Max(s) \in 1..n
    BY <1>1, MaxOfPositions
  <2>2. \A s \in SUBSET (1..n) :
          s # {} => G[<<f[s \ {Max(s)}], Max(s)>>]
                      = f[s \ {Max(s)}] + q[Max(s)].amount
    BY <2>1
  <2> HIDE DEF G, V, n, base
  <2> QED BY <1>1, <1>3, <2>2 DEF FoldsLeft
<1>5. it = [s \in SUBSET DOMAIN q |->
              IF s = {} THEN base
              ELSE LET x == Max(s) IN it[s \ {x}] + q[x].amount]
  <2> HIDE DEF base
  <2> QED BY <1>4
<1>6. Unfolds(it, n, V, base, G)
  <2>1. \A s \in SUBSET (1..n) : s # {} => Max(s) \in 1..n
    BY <1>1, MaxOfPositions
  <2> HIDE DEF it, base
  <2> QED BY <1>1, <1>5, <2>1 DEF Unfolds
<1>7. /\ it[1..0] = base /\ \A k \in 0..n : it[1..k] \in V
      /\ \A k \in 1..n : it[1..k] = G[<<it[1..(k - 1)], k>>]
  <2>1. n \in Nat /\ base \in V /\ G \in [V \X (1..n) -> V]
    BY <1>1, <1>2
  <2> HIDE DEF it, G, V, n, r, base
  <2>2. Runs(it, n, V, base, G)
    BY ONLY <1>6, <2>1, FoldRuns
  <2> QED BY ONLY <2>2 DEF Runs
<1>8. AmountOf(q) = it[1..n]
  BY <1>1 DEF AmountOf, FoldLeft, MapThenFoldSet
<1>9. \A k \in 1..n : r[k] = r[k - 1] + q[k].amount
  <2>1. \A k \in 1..n : k - 1 \in 0..n /\ k \in 0..n
    BY <1>1
  <2> HIDE DEF it, base
  <2> QED BY <1>1, <1>7, <2>1
<1>10. r \in [0..n -> V] /\ r[0] = base /\ r[n] = AmountOf(q)
  <2> HIDE DEF it, base
  <2> QED BY <1>1, <1>7, <1>8
<1> HIDE DEF r, it
<1> QED BY <1>9, <1>10 DEF AmountRun

-----------------------------------------------------------------------------
(* What Keep and Sort return: the same elements, no position used twice.   *)

\* The positions of r hold what different positions of q up to k hold.
Spread(r, q, k) ==
  \A i, j \in 1..Len(r) : i # j => \E a, b \in 1..k :
    a # b /\ q[a] = r[i] /\ q[b] = r[j]

LEMMA KeepFacts ==
  ASSUME NEW X, NEW q \in Seq(X), NEW S
  PROVE  /\ Keep(q, S) \in Seq(X)
         /\ ToSet(Keep(q, S)) = ToSet(q) \cap S
         /\ Spread(Keep(q, S), q, Len(q))
<1>0. PICK r : KeepRun(r, q, X, S)
  BY KeepRuns
<1>1. /\ r \in [0..Len(q) -> Seq(X)] /\ r[0] = <<>> /\ r[Len(q)] = Keep(q, S)
      /\ \A k \in 1..Len(q) :
           r[k] = IF q[k] \in S THEN Append(r[k - 1], q[k]) ELSE r[k - 1]
  BY <1>0 DEF KeepRun
<1> DEFINE m == Len(q)
<1> DEFINE Good(k) == /\ ToSet(r[k]) = {q[i] : i \in 1..k} \cap S
                      /\ Spread(r[k], q, k)
           T == {k \in 0..Len(q) : Good(k)}
<1>2. 0 \in T
  BY <1>1 DEF ToSet, Spread
<1>3. ASSUME NEW k \in 0..(Len(q) - 1), k \in T PROVE k + 1 \in T
  <2>1. /\ k \in 0..Len(q) /\ k + 1 \in 1..Len(q) /\ (k + 1) - 1 = k
        /\ r[k] \in Seq(X) /\ q[k + 1] \in X
    <3>1. Len(q) \in Nat
      OBVIOUS
    <3>2. k \in 0..Len(q) /\ k + 1 \in 1..Len(q) /\ (k + 1) - 1 = k
      BY <3>1
    <3> QED BY <1>1, <3>2
  <2>2. {q[i] : i \in 1..(k + 1)} = {q[i] : i \in 1..k} \cup {q[k + 1]}
    BY <2>1
  <2>3. \A a \in 1..k : a \in 1..(k + 1) /\ a # k + 1
    BY <2>1
  <2>4. CASE q[k + 1] \notin S
    <3>1. r[k + 1] = r[k]
      BY <1>1, <2>1, <2>4
    <3>2. Spread(r[k + 1], q, k + 1)
      BY <1>3, <2>3, <3>1 DEF Spread
    <3> QED BY <1>3, <2>1, <2>2, <2>4, <3>1, <3>2
  <2>5. CASE q[k + 1] \in S
    <3> DEFINE p == r[k]
               u == Append(p, q[k + 1])
    <3>1. r[k + 1] = u
      BY <1>1, <2>1, <2>5
    <3>2. /\ Len(u) = Len(p) + 1 /\ u[Len(p) + 1] = q[k + 1]
          /\ \A i \in 1..Len(p) : u[i] = p[i]
          /\ Len(p) \in Nat /\ DOMAIN u = 1..(Len(p) + 1) /\ DOMAIN p = 1..Len(p)
      BY <2>1
    <3>3. ToSet(u) = ToSet(p) \cup {q[k + 1]}
      <4> HIDE DEF u, p
      <4> QED BY <3>2 DEF ToSet
    <3>4. \A i \in 1..Len(p) : \E a \in 1..k : q[a] = p[i]
      <4>1. ToSet(p) \subseteq {q[i] : i \in 1..k}
        BY <1>3
      <4> HIDE DEF p, u
      <4> QED BY <3>2, <4>1 DEF ToSet
    <3>5. Spread(u, q, k + 1)
      <4> SUFFICES ASSUME NEW i \in 1..Len(u), NEW j \in 1..Len(u), i # j
                   PROVE  \E a, b \in 1..(k + 1) :
                            a # b /\ q[a] = u[i] /\ q[b] = u[j]
        BY DEF Spread
      <4>1. CASE i \in 1..Len(p) /\ j \in 1..Len(p)
        <5>1. Spread(p, q, k)
          BY <1>3
        <5> HIDE DEF p, u
        <5>2. PICK a \in 1..k, b \in 1..k : a # b /\ q[a] = p[i] /\ q[b] = p[j]
          BY <4>1, <5>1 DEF Spread
        <5> QED BY <2>3, <3>2, <4>1, <5>2
      <4>2. CASE i \in 1..Len(p) /\ j = Len(p) + 1
        <5> HIDE DEF p, u
        <5> QED BY <2>1, <2>3, <3>2, <3>4, <4>2
      <4>3. CASE j \in 1..Len(p) /\ i = Len(p) + 1
        <5> HIDE DEF p, u
        <5> QED BY <2>1, <2>3, <3>2, <3>4, <4>3
      <4> HIDE DEF p, u
      <4> QED BY <3>2, <4>1, <4>2, <4>3
    <3> HIDE DEF u
    <3> QED BY <1>3, <2>1, <2>2, <2>5, <3>1, <3>3, <3>5
  <2> QED BY <2>4, <2>5
<1>4. Len(q) \in T
  <2>1. Len(q) \in Nat /\ Len(q) \in 0..Len(q)
    OBVIOUS
  <2> HIDE DEF T
  <2> QED BY <1>2, <1>3, <2>1, UpToByInduction
<1>5. ToSet(q) = {q[i] : i \in 1..Len(q)}
  BY DEF ToSet
<1> QED BY <1>1, <1>4, <1>5

\* Putting an element in keeps the others.
Inserted(u, q, i, e) ==
  /\ Len(u) = Len(q) + 1 /\ u[i] = e
  /\ \A j \in 1..(i - 1) : u[j] = q[j]
  /\ \A j \in (i + 1)..(Len(q) + 1) : u[j] = q[j - 1]

LEMMA InsertFacts ==
  ASSUME NEW X, NEW q \in Seq(X), NEW e \in X, NEW i \in 1..(Len(q) + 1)
  PROVE  InsertAt(q, i, e) \in Seq(X) /\ Inserted(InsertAt(q, i, e), q, i, e)
<1> DEFINE a == SubSeq(q, 1, i - 1)
           b == SubSeq(q, i, Len(q))
           u == InsertAt(q, i, e)
<1>1. Len(q) \in Nat /\ i \in Int /\ q \in Seq(X)
  OBVIOUS
<1>2. /\ a \in Seq(X) /\ Len(a) = i - 1 /\ \A j \in 1..(i - 1) : a[j] = q[j]
      /\ b \in Seq(X) /\ Len(b) = Len(q) - i + 1
      /\ \A j \in 1..(Len(q) - i + 1) : b[j] = q[i + j - 1]
  BY <1>1
<1>3. u = a \o <<e>> \o b
  BY DEF InsertAt
<1> HIDE DEF a, b, u
<1>4. u \in Seq(X) /\ Len(u) = Len(q) + 1
  <2> DEFINE ae == a \o <<e>>
  <2>1. ae \in Seq(X) /\ Len(ae) = i
    BY <1>1, <1>2
  <2>2. u = ae \o b
    BY <1>3
  <2> HIDE DEF ae
  <2>3. u \in Seq(X) /\ Len(u) = Len(ae) + Len(b)
    <3>1. b \in Seq(X)
      BY <1>2
    <3>2. ae \o b \in Seq(X)
      BY ONLY <2>1, <3>1
    <3>3. Len(ae \o b) = Len(ae) + Len(b)
      BY ONLY <2>1, <3>1
    <3> QED BY <2>2, <3>2, <3>3
  <2> QED BY <1>1, <1>2, <2>1, <2>3
<1>5. u[i] = e /\ \A j \in 1..(i - 1) : u[j] = a[j]
  BY <1>1, <1>2, <1>3
<1>6. \A j \in (i + 1)..(Len(q) + 1) : u[j] = b[j - i]
  BY <1>1, <1>2, <1>3
<1>7. ASSUME NEW j \in (i + 1)..(Len(q) + 1) PROVE u[j] = q[j - 1]
  <2>1. j - i \in 1..(Len(q) - i + 1) /\ i + (j - i) - 1 = j - 1
    BY <1>1
  <2> QED BY <1>2, <1>6, <2>1
<1> QED BY <1>2, <1>4, <1>5, <1>7 DEF u, Inserted

LEMMA SortFacts ==
  ASSUME NEW X, NEW q \in Seq(X), NEW before
  PROVE  /\ Sort(q, before) \in Seq(X)
         /\ ToSet(Sort(q, before)) = ToSet(q)
         /\ Spread(Sort(q, before), q, Len(q))
<1>0. PICK r : SortRun(r, q, X, before)
  BY SortRuns
<1>1. /\ r \in [0..Len(q) -> Seq(X)] /\ r[0] = <<>> /\ r[Len(q)] = Sort(q, before)
      /\ \A k \in 1..Len(q) : r[k] = Place(r[k - 1], q[k], before)
  BY <1>0 DEF SortRun
<1> DEFINE Good(k) == /\ ToSet(r[k]) = {q[i] : i \in 1..k}
                      /\ Spread(r[k], q, k)
           T == {k \in 0..Len(q) : Good(k)}
<1>2. 0 \in T
  BY <1>1 DEF ToSet, Spread
<1>3. ASSUME NEW k \in 0..(Len(q) - 1), k \in T PROVE k + 1 \in T
  <2>1. /\ k \in 0..Len(q) /\ k + 1 \in 1..Len(q) /\ (k + 1) - 1 = k
        /\ r[k] \in Seq(X) /\ q[k + 1] \in X
    <3>1. Len(q) \in Nat
      OBVIOUS
    <3>2. k \in 0..Len(q) /\ k + 1 \in 1..Len(q) /\ (k + 1) - 1 = k
      BY <3>1
    <3> QED BY <1>1, <3>2
  <2>2. {q[i] : i \in 1..(k + 1)} = {q[i] : i \in 1..k} \cup {q[k + 1]}
    BY <2>1
  <2>3. \A a \in 1..k : a \in 1..(k + 1) /\ a # k + 1
    BY <2>1
  <2> DEFINE p == r[k]
             u == r[k + 1]
             e == q[k + 1]
  <2>4. PICK m \in 1..(Len(p) + 1) : u = InsertAt(p, m, e)
    <3>1. u = Place(p, e, before)
      BY <1>1, <2>1
    <3> HIDE DEF p, e, u
    <3> QED BY <2>1, <3>1, PlaceType DEF p, e
  <2>5. /\ Len(p) \in Nat /\ Len(u) = Len(p) + 1 /\ u[m] = e
        /\ \A j \in 1..(m - 1) : u[j] = p[j]
        /\ \A j \in (m + 1)..(Len(p) + 1) : u[j] = p[j - 1]
        /\ DOMAIN p = 1..Len(p) /\ DOMAIN u = 1..Len(u)
    <3>1. p \in Seq(X) /\ e \in X
      BY <2>1
    <3> HIDE DEF p, e, u
    <3>2. u \in Seq(X) /\ Inserted(u, p, m, e)
      BY <2>4, <3>1, InsertFacts
    <3> QED BY <3>1, <3>2 DEF Inserted
  <2> HIDE DEF p, u, e
  <2>6. ToSet(u) = ToSet(p) \cup {e}
    <3>1. \A j \in 1..Len(u) : u[j] \in ToSet(p) \cup {e}
      <4> SUFFICES ASSUME NEW j \in 1..Len(u) PROVE u[j] \in ToSet(p) \cup {e}
        OBVIOUS
      <4>1. CASE j \in 1..(m - 1)
        BY <2>5, <4>1 DEF ToSet
      <4>2. CASE j \in (m + 1)..(Len(p) + 1)
        <5>1. j - 1 \in 1..Len(p)
          BY <2>5, <4>2
        <5> QED BY <2>5, <4>2, <5>1 DEF ToSet
      <4>3. j = m \/ j \in 1..(m - 1) \/ j \in (m + 1)..(Len(p) + 1)
        BY <2>5
      <4> QED BY <2>5, <4>1, <4>2, <4>3
    <3>2. \A j \in 1..Len(p) : p[j] \in ToSet(u)
      <4> SUFFICES ASSUME NEW j \in 1..Len(p) PROVE p[j] \in ToSet(u)
        OBVIOUS
      <4>1. CASE j \in 1..(m - 1)
        <5>1. j \in 1..Len(u)
          BY <2>5
        <5> QED BY <2>5, <4>1, <5>1 DEF ToSet
      <4>2. CASE j >= m
        <5>1. j + 1 \in (m + 1)..(Len(p) + 1) /\ (j + 1) - 1 = j /\ j + 1 \in 1..Len(u)
          BY <2>5, <4>2
        <5>2. u[j + 1] = p[j]
          BY <2>5, <5>1
        <5> QED BY <2>5, <5>1, <5>2 DEF ToSet
      <4> QED BY <2>5, <4>1, <4>2
    <3>3. e \in ToSet(u)
      BY <2>5 DEF ToSet
    <3> QED BY <2>5, <3>1, <3>2, <3>3 DEF ToSet
  <2>7. Spread(u, q, k + 1)
    <3> DEFINE old(j) == IF j < m THEN j ELSE j - 1
    <3>1. ASSUME NEW j \in 1..Len(u), j # m
          PROVE  old(j) \in 1..Len(p) /\ u[j] = p[old(j)]
      <4>1. j \in 1..(m - 1) \/ j \in (m + 1)..(Len(p) + 1)
        BY <2>5, <3>1
      <4> QED BY <2>5, <4>1
    <3>2. \A i, j \in 1..Len(u) : i # j /\ i # m /\ j # m => old(i) # old(j)
      BY <2>5
    <3>3. Spread(p, q, k) /\ ToSet(p) = {q[i] : i \in 1..k}
      BY <1>3 DEF p
    <3>4. \A j \in 1..Len(u) : j # m => \E a \in 1..k : q[a] = u[j]
      <4> SUFFICES ASSUME NEW j \in 1..Len(u), j # m PROVE \E a \in 1..k : q[a] = u[j]
        OBVIOUS
      <4>1. u[j] \in ToSet(p)
        BY <2>5, <3>1 DEF ToSet
      <4> QED BY <3>3, <4>1
    <3> SUFFICES ASSUME NEW i \in 1..Len(u), NEW j \in 1..Len(u), i # j
                 PROVE  \E a, b \in 1..(k + 1) :
                          a # b /\ q[a] = u[i] /\ q[b] = u[j]
      BY DEF Spread
    <3>5. k + 1 \in 1..(k + 1) /\ q[k + 1] = u[m]
      BY <2>1, <2>5 DEF e
    <3>6. CASE i = m
      <4>1. PICK b \in 1..k : q[b] = u[j]
        BY <3>4, <3>6
      <4> QED BY <2>3, <3>5, <3>6, <4>1
    <3>7. CASE j = m
      <4>1. PICK a \in 1..k : q[a] = u[i]
        BY <3>4, <3>7
      <4> QED BY <2>3, <3>5, <3>7, <4>1
    <3>8. CASE i # m /\ j # m
      <4>1. /\ old(i) \in 1..Len(p) /\ old(j) \in 1..Len(p) /\ old(i) # old(j)
            /\ u[i] = p[old(i)] /\ u[j] = p[old(j)]
        BY <3>1, <3>2, <3>8
      <4> HIDE DEF old
      <4>2. PICK a \in 1..k, b \in 1..k :
              a # b /\ q[a] = p[old(i)] /\ q[b] = p[old(j)]
        BY <3>3, <4>1 DEF Spread
      <4> QED BY <2>3, <4>1, <4>2
    <3> QED BY <3>6, <3>7, <3>8
  <2>8. ToSet(p) = {q[i] : i \in 1..k}
    BY <1>3 DEF p
  <2> QED BY <2>1, <2>2, <2>6, <2>7, <2>8 DEF u, e
<1>4. Len(q) \in T
  <2>1. Len(q) \in Nat /\ Len(q) \in 0..Len(q)
    OBVIOUS
  <2> HIDE DEF T
  <2> QED BY <1>2, <1>3, <2>1, UpToByInduction
<1>5. ToSet(q) = {q[i] : i \in 1..Len(q)}
  BY DEF ToSet
<1> QED BY <1>1, <1>4, <1>5

-----------------------------------------------------------------------------
(* The amount of a plan.                                                   *)

\* Sequences that agree up to a position add up to the same up to there.
LEMMA SameSoFar ==
  ASSUME NEW p, NEW q, NEW f, NEW g, AmountRun(f, p), AmountRun(g, q),
         NEW m \in Nat, Len(p) \in Nat, Len(q) \in Nat, m <= Len(p), m <= Len(q),
         \A k \in 1..m : p[k].amount = q[k].amount
  PROVE  \A k \in 0..m : f[k] = g[k]
<1> DEFINE T == {k \in 0..m : f[k] = g[k]}
<1>1. 0 \in T
  BY DEF AmountRun
<1>2. ASSUME NEW k \in 0..(m - 1), k \in T PROVE k + 1 \in T
  <2>1. /\ k + 1 \in 1..m /\ k + 1 \in 1..Len(p) /\ k + 1 \in 1..Len(q)
        /\ (k + 1) - 1 = k
    OBVIOUS
  <2>2. f[k + 1] = f[k] + p[k + 1].amount /\ g[k + 1] = g[k] + q[k + 1].amount
    BY <2>1 DEF AmountRun
  <2> QED BY <1>2, <2>1, <2>2
<1> HIDE DEF T
<1>3. \A k \in 0..m : k \in T
  BY <1>1, <1>2, UpToByInduction
<1> QED BY <1>3 DEF T

Summable(X) == \A e \in X : e.amount \in Nat

LEMMA AmountType ==
  ASSUME NEW X, Summable(X), NEW q \in Seq(X)
  PROVE  AmountOf(q) \in Nat /\ (q = <<>> => AmountOf(q) = 0)
<1>1. PICK r : AmountRun(r, q)
  BY AmountRuns DEF Summable
<1>2. Len(q) \in Nat
  OBVIOUS
<1> QED BY <1>1, <1>2 DEF AmountRun

LEMMA AmountOfAppend ==
  ASSUME NEW X, Summable(X), NEW q \in Seq(X), NEW e \in X
  PROVE  AmountOf(Append(q, e)) = AmountOf(q) + e.amount
<1> DEFINE u == Append(q, e)
           n == Len(q)
<1>1. /\ u \in Seq(X) /\ Len(u) = n + 1 /\ u[n + 1] = e /\ n \in Nat
      /\ \A k \in 1..n : u[k] = q[k]
  OBVIOUS
<1> HIDE DEF u
<1>2. PICK r : AmountRun(r, q)
  BY AmountRuns DEF Summable
<1>3. PICK t : AmountRun(t, u)
  BY <1>1, AmountRuns DEF Summable
<1>4. r[n] = t[n]
  <2>1. \A k \in 0..n : r[k] = t[k]
    BY <1>1, <1>2, <1>3, SameSoFar
  <2> QED BY <1>1, <2>1
<1>5. t[n + 1] = t[n] + u[n + 1].amount
  <2>1. n + 1 \in 1..Len(u) /\ (n + 1) - 1 = n
    BY <1>1
  <2> QED BY <1>3, <2>1 DEF AmountRun
<1>6. AmountOf(q) = r[n] /\ AmountOf(u) = t[n + 1]
  BY <1>1, <1>2, <1>3 DEF AmountRun
<1> QED BY <1>1, <1>4, <1>5, <1>6 DEF u

\* A plan with one entry raised.
LEMMA AmountOfRaised ==
  ASSUME NEW X, Summable(X), NEW p \in Seq(X), NEW q \in Seq(X), NEW n \in Nat,
         Len(q) = Len(p), NEW i \in 1..Len(p), q[i].amount = p[i].amount + n,
         \A k \in 1..Len(p) : k # i => q[k].amount = p[k].amount
  PROVE  AmountOf(q) = AmountOf(p) + n
<1>0. Len(p) \in Nat /\ i \in Nat /\ \A k \in 1..Len(p) : p[k] \in X /\ q[k] \in X
  OBVIOUS
<1>1. PICK f : AmountRun(f, p)
  BY AmountRuns DEF Summable
<1>2. PICK g : AmountRun(g, q)
  BY AmountRuns DEF Summable
<1>3. f[i - 1] = g[i - 1]
  <2>1. i - 1 \in Nat /\ i - 1 <= Len(p) /\ i - 1 \in 0..(i - 1)
        /\ \A k \in 1..(i - 1) : k \in 1..Len(p) /\ k # i
    BY <1>0
  <2>2. \A k \in 0..(i - 1) : f[k] = g[k]
    BY <1>0, <1>1, <1>2, <2>1, SameSoFar
  <2> QED BY <2>1, <2>2
<1> DEFINE T == {k \in 0..Len(p) : k >= i => g[k] = f[k] + n}
<1>4. \A k \in 1..Len(p) : /\ f[k] = f[k - 1] + p[k].amount
                           /\ g[k] = g[k - 1] + q[k].amount
  BY <1>1, <1>2 DEF AmountRun
<1>5. \A k \in 0..Len(p) : f[k] \in Nat /\ g[k] \in Nat
  BY <1>1, <1>2 DEF AmountRun
<1>6. \A k \in 1..Len(p) : p[k].amount \in Nat /\ q[k].amount \in Nat
  BY <1>0 DEF Summable
<1>7. 0 \in T
  BY <1>0
<1>8. ASSUME NEW k \in 0..(Len(p) - 1), k \in T PROVE k + 1 \in T
  <2>1. k + 1 \in 1..Len(p) /\ (k + 1) - 1 = k /\ k \in 0..Len(p) /\ k \in Nat
    BY <1>0
  <2>2. /\ f[k + 1] = f[k] + p[k + 1].amount
        /\ g[k + 1] = g[k] + q[k + 1].amount
    BY <1>4, <2>1
  <2>3. /\ f[k] \in Nat /\ g[k] \in Nat
        /\ p[k + 1].amount \in Nat /\ q[k + 1].amount \in Nat
    BY <1>5, <1>6, <2>1
  <2>4. CASE k + 1 < i
    BY <1>0, <2>1, <2>4
  <2>5. CASE k + 1 = i
    <3>1. k = i - 1
      BY <2>1, <2>5
    <3>2. f[k] = g[k]
      BY <1>3, <3>1
    <3>3. q[k + 1].amount = p[k + 1].amount + n
      BY <2>5
    <3>4. g[k + 1] = f[k + 1] + n
      BY <2>2, <2>3, <3>2, <3>3
    <3> QED BY <2>1, <3>4
  <2>6. CASE k + 1 > i
    <3>1. k >= i /\ k + 1 # i
      BY <1>0, <2>1, <2>6
    <3>2. g[k] = f[k] + n /\ q[k + 1].amount = p[k + 1].amount
      BY <1>8, <2>1, <3>1
    <3>3. g[k + 1] = f[k + 1] + n
      BY <2>2, <2>3, <3>2
    <3> QED BY <2>1, <3>3
  <2> QED BY <1>0, <2>1, <2>4, <2>5, <2>6
<1>9. Len(p) \in T
  <2> HIDE DEF T
  <2>1. \A k \in 0..Len(p) : k \in T
    BY <1>0, <1>7, <1>8, UpToByInduction
  <2> QED BY <1>0, <2>1
<1>10. AmountOf(p) = f[Len(p)] /\ AmountOf(q) = g[Len(p)]
  BY <1>1, <1>2 DEF AmountRun
<1> QED BY <1>0, <1>9, <1>10

-----------------------------------------------------------------------------
(* One source drawn upon.                                                  *)

\* What a plan may be made of when the sources are those of D.
Entries(D) == UNION {{Taken(s, n) : n \in 1..s.avail} : s \in D}
States(D)  == [plan : Seq(Entries(D)), short : Nat, capped : BOOLEAN]
Stocked(D) == \A s \in D : s.avail \in Nat /\ s.min \in Nat

Name(s)     == <<s.kind, s.gw, s.id>>
Names(plan) == {Name(plan[i]) : i \in 1..Len(plan)}
Separate(q) == \A i, j \in 1..Len(q) : i # j => Name(q[i]) # Name(q[j])

\* The invariant of the planner: what is planned and what is missing add up
\* to the amount, both caps hold and no source is planned twice.
Sound(st, need) ==
  /\ AmountOf(st.plan) + st.short = need
  /\ Len(st.plan) <= MaxFundingSources
  /\ IsFiniteSet(PlanGateways(st.plan))
  /\ Cardinality(PlanGateways(st.plan)) <= MaxDelegationSources
  /\ Separate(st.plan)

LEMMA EntryFacts ==
  ASSUME NEW D, Stocked(D), NEW e \in Entries(D)
  PROVE  \E s \in D : /\ e = Taken(s, e.amount) /\ e.amount \in 1..s.avail
                      /\ e.avail = s.avail /\ e.kind = s.kind /\ e.gw = s.gw
                      /\ e.id = s.id /\ e.min = s.min /\ Name(e) = Name(s)
BY DEF Entries, Taken, Stocked, Name

LEMMA EntriesSummable ==
  ASSUME NEW D, Stocked(D) PROVE Summable(Entries(D))
BY EntryFacts DEF Summable, Stocked

\* The gateways of a plan are those of its delegations.
LEMMA GatewaysOfPlan ==
  ASSUME NEW X, NEW plan \in Seq(X)
  PROVE  PlanGateways(plan)
           = {plan[i].gw : i \in {j \in 1..Len(plan) : plan[j].kind = "delegation"}}
<1>1. ToSet(OfKind(plan, "delegation"))
        = ToSet(plan) \cap {s \in ToSet(plan) : s.kind = "delegation"}
  BY KeepFacts DEF OfKind
<1>2. ToSet(plan) = {plan[i] : i \in 1..Len(plan)}
  BY DEF ToSet
<1> QED BY <1>1, <1>2 DEF PlanGateways

LEMMA GatewaysOfAppend ==
  ASSUME NEW X, NEW plan \in Seq(X), NEW e \in X
  PROVE  PlanGateways(Append(plan, e))
           = PlanGateways(plan) \cup (IF e.kind = "delegation" THEN {e.gw} ELSE {})
<1> DEFINE u == Append(plan, e)
<1>1. /\ u \in Seq(X) /\ Len(u) = Len(plan) + 1 /\ u[Len(plan) + 1] = e
      /\ Len(plan) \in Nat /\ \A i \in 1..Len(plan) : u[i] = plan[i]
  OBVIOUS
<1> HIDE DEF u
<1>2. PlanGateways(u)
        = {u[i].gw : i \in {j \in 1..Len(u) : u[j].kind = "delegation"}}
  BY <1>1, GatewaysOfPlan
<1>3. PlanGateways(plan)
        = {plan[i].gw : i \in {j \in 1..Len(plan) : plan[j].kind = "delegation"}}
  BY GatewaysOfPlan
<1>4. \A i \in 1..Len(u) : i \in 1..Len(plan) \/ i = Len(plan) + 1
  BY <1>1
<1>5. \A i \in 1..Len(plan) : i \in 1..Len(u)
  BY <1>1
<1>6. Len(plan) + 1 \in 1..Len(u)
  BY <1>1
<1> QED BY <1>1, <1>2, <1>3, <1>4, <1>5, <1>6 DEF u

\* Nothing is planned at first.
LEMMA StartSound ==
  ASSUME NEW D, Stocked(D), NEW need \in Nat
  PROVE  /\ Start(need) \in States(D) /\ Sound(Start(need), need)
         /\ Names(Start(need).plan) = {}
<1>1. <<>> \in Seq(Entries(D)) /\ Len(<<>>) = 0
  OBVIOUS
<1>2. AmountOf(<<>>) = 0
  BY <1>1, EntriesSummable, AmountType
<1>3. PlanGateways(<<>>) = {}
  <2> DEFINE none == <<>>
  <2>1. none \in Seq(Entries(D)) /\ 1..Len(none) = {}
    OBVIOUS
  <2> HIDE DEF none
  <2>2. PlanGateways(none) = {none[i].gw :
                                i \in {j \in 1..Len(none) : none[j].kind = "delegation"}}
    BY <2>1, GatewaysOfPlan
  <2> QED BY <2>1, <2>2 DEF none
<1>4. IsFiniteSet({}) /\ Cardinality({}) = 0
  BY FS_EmptySet
<1>5. Start(need) \in States(D)
  BY <1>1 DEF Start, States
<1>6. Separate(<<>>) /\ Names(<<>>) = {}
  BY <1>1 DEF Separate, Names
<1>7. /\ Start(need).plan = <<>> /\ Start(need).short = need
  BY DEF Start
<1>8. 0 <= MaxFundingSources /\ 0 <= MaxDelegationSources /\ 0 + need = need
  BY CapsAssumption
<1> QED BY <1>1, <1>2, <1>3, <1>4, <1>5, <1>6, <1>7, <1>8 DEF Sound

LEMMA DrawType ==
  ASSUME NEW D, Stocked(D), NEW st \in States(D), NEW s \in D,
         NEW limit \in 0..s.avail
  PROVE  Draw(st, s, limit) \in States(D)
<1> DEFINE take == Lesser(limit, st.short)
<1>1. /\ limit \in Nat /\ st.short \in Nat /\ s.avail \in Nat
      /\ st.plan \in Seq(Entries(D)) /\ st.capped \in BOOLEAN
  BY DEF Stocked, States
<1>2. take \in Nat /\ take <= limit /\ take <= st.short
  BY <1>1 DEF Lesser
<1>3. [st EXCEPT !.capped = TRUE] \in States(D)
  BY DEF States
<1>4. ASSUME take # 0
      PROVE  [st EXCEPT !.plan = Append(@, Taken(s, take)), !.short = @ - take]
               \in States(D)
  <2>1. take \in 1..s.avail /\ st.short - take \in Nat
    BY <1>1, <1>2, <1>4
  <2>2. Taken(s, take) \in Entries(D)
    BY <2>1 DEF Entries
  <2>3. Append(st.plan, Taken(s, take)) \in Seq(Entries(D))
    BY <1>1, <2>2
  <2> HIDE DEF take
  <2> QED BY <2>1, <2>3 DEF States
<1> HIDE DEF take
<1> QED BY <1>3, <1>4 DEF Draw, take

LEMMA DrawSound ==
  ASSUME NEW D, Stocked(D), NEW st \in States(D), NEW s \in D,
         NEW limit \in 0..s.avail, NEW need \in Nat, Sound(st, need),
         Name(s) \notin Names(st.plan)
  PROVE  /\ Sound(Draw(st, s, limit), need)
         /\ Names(Draw(st, s, limit).plan) \subseteq Names(st.plan) \cup {Name(s)}
<1> DEFINE take == Lesser(limit, st.short)
           e == Taken(s, take)
           u == Append(st.plan, e)
<1>1. /\ limit \in Nat /\ st.short \in Nat /\ s.avail \in Nat
      /\ st.plan \in Seq(Entries(D)) /\ st.capped \in BOOLEAN
      /\ st = [plan |-> st.plan, short |-> st.short, capped |-> st.capped]
  BY DEF Stocked, States
<1>2. take \in Nat /\ take <= limit /\ take <= st.short
  BY <1>1 DEF Lesser
<1>3. CASE Draw(st, s, limit) = st
  BY <1>3
<1>4. CASE Draw(st, s, limit) = [st EXCEPT !.capped = TRUE]
  <2>1. /\ Draw(st, s, limit).plan = st.plan
        /\ Draw(st, s, limit).short = st.short
    BY <1>1, <1>4
  <2> QED BY <2>1 DEF Sound
<1>5. CASE /\ take # 0 /\ MayPush(st.plan, s)
           /\ Draw(st, s, limit)
                = [st EXCEPT !.plan = Append(@, Taken(s, take)), !.short = @ - take]
  <2>1. take \in 1..s.avail
    BY <1>1, <1>2, <1>5
  <2>2. e \in Entries(D) /\ e.amount = take /\ Name(e) = Name(s)
        /\ e.kind = s.kind /\ e.gw = s.gw
    BY <2>1 DEF Entries, Taken, Name
  <2>3. /\ u \in Seq(Entries(D)) /\ Len(u) = Len(st.plan) + 1
        /\ u[Len(st.plan) + 1] = e /\ Len(st.plan) \in Nat
        /\ \A i \in 1..Len(st.plan) : u[i] = st.plan[i]
    <3> HIDE DEF e
    <3> QED BY <1>1, <2>2
  <2>4. Draw(st, s, limit).plan = u /\ Draw(st, s, limit).short = st.short - take
    BY <1>1, <1>5
  <2>5. AmountOf(u) = AmountOf(st.plan) + take
    <3> HIDE DEF e, take
    <3>1. AmountOf(u) = AmountOf(st.plan) + e.amount
      BY <1>1, <2>2, EntriesSummable, AmountOfAppend
    <3> QED BY <2>2, <3>1
  <2>6. PlanGateways(u)
          = PlanGateways(st.plan) \cup (IF s.kind = "delegation" THEN {s.gw} ELSE {})
    <3> HIDE DEF e
    <3> QED BY <1>1, <2>2, GatewaysOfAppend
  <2> HIDE DEF u, e, take
  <2>7. AmountOf(u) + (st.short - take) = need
    <3>1. AmountOf(st.plan) \in Nat /\ AmountOf(st.plan) + st.short = need
      BY <1>1, EntriesSummable, AmountType DEF Sound
    <3> QED BY <1>1, <1>2, <2>5, <3>1
  <2>8. Len(u) <= MaxFundingSources
    BY <1>5, <2>3, CapsAssumption DEF MayPush
  <2>9. /\ IsFiniteSet(PlanGateways(u))
        /\ Cardinality(PlanGateways(u)) <= MaxDelegationSources
    <3> DEFINE G == PlanGateways(st.plan)
    <3>1. IsFiniteSet(G) /\ Cardinality(G) <= MaxDelegationSources
      BY DEF Sound
    <3> HIDE DEF G
    <3>2. CASE PlanGateways(u) = G
      BY <3>1, <3>2
    <3>3. CASE PlanGateways(u) # G
      <4>1. PlanGateways(u) = G \cup {s.gw} /\ s.gw \notin G /\ s.kind = "delegation"
        BY <2>6, <3>3 DEF G
      <4>2. Cardinality(G) < MaxDelegationSources
        BY <1>5, <4>1 DEF MayPush, G
      <4>3. /\ IsFiniteSet(G \cup {s.gw})
            /\ Cardinality(G \cup {s.gw}) = Cardinality(G) + 1
        BY <3>1, <4>1, FS_AddElement
      <4>4. Cardinality(G) \in Nat
        BY <3>1, FS_CardinalityType
      <4> QED BY <4>1, <4>2, <4>3, <4>4, CapsAssumption
    <3> QED BY <3>2, <3>3
  <2>10. \A i \in 1..Len(u) : i \in 1..Len(st.plan) \/ i = Len(st.plan) + 1
    BY <2>3
  <2>11. \A i \in 1..Len(st.plan) : Name(u[i]) # Name(s) /\ Name(u[i]) \in Names(st.plan)
    BY <2>3 DEF Names
  <2>12. Separate(u)
    BY <2>2, <2>3, <2>10, <2>11 DEF Sound, Separate
  <2>13. Names(u) \subseteq Names(st.plan) \cup {Name(s)}
    BY <2>2, <2>3, <2>10, <2>11 DEF Names
  <2> QED BY <2>4, <2>7, <2>8, <2>9, <2>12, <2>13 DEF Sound
<1> HIDE DEF take
<1> QED BY <1>3, <1>4, <1>5 DEF Draw, take

-----------------------------------------------------------------------------
(* A pass over the sources.                                                *)

\* No more than a source has is taken from it.
LEMMA LimitType ==
  ASSUME NEW D, Stocked(D), NEW s \in D, NEW takes
  PROVE  Limit(s, takes) \in 0..s.avail
<1>1. s.avail \in Nat /\ s.min \in Nat
  BY DEF Stocked
<1> QED BY <1>1 DEF Limit, Above

\* A pass draws on its sources one after the other.
PassRun(r, st, q, takes, D) ==
  /\ r \in [0..Len(q) -> States(D)]
  /\ r[0] = [st EXCEPT !.capped = FALSE] /\ r[Len(q)] = Pass(st, q, takes)
  /\ \A k \in 1..Len(q) : r[k] = Draw(r[k - 1], q[k], Limit(q[k], takes))

LEMMA PassRuns ==
  ASSUME NEW D, Stocked(D), NEW st \in States(D), NEW q \in Seq(D), NEW takes
  PROVE  \E r : PassRun(r, st, q, takes, D)
<1> DEFINE n == Len(q)
           V == States(D)
           base == [st EXCEPT !.capped = FALSE]
           G == [p \in V \X (1..n) |-> Draw(p[1], q[p[2]], Limit(q[p[2]], takes))]
           it == CHOOSE f : f = [s \in SUBSET DOMAIN q |->
                   IF s = {} THEN base
                   ELSE LET x == Max(s) IN Draw(f[s \ {x}], q[x], Limit(q[x], takes))]
           r == [k \in 0..n |-> it[1..k]]
<1>1. n \in Nat /\ DOMAIN q = 1..n /\ \A i \in 1..n : q[i] \in D
  OBVIOUS
<1>2. G \in [V \X (1..n) -> V] /\ base \in V
  <2>1. \A u \in V, i \in 1..n : Draw(u, q[i], Limit(q[i], takes)) \in V
    BY <1>1, LimitType, DrawType
  <2>2. base \in V
    BY DEF States
  <2> QED BY <2>1, <2>2
<1>3. PICK f \in [SUBSET (1..n) -> V] : FoldsLeft(f, n, base, G)
  <2> HIDE DEF V, G, n, base
  <2> QED BY <1>1, <1>2, FoldLeftExists
<1>4. f = [s \in SUBSET DOMAIN q |->
             IF s = {} THEN base
             ELSE LET x == Max(s) IN Draw(f[s \ {x}], q[x], Limit(q[x], takes))]
  <2>1. \A s \in SUBSET (1..n) : s # {} => Max(s) \in 1..n
    BY <1>1, MaxOfPositions
  <2>2. \A s \in SUBSET (1..n) :
          s # {} => G[<<f[s \ {Max(s)}], Max(s)>>]
                      = Draw(f[s \ {Max(s)}], q[Max(s)], Limit(q[Max(s)], takes))
    BY <2>1
  <2> HIDE DEF G, V, n, base
  <2> QED BY <1>1, <1>3, <2>2 DEF FoldsLeft
<1>5. it = [s \in SUBSET DOMAIN q |->
              IF s = {} THEN base
              ELSE LET x == Max(s) IN Draw(it[s \ {x}], q[x], Limit(q[x], takes))]
  <2> HIDE DEF base
  <2> QED BY <1>4
<1>6. Unfolds(it, n, V, base, G)
  <2>1. \A s \in SUBSET (1..n) : s # {} => Max(s) \in 1..n
    BY <1>1, MaxOfPositions
  <2> HIDE DEF it, base
  <2> QED BY <1>1, <1>5, <2>1 DEF Unfolds
<1>7. /\ it[1..0] = base /\ \A k \in 0..n : it[1..k] \in V
      /\ \A k \in 1..n : it[1..k] = G[<<it[1..(k - 1)], k>>]
  <2>1. n \in Nat /\ base \in V /\ G \in [V \X (1..n) -> V]
    BY <1>1, <1>2
  <2> HIDE DEF it, G, V, n, r, base
  <2>2. Runs(it, n, V, base, G)
    BY ONLY <1>6, <2>1, FoldRuns
  <2> QED BY ONLY <2>2 DEF Runs
<1>8. Pass(st, q, takes) = it[1..n]
  BY <1>1 DEF Pass, FoldLeft, MapThenFoldSet
<1>9. \A k \in 1..n : r[k] = Draw(r[k - 1], q[k], Limit(q[k], takes))
  <2>1. \A k \in 1..n : k - 1 \in 0..n /\ k \in 0..n
    BY <1>1
  <2> HIDE DEF it, base
  <2> QED BY <1>1, <1>7, <2>1
<1>10. r \in [0..n -> V] /\ r[0] = base /\ r[n] = Pass(st, q, takes)
  <2> HIDE DEF it, base
  <2> QED BY <1>1, <1>7, <1>8
<1> HIDE DEF r, it
<1> QED BY <1>9, <1>10 DEF PassRun

\* A pass over separate sources that are not planned yet.
LEMMA PassSound ==
  ASSUME NEW D, Stocked(D), NEW st \in States(D), NEW q \in Seq(D), NEW takes,
         NEW need \in Nat, Sound(st, need), Separate(q),
         Names(q) \cap Names(st.plan) = {}
  PROVE  /\ Pass(st, q, takes) \in States(D)
         /\ Sound(Pass(st, q, takes), need)
         /\ Names(Pass(st, q, takes).plan) \subseteq Names(st.plan) \cup Names(q)
<1>1. PICK r : PassRun(r, st, q, takes, D)
  BY PassRuns
<1> DEFINE n == Len(q)
           before(k) == {Name(q[i]) : i \in 1..k}
           T == {k \in 0..n : /\ Sound(r[k], need)
                              /\ Names(r[k].plan) \subseteq Names(st.plan) \cup before(k)}
<1>2. n \in Nat /\ \A i \in 1..n : q[i] \in D
  OBVIOUS
<1>3. 0 \in T
  <2>1. r[0] = [st EXCEPT !.capped = FALSE]
    BY <1>1 DEF PassRun
  <2>2. r[0].plan = st.plan /\ r[0].short = st.short
    BY <2>1 DEF States
  <2> QED BY <1>2, <2>2 DEF Sound
<1>4. ASSUME NEW k \in 0..(n - 1), k \in T PROVE k + 1 \in T
  <2> DEFINE s == q[k + 1]
  <2>1. k + 1 \in 1..n /\ (k + 1) - 1 = k /\ k \in 0..n /\ s \in D
    BY <1>2
  <2>2. r[k] \in States(D) /\ r[k + 1] = Draw(r[k], s, Limit(s, takes))
    BY <1>1, <2>1 DEF PassRun
  <2>3. Limit(s, takes) \in 0..s.avail
    BY <2>1, LimitType
  <2>4. Name(s) \notin before(k)
    BY <1>2, <2>1 DEF Separate
  <2>5. Name(s) \in Names(q)
    BY <2>1 DEF Names
  <2>6. Name(s) \notin Names(r[k].plan)
    BY <1>4, <2>4, <2>5
  <2>7. before(k + 1) = before(k) \cup {Name(s)}
    <3>1. \A i \in 1..(k + 1) : i \in 1..k \/ i = k + 1
      BY <2>1
    <3>2. \A i \in 1..k : i \in 1..(k + 1)
      BY <2>1
    <3>3. k + 1 \in 1..(k + 1)
      BY <2>1
    <3> QED BY <3>1, <3>2, <3>3
  <2>8. Sound(r[k], need)
    BY <1>4
  <2> HIDE DEF s, before
  <2>9. /\ Sound(r[k + 1], need)
        /\ Names(r[k + 1].plan) \subseteq Names(r[k].plan) \cup {Name(s)}
    <3> DEFINE x == r[k]
               limit == Limit(s, takes)
    <3>1. /\ x \in States(D) /\ limit \in 0..s.avail /\ Sound(x, need)
          /\ Name(s) \notin Names(x.plan)
      BY <2>2, <2>3, <2>6, <2>8
    <3> HIDE DEF x, limit
    <3>2. /\ Sound(Draw(x, s, limit), need)
          /\ Names(Draw(x, s, limit).plan) \subseteq Names(x.plan) \cup {Name(s)}
      BY <2>1, <3>1, DrawSound
    <3> QED BY <2>2, <3>2 DEF x, limit
  <2>10. Names(r[k].plan) \subseteq Names(st.plan) \cup before(k)
    BY <1>4
  <2>11. k + 1 \in 0..n
    BY <2>1
  <2> QED BY <2>7, <2>9, <2>10, <2>11
<1>5. n \in T
  <2> HIDE DEF T
  <2>1. \A k \in 0..n : k \in T
    BY <1>2, <1>3, <1>4, UpToByInduction
  <2>2. n \in 0..n
    BY <1>2
  <2> QED BY <2>1, <2>2
<1>6. r[n] = Pass(st, q, takes) /\ r[n] \in States(D)
  BY <1>1, <1>2 DEF PassRun
<1>7. before(n) = Names(q)
  BY DEF Names
<1> QED BY <1>5, <1>6, <1>7

-----------------------------------------------------------------------------
(* The last pass, which may raise what is planned already.                 *)

\* The sources are told apart by their names, a stake by its gateway alone.
Told(D) == /\ \A s, t \in D : Name(s) = Name(t) => s = t
           /\ \A s \in D : s.kind = "delegation" => s.id = NoId
Stakes(D) == {s \in D : s.kind = "delegation"}

Raised(plan, i, n) == [plan EXCEPT ![i].amount = @ + n]

LEMMA RaisedFacts ==
  ASSUME NEW D, Stocked(D), NEW plan \in Seq(Entries(D)), NEW i \in 1..Len(plan),
         NEW s \in D, NEW n \in 0..(s.avail - plan[i].amount),
         Told(D), Name(plan[i]) = Name(s)
  PROVE  /\ Raised(plan, i, n) \in Seq(Entries(D))
         /\ Len(Raised(plan, i, n)) = Len(plan)
         /\ AmountOf(Raised(plan, i, n)) = AmountOf(plan) + n
         /\ \A k \in 1..Len(plan) : Name(Raised(plan, i, n)[k]) = Name(plan[k])
         /\ PlanGateways(Raised(plan, i, n)) = PlanGateways(plan)
<1> DEFINE u == Raised(plan, i, n)
           old == plan[i]
           new == [old EXCEPT !.amount = @ + n]
<1>1. /\ Len(plan) \in Nat /\ old \in Entries(D)
      /\ \A k \in 1..Len(plan) : plan[k] \in Entries(D)
  OBVIOUS
<1>2. old = Taken(s, old.amount) /\ old.amount \in 1..s.avail /\ s.avail \in Nat
  <2> HIDE DEF old
  <2>1. PICK t \in D : /\ old = Taken(t, old.amount)
                       /\ old.amount \in 1..t.avail /\ Name(old) = Name(t)
    BY <1>1, EntryFacts
  <2>2. t = s
    BY <2>1 DEF Told, old
  <2> QED BY <2>1, <2>2 DEF Stocked
<1>3. new = Taken(s, old.amount + n)
  <2> HIDE DEF old
  <2> QED BY <1>2 DEF Taken
<1>4. old.amount + n \in 1..s.avail /\ n \in Nat
  BY <1>2
<1>5. new \in Entries(D)
  <2> HIDE DEF new, old
  <2> QED BY <1>3, <1>4 DEF Entries
<1>6. new.amount = old.amount + n /\ Name(new) = Name(old)
      /\ new.kind = old.kind /\ new.gw = old.gw
  <2> HIDE DEF new, old
  <2> QED BY <1>2, <1>3 DEF Taken, Name
<1>7. u = [plan EXCEPT ![i] = new]
  BY DEF Raised
<1> HIDE DEF u, new
<1>8. /\ u \in Seq(Entries(D)) /\ Len(u) = Len(plan) /\ u[i] = new
      /\ \A k \in 1..Len(plan) : k # i => u[k] = plan[k]
  BY <1>1, <1>5, <1>7
<1>9. AmountOf(u) = AmountOf(plan) + n
  BY <1>4, <1>6, <1>8, EntriesSummable, AmountOfRaised
<1>10. \A k \in 1..Len(plan) : /\ Name(u[k]) = Name(plan[k])
                               /\ u[k].kind = plan[k].kind /\ u[k].gw = plan[k].gw
  BY <1>6, <1>8
<1>11. PlanGateways(u) = PlanGateways(plan)
  <2>1. PlanGateways(u)
          = {u[k].gw : k \in {j \in 1..Len(u) : u[j].kind = "delegation"}}
    BY <1>8, GatewaysOfPlan
  <2>2. PlanGateways(plan)
          = {plan[k].gw : k \in {j \in 1..Len(plan) : plan[j].kind = "delegation"}}
    BY GatewaysOfPlan
  <2>3. {j \in 1..Len(u) : u[j].kind = "delegation"}
          = {j \in 1..Len(plan) : plan[j].kind = "delegation"}
    BY <1>8, <1>10
  <2> QED BY <1>10, <2>1, <2>2, <2>3
<1> QED BY <1>8, <1>9, <1>10, <1>11 DEF u

\* What a stake adds: nothing, an entry, or more of the entry it has.
Drained(new, st, s) ==
  \/ new = st /\ st.capped
  \/ /\ new = Draw(st, s, s.avail) /\ Name(s) \notin Names(st.plan)
     /\ ~st.capped
  \/ \E i \in 1..Len(st.plan) : \E n \in 0..(s.avail - st.plan[i].amount) :
       /\ Name(st.plan[i]) = Name(s) /\ n <= st.short /\ ~st.capped
       /\ n = Lesser(s.avail - st.plan[i].amount, st.short)
       /\ new = [st EXCEPT !.plan = Raised(@, i, n), !.short = @ - n]

LEMMA DrainFacts ==
  ASSUME NEW D, Stocked(D), Told(D), NEW st \in States(D), NEW s \in Stakes(D)
  PROVE  Drained(DrainFloor(st, s), st, s)
<1> DEFINE at == EntryOf(st.plan, s.gw)
           i  == CHOOSE j \in at : TRUE
           n  == Lesser(s.avail - st.plan[i].amount, st.short)
<1>1. /\ s \in D /\ s.kind = "delegation" /\ s.id = NoId /\ s.avail \in Nat
      /\ st.plan \in Seq(Entries(D)) /\ st.short \in Nat
  BY DEF Stakes, Told, Stocked, States
<1>2. \A j \in 1..Len(st.plan) :
        j \in at <=> Name(st.plan[j]) = Name(s)
  <2> SUFFICES ASSUME NEW j \in 1..Len(st.plan)
               PROVE  j \in at <=> Name(st.plan[j]) = Name(s)
    OBVIOUS
  <2>1. st.plan[j] \in Entries(D)
    BY <1>1
  <2>2. PICK t \in D : /\ st.plan[j].kind = t.kind /\ st.plan[j].gw = t.gw
                       /\ st.plan[j].id = t.id /\ Name(st.plan[j]) = Name(t)
    BY <2>1, EntryFacts
  <2>3. t.kind = "delegation" => t.id = NoId
    BY DEF Told
  <2> QED BY <1>1, <2>2, <2>3 DEF EntryOf, Name
<1>3. CASE st.capped
  BY <1>3 DEF DrainFloor, Drained
<1>4. CASE ~st.capped /\ at = {}
  <2>1. Name(s) \notin Names(st.plan)
    BY <1>2, <1>4 DEF Names
  <2> QED BY <1>4, <2>1 DEF DrainFloor, Drained
<1>5. CASE ~st.capped /\ at # {}
  <2>1. i \in at
    BY <1>5
  <2>2. i \in 1..Len(st.plan) /\ Name(st.plan[i]) = Name(s)
    <3> HIDE DEF i
    <3> QED BY <1>2, <2>1 DEF EntryOf
  <2>3. st.plan[i].amount \in 1..s.avail
    <3> HIDE DEF i
    <3>1. st.plan[i] \in Entries(D)
      BY <1>1, <2>2
    <3>2. PICK t \in D : /\ st.plan[i].amount \in 1..t.avail
                         /\ Name(st.plan[i]) = Name(t)
      BY <3>1, EntryFacts
    <3>3. t = s
      BY <1>1, <2>2, <3>2 DEF Told
    <3> QED BY <3>2, <3>3
  <2>4. n \in 0..(s.avail - st.plan[i].amount) /\ n <= st.short
    <3> HIDE DEF i
    <3> QED BY <1>1, <2>3 DEF Lesser
  <2>5. DrainFloor(st, s) = [st EXCEPT !.plan[i].amount = @ + n, !.short = @ - n]
    BY <1>5 DEF DrainFloor
  <2>6. DrainFloor(st, s) = [st EXCEPT !.plan = Raised(@, i, n), !.short = @ - n]
    <3> HIDE DEF i, n
    <3> QED BY <2>5 DEF Raised
  <2>7. n = Lesser(s.avail - st.plan[i].amount, st.short)
    OBVIOUS
  <2> HIDE DEF i, n
  <2> QED BY <1>5, <2>2, <2>4, <2>6, <2>7 DEF Drained
<1> QED BY <1>3, <1>4, <1>5

LEMMA DrainType ==
  ASSUME NEW D, Stocked(D), Told(D), NEW st \in States(D), NEW s \in Stakes(D)
  PROVE  DrainFloor(st, s) \in States(D)
<1>1. s \in D /\ s.avail \in Nat /\ s.avail \in 0..s.avail
  BY DEF Stakes, Stocked
<1>2. Draw(st, s, s.avail) \in States(D)
  BY <1>1, DrawType
<1>3. ASSUME NEW i \in 1..Len(st.plan), NEW n \in 0..(s.avail - st.plan[i].amount),
             Name(st.plan[i]) = Name(s), n <= st.short
      PROVE  [st EXCEPT !.plan = Raised(@, i, n), !.short = @ - n] \in States(D)
  <2>1. st.plan \in Seq(Entries(D)) /\ st.short \in Nat
    BY DEF States
  <2>2. Raised(st.plan, i, n) \in Seq(Entries(D))
    BY <1>1, <1>3, <2>1, RaisedFacts
  <2>3. st.short - n \in Nat
    <3>1. n \in Int
      OBVIOUS
    <3> QED BY <1>3, <2>1, <3>1
  <2> QED BY <2>2, <2>3 DEF States
<1>4. Drained(DrainFloor(st, s), st, s)
  BY DrainFacts
<1> QED BY <1>2, <1>3, <1>4 DEF Drained

LEMMA DrainSound ==
  ASSUME NEW D, Stocked(D), Told(D), NEW st \in States(D), NEW s \in Stakes(D),
         NEW need \in Nat, Sound(st, need)
  PROVE  /\ Sound(DrainFloor(st, s), need)
         /\ Names(DrainFloor(st, s).plan) \subseteq Names(st.plan) \cup {Name(s)}
<1>1. s \in D /\ s.avail \in Nat /\ s.avail \in 0..s.avail
  BY DEF Stakes, Stocked
<1>2. CASE DrainFloor(st, s) = st
  BY <1>2
<1>3. CASE /\ DrainFloor(st, s) = Draw(st, s, s.avail)
           /\ Name(s) \notin Names(st.plan)
  BY <1>1, <1>3, DrawSound
<1>4. ASSUME NEW i \in 1..Len(st.plan), NEW n \in 0..(s.avail - st.plan[i].amount),
             Name(st.plan[i]) = Name(s), n <= st.short,
             DrainFloor(st, s) = [st EXCEPT !.plan = Raised(@, i, n), !.short = @ - n]
      PROVE  /\ Sound(DrainFloor(st, s), need)
             /\ Names(DrainFloor(st, s).plan) \subseteq Names(st.plan) \cup {Name(s)}
  <2> DEFINE u == Raised(st.plan, i, n)
  <2>1. st.plan \in Seq(Entries(D)) /\ st.short \in Nat /\ n \in Int
    BY DEF States
  <2>2. /\ Len(u) = Len(st.plan) /\ AmountOf(u) = AmountOf(st.plan) + n
        /\ \A k \in 1..Len(st.plan) : Name(u[k]) = Name(st.plan[k])
        /\ PlanGateways(u) = PlanGateways(st.plan)
    BY <1>1, <1>4, <2>1, RaisedFacts
  <2>3. DrainFloor(st, s).plan = u /\ DrainFloor(st, s).short = st.short - n
    <3> HIDE DEF u
    <3>1. st = [plan |-> st.plan, short |-> st.short, capped |-> st.capped]
      BY DEF States
    <3> QED BY <1>4, <3>1 DEF u
  <2> HIDE DEF u
  <2>4. AmountOf(st.plan) \in Nat /\ AmountOf(st.plan) + st.short = need
    BY <2>1, EntriesSummable, AmountType DEF Sound
  <2>5. AmountOf(u) + (st.short - n) = need
    BY <2>1, <2>2, <2>4
  <2>6. Separate(u)
    BY <2>2 DEF Sound, Separate
  <2>7. Names(u) = Names(st.plan)
    BY <2>2 DEF Names
  <2> QED BY <2>2, <2>3, <2>5, <2>6, <2>7 DEF Sound
<1>5. Drained(DrainFloor(st, s), st, s)
  BY DrainFacts
<1> QED BY <1>2, <1>3, <1>4, <1>5 DEF Drained

\* The last pass drains one stake after the other.
FloorRun(r, st, q, D, last) ==
  /\ r \in [0..Len(q) -> States(D)]
  /\ r[0] = [st EXCEPT !.capped = FALSE] /\ r[Len(q)] = last
  /\ \A k \in 1..Len(q) : r[k] = DrainFloor(r[k - 1], q[k])

LEMMA FloorRuns ==
  ASSUME NEW D, Stocked(D), Told(D), NEW st \in States(D),
         NEW ordered, NEW prefer, NEW q, q = FloorOrder(ordered, prefer),
         q \in Seq(Stakes(D))
  PROVE  \E r : FloorRun(r, st, q, D, FloorPass(st, ordered, prefer))
<1> DEFINE n == Len(q)
           V == States(D)
           base == [st EXCEPT !.capped = FALSE]
           G == [p \in V \X (1..n) |-> DrainFloor(p[1], q[p[2]])]
           it == CHOOSE f : f = [s \in SUBSET DOMAIN q |->
                   IF s = {} THEN base
                   ELSE LET x == Max(s) IN DrainFloor(f[s \ {x}], q[x])]
           r == [k \in 0..n |-> it[1..k]]
<1>1. n \in Nat /\ DOMAIN q = 1..n /\ \A i \in 1..n : q[i] \in Stakes(D)
  OBVIOUS
<1>2. G \in [V \X (1..n) -> V] /\ base \in V
  <2>1. \A u \in V, i \in 1..n : DrainFloor(u, q[i]) \in V
    BY <1>1, DrainType
  <2>2. base \in V
    BY DEF States
  <2> QED BY <2>1, <2>2
<1>3. PICK f \in [SUBSET (1..n) -> V] : FoldsLeft(f, n, base, G)
  <2> HIDE DEF V, G, n, base
  <2> QED BY <1>1, <1>2, FoldLeftExists
<1>4. f = [s \in SUBSET DOMAIN q |->
             IF s = {} THEN base
             ELSE LET x == Max(s) IN DrainFloor(f[s \ {x}], q[x])]
  <2>1. \A s \in SUBSET (1..n) : s # {} => Max(s) \in 1..n
    BY <1>1, MaxOfPositions
  <2>2. \A s \in SUBSET (1..n) :
          s # {} => G[<<f[s \ {Max(s)}], Max(s)>>]
                      = DrainFloor(f[s \ {Max(s)}], q[Max(s)])
    BY <2>1
  <2> HIDE DEF G, V, n, base
  <2> QED BY <1>1, <1>3, <2>2 DEF FoldsLeft
<1>5. it = [s \in SUBSET DOMAIN q |->
              IF s = {} THEN base
              ELSE LET x == Max(s) IN DrainFloor(it[s \ {x}], q[x])]
  <2> HIDE DEF base
  <2> QED BY <1>4
<1>6. Unfolds(it, n, V, base, G)
  <2>1. \A s \in SUBSET (1..n) : s # {} => Max(s) \in 1..n
    BY <1>1, MaxOfPositions
  <2> HIDE DEF it, base
  <2> QED BY <1>1, <1>5, <2>1 DEF Unfolds
<1>7. /\ it[1..0] = base /\ \A k \in 0..n : it[1..k] \in V
      /\ \A k \in 1..n : it[1..k] = G[<<it[1..(k - 1)], k>>]
  <2>1. n \in Nat /\ base \in V /\ G \in [V \X (1..n) -> V]
    BY <1>1, <1>2
  <2> HIDE DEF it, G, V, n, r, base
  <2>2. Runs(it, n, V, base, G)
    BY ONLY <1>6, <2>1, FoldRuns
  <2> QED BY ONLY <2>2 DEF Runs
<1>8. FloorPass(st, ordered, prefer) = it[1..n]
  BY <1>1 DEF FloorPass, FoldLeft, MapThenFoldSet
<1>9. \A k \in 1..n : r[k] = DrainFloor(r[k - 1], q[k])
  <2>1. \A k \in 1..n : k - 1 \in 0..n /\ k \in 0..n
    BY <1>1
  <2> HIDE DEF it, base
  <2> QED BY <1>1, <1>7, <2>1
<1>10. r \in [0..n -> V] /\ r[0] = base /\ r[n] = FloorPass(st, ordered, prefer)
  <2> HIDE DEF it, base
  <2> QED BY <1>1, <1>7, <1>8
<1> HIDE DEF r, it
<1> QED BY <1>9, <1>10 DEF FloorRun

LEMMA FloorSound ==
  ASSUME NEW D, Stocked(D), Told(D), NEW st \in States(D), NEW need \in Nat,
         Sound(st, need), NEW ordered, NEW prefer,
         FloorOrder(ordered, prefer) \in Seq(Stakes(D))
  PROVE  /\ FloorPass(st, ordered, prefer) \in States(D)
         /\ Sound(FloorPass(st, ordered, prefer), need)
         /\ Names(FloorPass(st, ordered, prefer).plan)
              \subseteq Names(st.plan) \cup Names(FloorOrder(ordered, prefer))
<1> DEFINE q == FloorOrder(ordered, prefer)
           n == Len(q)
           end == FloorPass(st, ordered, prefer)
<1>1. PICK r : FloorRun(r, st, q, D, end)
  BY FloorRuns
<1>2. n \in Nat /\ \A i \in 1..n : q[i] \in Stakes(D)
  OBVIOUS
<1> HIDE DEF q, end
<1> DEFINE T == {k \in 0..n : /\ Sound(r[k], need)
                              /\ Names(r[k].plan) \subseteq Names(st.plan) \cup Names(q)}
<1>3. 0 \in T
  <2>1. r[0] = [st EXCEPT !.capped = FALSE]
    BY <1>1 DEF FloorRun
  <2>2. r[0].plan = st.plan /\ r[0].short = st.short
    BY <2>1 DEF States
  <2> QED BY <1>2, <2>2 DEF Sound
<1>4. ASSUME NEW k \in 0..(n - 1), k \in T PROVE k + 1 \in T
  <2> DEFINE s == q[k + 1]
             x == r[k]
  <2>1. k + 1 \in 1..n /\ (k + 1) - 1 = k /\ k \in 0..n
    BY <1>2
  <2>2. s \in Stakes(D) /\ x \in States(D) /\ r[k + 1] = DrainFloor(x, s)
    BY <1>1, <1>2, <2>1 DEF FloorRun
  <2>3. Sound(x, need) /\ Names(x.plan) \subseteq Names(st.plan) \cup Names(q)
    BY <1>4
  <2>4. Name(s) \in Names(q)
    BY <2>1 DEF Names
  <2> HIDE DEF s, x
  <2>5. /\ Sound(DrainFloor(x, s), need)
        /\ Names(DrainFloor(x, s).plan) \subseteq Names(x.plan) \cup {Name(s)}
    BY <2>2, <2>3, DrainSound
  <2>6. k + 1 \in 0..n
    BY <2>1
  <2> QED BY <2>2, <2>3, <2>4, <2>5, <2>6
<1>5. n \in T
  <2> HIDE DEF T
  <2>1. \A k \in 0..n : k \in T
    BY <1>2, <1>3, <1>4, UpToByInduction
  <2>2. n \in 0..n
    BY <1>2
  <2> QED BY <2>1, <2>2
<1>6. r[n] = end /\ r[n] \in States(D)
  BY <1>1, <1>2 DEF FloorRun
<1> QED BY <1>5, <1>6 DEF end, q

-----------------------------------------------------------------------------
(* The passes in their order.                                              *)

\* The names of the sources of some kinds.
NamesOfKinds(D, K) == {Name(s) : s \in {t \in D : t.kind \in K}}

LEMMA KindsApart ==
  ASSUME NEW D, NEW K, NEW L, K \cap L = {}
  PROVE  NamesOfKinds(D, K) \cap NamesOfKinds(D, L) = {}
BY DEF NamesOfKinds, Name

LEMMA SpreadSeparate ==
  ASSUME NEW r, NEW q, Separate(q), Spread(r, q, Len(q))
  PROVE  Separate(r)
<1> SUFFICES ASSUME NEW i \in 1..Len(r), NEW j \in 1..Len(r), i # j
             PROVE  Name(r[i]) # Name(r[j])
  BY DEF Separate
<1>1. PICK a \in 1..Len(q), b \in 1..Len(q) : a # b /\ q[a] = r[i] /\ q[b] = r[j]
  BY DEF Spread
<1>2. Name(q[a]) # Name(q[b])
  BY <1>1 DEF Separate
<1> QED BY <1>1, <1>2

\* A list of separate sources of one kind.
Listed(q, D, k) ==
  /\ q \in Seq({s \in D : s.kind = k}) /\ q \in Seq(D) /\ Separate(q)
  /\ Names(q) \subseteq NamesOfKinds(D, {k})

LEMMA ListedIf ==
  ASSUME NEW D, NEW k, NEW q \in Seq(D), Separate(q),
         \A s \in ToSet(q) : s.kind = k
  PROVE  Listed(q, D, k)
<1>1. \A i \in 1..Len(q) : q[i] \in D /\ q[i].kind = k
  BY DEF ToSet
<1>2. Names(q) \subseteq NamesOfKinds(D, {k})
  BY <1>1 DEF Names, NamesOfKinds
<1>3. q \in Seq({s \in D : s.kind = k})
  <2> DEFINE E == {s \in D : s.kind = k}
  <2>1. q \in [1..Len(q) -> E] /\ Len(q) \in Nat
    BY <1>1
  <2> HIDE DEF E
  <2>2. q \in Seq(E)
    BY <2>1
  <2> QED BY <2>2 DEF E
<1> QED BY <1>2, <1>3 DEF Listed

LEMMA OfKindListed ==
  ASSUME NEW D, NEW srcs \in Seq(D), Separate(srcs), NEW k
  PROVE  Listed(OfKind(srcs, k), D, k)
<1> DEFINE q == OfKind(srcs, k)
<1>1. /\ q \in Seq(D) /\ Spread(q, srcs, Len(srcs))
      /\ ToSet(q) = ToSet(srcs) \cap {s \in ToSet(srcs) : s.kind = k}
  BY KeepFacts DEF OfKind
<1>2. \A s \in ToSet(q) : s.kind = k
  BY <1>1
<1> HIDE DEF q
<1>3. Separate(q)
  BY <1>1, SpreadSeparate
<1>4. Listed(q, D, k)
  BY <1>1, <1>2, <1>3, ListedIf
<1> QED BY <1>4 DEF q

LEMMA SortListed ==
  ASSUME NEW D, NEW q, NEW k, Listed(q, D, k), NEW before
  PROVE  Listed(Sort(q, before), D, k)
<1> DEFINE u == Sort(q, before)
           E == {s \in D : s.kind = k}
<1>1. q \in Seq(E) /\ q \in Seq(D) /\ Separate(q)
  BY DEF Listed
<1> HIDE DEF E
<1>2. u \in Seq(E) /\ u \in Seq(D) /\ Spread(u, q, Len(q)) /\ ToSet(u) = ToSet(q)
  BY <1>1, SortFacts
<1> HIDE DEF u
<1>3. \A s \in ToSet(u) : s.kind = k
  <2>1. \A s \in ToSet(u) : s \in E
    BY <1>2 DEF ToSet
  <2> QED BY <2>1 DEF E
<1>4. Separate(u)
  BY <1>1, <1>2, SpreadSeparate
<1>5. Listed(u, D, k)
  BY <1>2, <1>3, <1>4, ListedIf
<1> QED BY <1>5 DEF u

LEMMA OrderedListed ==
  ASSUME NEW D, NEW srcs \in Seq(D), Separate(srcs), NEW prefer
  PROVE  Listed(OrderedDelegations(srcs, prefer), D, "delegation")
<1> DEFINE ds == OfKind(srcs, "delegation")
           P  == {s \in ToSet(ds) : s.gw = prefer}
           R  == {s \in ToSet(ds) : s.gw # prefer}
           p  == Keep(ds, P)
           r  == Keep(ds, R)
           q  == p \o r
<1>1. ds \in Seq(D) /\ Separate(ds) /\ ds \in Seq({s \in D : s.kind = "delegation"})
  BY OfKindListed DEF Listed
<1>2. q = OrderedDelegations(srcs, prefer)
  BY DEF OrderedDelegations
<1> HIDE DEF ds
<1>3. /\ p \in Seq(D) /\ ToSet(p) = ToSet(ds) \cap P /\ Spread(p, ds, Len(ds))
      /\ r \in Seq(D) /\ ToSet(r) = ToSet(ds) \cap R /\ Spread(r, ds, Len(ds))
  <2> HIDE DEF P, R
  <2> QED BY <1>1, KeepFacts
<1>4. Separate(p) /\ Separate(r)
  <2> HIDE DEF p, r
  <2> QED BY <1>1, <1>3, SpreadSeparate
<1>5. \A s \in ToSet(p) : s \in ToSet(ds) /\ s.gw = prefer
  BY <1>3
<1>6. \A s \in ToSet(r) : s \in ToSet(ds) /\ s.gw # prefer
  BY <1>3
<1>7. \A s \in ToSet(ds) : s.kind = "delegation"
  BY <1>1 DEF ToSet
<1> HIDE DEF p, r, P, R
<1>8. /\ q \in Seq(D) /\ Len(q) = Len(p) + Len(r) /\ Len(p) \in Nat /\ Len(r) \in Nat
      /\ \A i \in 1..Len(p) : q[i] = p[i]
      /\ \A i \in 1..Len(r) : q[Len(p) + i] = r[i]
  BY <1>3
<1> HIDE DEF q
<1>9. \A i \in 1..Len(q) :
        \/ i \in 1..Len(p) /\ q[i] = p[i] /\ q[i] \in ToSet(p)
        \/ /\ i - Len(p) \in 1..Len(r) /\ q[i] = r[i - Len(p)]
           /\ q[i] \in ToSet(r) /\ i \notin 1..Len(p)
  <2> SUFFICES ASSUME NEW i \in 1..Len(q)
               PROVE  \/ i \in 1..Len(p) /\ q[i] = p[i] /\ q[i] \in ToSet(p)
                      \/ /\ i - Len(p) \in 1..Len(r) /\ q[i] = r[i - Len(p)]
                         /\ q[i] \in ToSet(r) /\ i \notin 1..Len(p)
    OBVIOUS
  <2>1. CASE i \in 1..Len(p)
    BY <1>3, <1>8, <2>1 DEF ToSet
  <2>2. CASE i \notin 1..Len(p)
    <3>1. i - Len(p) \in 1..Len(r) /\ Len(p) + (i - Len(p)) = i
      BY <1>8, <2>2
    <3>2. q[i] = r[i - Len(p)]
      BY <1>8, <3>1
    <3> QED BY <1>3, <2>2, <3>1, <3>2 DEF ToSet
  <2> QED BY <2>1, <2>2
<1>10. \A s \in ToSet(q) : s.kind = "delegation"
  <2>1. DOMAIN q = 1..Len(q)
    BY <1>8
  <2> QED BY <1>5, <1>6, <1>7, <1>9, <2>1 DEF ToSet
<1>11. Separate(q)
  <2> SUFFICES ASSUME NEW i \in 1..Len(q), NEW j \in 1..Len(q), i # j
               PROVE  Name(q[i]) # Name(q[j])
    BY DEF Separate
  <2>1. CASE i \in 1..Len(p) /\ j \in 1..Len(p)
    BY <1>4, <1>9, <2>1 DEF Separate
  <2>2. CASE i \notin 1..Len(p) /\ j \notin 1..Len(p)
    <3>1. i - Len(p) # j - Len(p)
      BY <1>8
    <3> QED BY <1>4, <1>9, <2>2, <3>1 DEF Separate
  <2>3. CASE i \in 1..Len(p) /\ j \notin 1..Len(p)
    BY <1>5, <1>6, <1>9, <2>3 DEF Name
  <2>4. CASE i \notin 1..Len(p) /\ j \in 1..Len(p)
    BY <1>5, <1>6, <1>9, <2>4 DEF Name
  <2> QED BY <2>1, <2>2, <2>3, <2>4
<1> QED BY <1>2, <1>8, <1>10, <1>11, ListedIf

\* A pass over one kind of source after passes over others.
LEMMA NextPass ==
  ASSUME NEW D, Stocked(D), NEW st \in States(D), NEW need \in Nat,
         Sound(st, need), NEW K, Names(st.plan) \subseteq NamesOfKinds(D, K),
         NEW k, k \notin K, NEW q, Listed(q, D, k), NEW takes
  PROVE  /\ Pass(st, q, takes) \in States(D) /\ Sound(Pass(st, q, takes), need)
         /\ Names(Pass(st, q, takes).plan) \subseteq NamesOfKinds(D, K \cup {k})
<1>1. q \in Seq(D) /\ Separate(q) /\ Names(q) \subseteq NamesOfKinds(D, {k})
  BY DEF Listed
<1>2. Names(q) \cap Names(st.plan) = {}
  <2>1. NamesOfKinds(D, K) \cap NamesOfKinds(D, {k}) = {}
    <3>1. K \cap {k} = {}
      OBVIOUS
    <3> QED BY <3>1, KindsApart
  <2> QED BY <1>1, <2>1
<1>3. /\ Pass(st, q, takes) \in States(D) /\ Sound(Pass(st, q, takes), need)
      /\ Names(Pass(st, q, takes).plan) \subseteq Names(st.plan) \cup Names(q)
  BY <1>1, <1>2, PassSound
<1>4. NamesOfKinds(D, K) \cup NamesOfKinds(D, {k}) \subseteq NamesOfKinds(D, K \cup {k})
  BY DEF NamesOfKinds
<1> QED BY <1>1, <1>3, <1>4

\* For every list of sources that are told apart by their names, every amount,
\* mode, preferred gateway and pair of caps: buildFundingPlan plans exactly
\* what it does not report missing, takes at most what a source has, respects
\* both caps, names no source twice and stays within the kinds of the mode.
THEOREM PlannerSound ==
  ASSUME NEW D, NEW srcs \in Seq(D), Stocked(D), Told(D), Separate(srcs),
         NEW need \in Nat, NEW mode, NEW prefer, NEW asOperator
  PROVE  LET st == BuildFundingPlan(srcs, need, mode, prefer, asOperator)
         IN  /\ st \in States(D) /\ Sound(st, need)
             /\ Names(st.plan) \subseteq NamesOfKinds(D, AllowedKinds(mode, asOperator))
<1> DEFINE ordered == OrderedDelegations(srcs, prefer)
           b == IF mode \in {"balance", "any", "plan"}
                THEN BalancePass(Start(need), srcs) ELSE Start(need)
           v == IF mode = "balance" THEN b ELSE VaultPass(b, srcs)
           e == ExcessPass(v, ordered)
           o == IF asOperator THEN OperatorPass(e, srcs) ELSE e
           f == FloorPass(o, ordered, prefer)
           Kb == IF mode \in {"balance", "any", "plan"} THEN {"balance"} ELSE {}
           Kv == IF mode = "balance" THEN Kb ELSE Kb \cup {"withdrawal"}
           Ke == Kv \cup {"delegation"}
           Ko == IF asOperator THEN Ke \cup {"operatorStake"} ELSE Ke
           Fine(st, K) == /\ st \in States(D) /\ Sound(st, need)
                          /\ Names(st.plan) \subseteq NamesOfKinds(D, K)
<1>1. Fine(b, Kb)
  <2>1. Fine(Start(need), {})
    BY StartSound
  <2>2. CASE mode \in {"balance", "any", "plan"}
    <3>1. b = Pass(Start(need), OfKind(srcs, "balance"), "all")
      BY <2>2 DEF BalancePass
    <3>2. Listed(OfKind(srcs, "balance"), D, "balance")
      BY OfKindListed
    <3>3. {} \cup {"balance"} = Kb /\ "balance" \notin {}
      BY <2>2
    <3> HIDE DEF b, Kb
    <3> QED BY <2>1, <3>1, <3>2, <3>3, NextPass
  <2>3. CASE mode \notin {"balance", "any", "plan"}
    BY <2>1, <2>3
  <2> QED BY <2>2, <2>3
<1>2. Fine(v, Kv)
  <2>1. CASE mode = "balance"
    <3>1. v = b /\ Kv = Kb
      BY <2>1
    <3> HIDE DEF v, b, Kv, Kb
    <3> QED BY <1>1, <3>1
  <2>2. CASE mode # "balance"
    <3>1. /\ v = Pass(b, ByMaturity(OfKind(srcs, "withdrawal")), "all")
          /\ Kv = Kb \cup {"withdrawal"} /\ "withdrawal" \notin Kb
      BY <2>2 DEF VaultPass
    <3>2. Listed(ByMaturity(OfKind(srcs, "withdrawal")), D, "withdrawal")
      <4>1. Listed(OfKind(srcs, "withdrawal"), D, "withdrawal")
        BY OfKindListed
      <4> QED BY <4>1, SortListed DEF ByMaturity
    <3> HIDE DEF v, b, Kv, Kb
    <3> QED BY <1>1, <3>1, <3>2, NextPass
  <2> QED BY <2>1, <2>2
<1>3. Listed(ordered, D, "delegation")
  BY OrderedListed
<1>4. Fine(e, Ke)
  <2>1. e = Pass(v, ordered, "excess") /\ Ke = Kv \cup {"delegation"}
    BY DEF ExcessPass
  <2>2. "delegation" \notin Kv
    OBVIOUS
  <2> HIDE DEF e, v, Kv, Ke, ordered
  <2> QED BY <1>2, <1>3, <2>1, <2>2, NextPass
<1>5. Fine(o, Ko)
  <2>1. CASE asOperator
    <3>1. /\ o = Pass(e, OfKind(srcs, "operatorStake"), "excess")
          /\ Ko = Ke \cup {"operatorStake"}
      BY <2>1 DEF OperatorPass
    <3>2. Listed(OfKind(srcs, "operatorStake"), D, "operatorStake")
      BY OfKindListed
    <3>3. "operatorStake" \notin Ke
      OBVIOUS
    <3> HIDE DEF o, e, Ko, Ke
    <3> QED BY <1>4, <3>1, <3>2, <3>3, NextPass
  <2>2. CASE ~asOperator
    <3>1. o = e /\ Ko = Ke
      BY <2>2
    <3> HIDE DEF o, e, Ko, Ke
    <3> QED BY <1>4, <3>1
  <2> QED BY <2>1, <2>2
<1>6. Fine(f, Ko)
  <2>1. Listed(FloorOrder(ordered, prefer), D, "delegation")
    <3> HIDE DEF ordered
    <3> QED BY <1>3, SortListed DEF FloorOrder
  <2>2. FloorOrder(ordered, prefer) \in Seq(Stakes(D))
    <3> HIDE DEF ordered
    <3> QED BY <2>1 DEF Listed, Stakes
  <2>3. Names(FloorOrder(ordered, prefer)) \subseteq NamesOfKinds(D, Ko)
    <3>1. {"delegation"} \subseteq Ko
      OBVIOUS
    <3> HIDE DEF ordered, Ko
    <3> QED BY <2>1, <3>1 DEF Listed, NamesOfKinds
  <2> HIDE DEF o, ordered, Ko
  <2> QED BY <1>5, <2>2, <2>3, FloorSound
<1>7. BuildFundingPlan(srcs, need, mode, prefer, asOperator)
        = IF mode \in {"balance", "withdrawal"} THEN v ELSE f
  BY DEF BuildFundingPlan
<1>8. CASE mode \in {"balance", "withdrawal"}
  <2>1. Kv \subseteq AllowedKinds(mode, asOperator)
    BY <1>8 DEF AllowedKinds
  <2>2. NamesOfKinds(D, Kv) \subseteq NamesOfKinds(D, AllowedKinds(mode, asOperator))
    <3> HIDE DEF Kv
    <3> QED BY <2>1 DEF NamesOfKinds
  <2> HIDE DEF v, f, Kv
  <2> QED BY <1>2, <1>7, <1>8, <2>2
<1>9. CASE mode \notin {"balance", "withdrawal"}
  <2>1. Ko \subseteq AllowedKinds(mode, asOperator)
    BY <1>9 DEF AllowedKinds
  <2>2. NamesOfKinds(D, Ko) \subseteq NamesOfKinds(D, AllowedKinds(mode, asOperator))
    <3> HIDE DEF Ko
    <3> QED BY <2>1 DEF NamesOfKinds
  <2> HIDE DEF v, f, Ko
  <2> QED BY <1>6, <1>7, <1>9, <2>2
<1> QED BY <1>8, <1>9

-----------------------------------------------------------------------------
(* What a transaction does to withdrawals and token vaults: they are added *)
(* at the end, and what they belong to never changes.                      *)

Grown(s, t) ==
  /\ t \in Seq(Deposit) /\ Len(s) <= Len(t)
  /\ \A i \in 1..Len(s) : t[i].gw = s[i].gw

LEMMA GrownSame ==
  ASSUME NEW s \in Seq(Deposit) PROVE Grown(s, s)
BY DEF Grown

LEMMA GrownOn ==
  ASSUME NEW r \in Seq(Deposit), NEW s \in Seq(Deposit), NEW t,
         Grown(r, s), Grown(s, t)
  PROVE  Grown(r, t)
<1>1. Len(r) \in Nat /\ Len(s) \in Nat /\ Len(t) \in Nat
  BY DEF Grown
<1>2. \A i \in 1..Len(r) : i \in 1..Len(s)
  BY <1>1 DEF Grown
<1> QED BY <1>1, <1>2 DEF Grown

LEMMA AppendOne ==
  ASSUME NEW X, NEW s \in Seq(X), NEW e \in X
  PROVE  s \o <<e>> = Append(s, e)
<1> DEFINE u == s \o <<e>>
           v == Append(s, e)
           n == Len(s)
<1>1. u \in [1..(n + 1) -> X] /\ v \in [1..(n + 1) -> X]
  <2>1. u \in Seq(X) /\ Len(u) = n + 1 /\ v \in Seq(X) /\ Len(v) = n + 1
    OBVIOUS
  <2> HIDE DEF u, v
  <2> QED BY <2>1
<1>2. \A i \in 1..(n + 1) : u[i] = v[i]
  OBVIOUS
<1> HIDE DEF u, v
<1>3. u = v
  BY <1>1, <1>2
<1> QED BY <1>3 DEF u, v

LEMMA GrownByNew ==
  ASSUME NEW s \in Seq(Deposit), NEW amt \in Nat,
         NEW g \in Gateways \union {NoGw}, NEW b \in BOOLEAN
  PROVE  Grown(s, Append(s, New(amt, g, b)))
<1>1. New(amt, g, b) \in Deposit
  BY DEF New, Deposit
<1> QED BY <1>1 DEF Grown

LEMMA GrownByChange ==
  ASSUME NEW s \in Seq(Deposit), NEW i \in 1..Len(s), NEW d \in Deposit,
         d.gw = s[i].gw
  PROVE  Grown(s, [s EXCEPT ![i] = d])
BY DEF Grown

LEMMA GrownByClosing ==
  ASSUME NEW s \in Seq(Deposit), NEW i \in 1..Len(s)
  PROVE  Grown(s, Closed(s, i)) /\ ~Closed(s, i)[i].open /\ s[i].amt \in Nat
<1> DEFINE d == [s[i] EXCEPT !.open = FALSE, !.amt = 0]
<1>1. s[i] \in Deposit
  OBVIOUS
<1>2. d \in Deposit /\ d.gw = s[i].gw /\ ~d.open /\ s[i].amt \in Nat
  BY <1>1 DEF Deposit
<1>3. Closed(s, i) = [s EXCEPT ![i] = d]
  BY DEF Closed
<1> HIDE DEF d
<1>4. Grown(s, Closed(s, i))
  BY <1>2, <1>3, GrownByChange
<1>5. Closed(s, i)[i] = d
  BY <1>3
<1> QED BY <1>2, <1>4, <1>5

\* The holdings a transaction may lead to.
Evolves(x, y) == y \in HoldingsType /\ Grown(x.vaults, y.vaults)

LEMMA EvolvesSame ==
  ASSUME NEW x \in HoldingsType PROVE Evolves(x, x)
<1>1. x.vaults \in Seq(Deposit)
  BY DEF HoldingsType
<1> QED BY <1>1, GrownSame DEF Evolves

LEMMA EvolvesOn ==
  ASSUME NEW x \in HoldingsType, NEW y, NEW z, Evolves(x, y), Evolves(y, z)
  PROVE  Evolves(x, z)
<1>1. x.vaults \in Seq(Deposit) /\ y.vaults \in Seq(Deposit)
  BY DEF HoldingsType, Evolves
<1> QED BY <1>1, GrownOn DEF Evolves

-----------------------------------------------------------------------------
(* The instructions.                                                       *)

StakeIxOK(ix) ==
  /\ ix.t \in StakeIxs
  /\ ix.t \in {"delegate_stake", "redelegate_stake", "decrease_delegate_stake",
               "claim_delegate_from_leaving_gateway",
               "claim_delegate_from_disabled_gateway"} => ix.g \in Gateways
  /\ ix.t = "redelegate_stake" => ix.g2 \in Gateways
  /\ ix.t \in {"delegate_stake", "redelegate_stake", "decrease_delegate_stake",
               "increase_operator_stake", "decrease_operator_stake",
               "join_network"} => ix.amt \in Nat

LEMMA StakeEvolves ==
  ASSUME NEW x \in HoldingsType, NEW ix, StakeIxOK(ix), NEW y \in OnStake(x, ix)
  PROVE  Evolves(x, y)
<1>0. /\ x.liquid \in Nat /\ x.own \in Nat /\ x.stake \in [Gateways -> Nat]
      /\ x.vaults \in Seq(Deposit) /\ Grown(x.vaults, x.vaults)
      /\ MinOperator \in Nat
  BY GrownSame, HoldingsAssumption DEF HoldingsType
<1>1. CASE ix.t = "delegate_stake"
  <2>1. ix.g \in Gateways /\ ix.amt \in Nat
    BY <1>1 DEF StakeIxOK
  <2>2. /\ x.liquid >= ix.amt
        /\ y = [x EXCEPT !.liquid = @ - ix.amt, !.stake[ix.g] = @ + ix.amt]
    BY <1>1 DEF OnStake, When
  <2>3. x.liquid - ix.amt \in Nat /\ [x.stake EXCEPT ![ix.g] = @ + ix.amt] \in [Gateways -> Nat]
    BY <1>0, <2>1, <2>2
  <2>4. y \in HoldingsType /\ y.vaults = x.vaults
    BY <2>2, <2>3 DEF HoldingsType
  <2> QED BY <1>0, <2>4 DEF Evolves
<1>2. CASE ix.t = "redelegate_stake"
  <2>1. ix.g \in Gateways /\ ix.g2 \in Gateways /\ ix.amt \in Nat
    BY <1>2 DEF StakeIxOK
  <2>2. /\ x.stake[ix.g] >= ix.amt
        /\ y = [x EXCEPT !.stake = Moved(@, ix.g, ix.g2, ix.amt)]
    BY <1>2 DEF OnStake, When
  <2> DEFINE f == [x.stake EXCEPT ![ix.g] = @ - ix.amt]
             k == [f EXCEPT ![ix.g2] = @ + ix.amt]
  <2>3. f \in [Gateways -> Nat]
    <3>1. x.stake[ix.g] - ix.amt \in Nat
      BY <1>0, <2>1, <2>2
    <3> QED BY <1>0, <3>1
  <2>4. k \in [Gateways -> Nat]
    <3> HIDE DEF f
    <3> QED BY <2>1, <2>3
  <2>5. y = [x EXCEPT !.stake = k]
    BY <2>2 DEF Moved
  <2> HIDE DEF k
  <2>6. y \in HoldingsType /\ y.vaults = x.vaults
    BY <2>4, <2>5 DEF HoldingsType
  <2> QED BY <1>0, <2>6 DEF Evolves
<1>3. CASE ix.t = "decrease_delegate_stake"
  <2>1. ix.g \in Gateways /\ ix.amt \in Nat
    BY <1>3 DEF StakeIxOK
  <2> DEFINE v == Append(x.vaults, New(ix.amt, ix.g, FALSE))
  <2>2. /\ x.stake[ix.g] >= ix.amt
        /\ y = [x EXCEPT !.stake[ix.g] = @ - ix.amt, !.vaults = v]
    BY <1>3 DEF OnStake, When
  <2>3. Grown(x.vaults, v)
    BY <1>0, <2>1, GrownByNew
  <2>4. x.stake[ix.g] - ix.amt \in Nat
    BY <1>0, <2>1, <2>2
  <2> HIDE DEF v
  <2>5. y \in HoldingsType /\ y.vaults = v
    BY <1>0, <2>1, <2>2, <2>3, <2>4 DEF HoldingsType, Grown
  <2> QED BY <2>3, <2>5 DEF Evolves
<1>4. CASE ix.t \in {"claim_delegate_from_leaving_gateway",
                     "claim_delegate_from_disabled_gateway"}
  <2>1. ix.g \in Gateways
    BY <1>4 DEF StakeIxOK
  <2> DEFINE v == Append(x.vaults, New(x.stake[ix.g], ix.g, FALSE))
  <2>2. y = [x EXCEPT !.stake[ix.g] = 0, !.vaults = v]
    BY <1>4 DEF OnStake, When
  <2>3. Grown(x.vaults, v)
    BY <1>0, <2>1, GrownByNew
  <2> HIDE DEF v
  <2>4. y \in HoldingsType /\ y.vaults = v
    BY <1>0, <2>1, <2>2, <2>3 DEF HoldingsType, Grown
  <2> QED BY <2>3, <2>4 DEF Evolves
<1>5. CASE ix.t = "increase_operator_stake"
  <2>1. ix.amt \in Nat
    BY <1>5 DEF StakeIxOK
  <2>2. /\ x.liquid >= ix.amt
        /\ y = [x EXCEPT !.liquid = @ - ix.amt, !.own = @ + ix.amt]
    BY <1>5 DEF OnStake, When
  <2>3. x.liquid - ix.amt \in Nat /\ x.own + ix.amt \in Nat
    BY <1>0, <2>1, <2>2
  <2>4. y \in HoldingsType /\ y.vaults = x.vaults
    BY <2>2, <2>3 DEF HoldingsType
  <2> QED BY <1>0, <2>4 DEF Evolves
<1>6. CASE ix.t = "decrease_operator_stake"
  <2>1. ix.amt \in Nat
    BY <1>6 DEF StakeIxOK
  <2> DEFINE v == Append(x.vaults, New(ix.amt, NoGw, FALSE))
  <2>2. /\ x.own - ix.amt >= MinOperator
        /\ y = [x EXCEPT !.own = @ - ix.amt, !.vaults = v]
    BY <1>6 DEF OnStake, When
  <2>3. Grown(x.vaults, v)
    BY <1>0, <2>1, GrownByNew
  <2>4. x.own - ix.amt \in Nat
    BY <1>0, <2>1, <2>2
  <2> HIDE DEF v
  <2>5. y \in HoldingsType /\ y.vaults = v
    BY <2>2, <2>3, <2>4 DEF HoldingsType, Grown
  <2> QED BY <2>3, <2>5 DEF Evolves
<1>7. CASE ix.t = "leave_network"
  <2> DEFINE u == x.vaults \o <<New(MinOperator, NoGw, TRUE)>>
             v == u \o (IF x.own > MinOperator
                        THEN <<New(x.own - MinOperator, NoGw, FALSE)>> ELSE <<>>)
  <2>1. y = [x EXCEPT !.joined = FALSE, !.own = 0, !.vaults = v]
    BY <1>7 DEF OnStake, When
  <2>2. u = Append(x.vaults, New(MinOperator, NoGw, TRUE))
    <3>1. New(MinOperator, NoGw, TRUE) \in Deposit
      BY <1>0 DEF New, Deposit
    <3> QED BY <1>0, <3>1, AppendOne
  <2>3. Grown(x.vaults, u)
    BY <1>0, <2>2, GrownByNew
  <2> HIDE DEF u
  <2>4. Grown(u, v)
    <3>1. u \in Seq(Deposit)
      BY <2>3 DEF Grown
    <3>2. CASE x.own > MinOperator
      <4>1. x.own - MinOperator \in Nat
        BY <1>0, <3>2
      <4>2. v = Append(u, New(x.own - MinOperator, NoGw, FALSE))
        <5>1. New(x.own - MinOperator, NoGw, FALSE) \in Deposit
          BY <4>1 DEF New, Deposit
        <5> QED BY <3>1, <3>2, <5>1, AppendOne
      <4> HIDE DEF v
      <4> QED BY <3>1, <4>1, <4>2, GrownByNew
    <3>3. CASE ~(x.own > MinOperator)
      <4>1. v = u
        BY <3>1, <3>3
      <4> QED BY <3>1, <4>1, GrownSame
    <3> QED BY <3>2, <3>3
  <2> HIDE DEF v
  <2>5. Grown(x.vaults, v)
    <3>1. u \in Seq(Deposit)
      BY <2>3 DEF Grown
    <3> QED BY <1>0, <2>3, <2>4, <3>1, GrownOn
  <2>6. y \in HoldingsType /\ y.vaults = v
    BY <2>1, <2>5 DEF HoldingsType, Grown
  <2> QED BY <2>5, <2>6 DEF Evolves
<1>8. CASE ix.t = "join_network"
  <2>1. ix.amt \in Nat
    BY <1>8 DEF StakeIxOK
  <2>2. /\ x.liquid >= ix.amt
        /\ y = [x EXCEPT !.joined = TRUE, !.own = ix.amt, !.liquid = @ - ix.amt]
    BY <1>8 DEF OnStake, When
  <2>3. x.liquid - ix.amt \in Nat
    BY <1>0, <2>1, <2>2
  <2>4. y \in HoldingsType /\ y.vaults = x.vaults
    BY <2>1, <2>2, <2>3 DEF HoldingsType
  <2> QED BY <1>0, <2>4 DEF Evolves
<1> QED BY <1>1, <1>2, <1>3, <1>4, <1>5, <1>6, <1>7, <1>8 DEF StakeIxOK, StakeIxs

WithdrawalIxOK(ix) ==
  /\ ix.t \in WithdrawalIxs
  /\ ix.t = "cancel_withdrawal" => ix.g \in Gateways \union {NoGw}

LEMMA WithdrawalEvolves ==
  ASSUME NEW x \in HoldingsType, NEW ix, WithdrawalIxOK(ix),
         NEW y \in OnWithdrawal(x, ix)
  PROVE  Evolves(x, y) /\ ix.id \in 1..Len(x.vaults) /\ ~y.vaults[ix.id].open
<1>0. /\ x.liquid \in Nat /\ x.own \in Nat /\ x.stake \in [Gateways -> Nat]
      /\ x.vaults \in Seq(Deposit)
  BY DEF HoldingsType
<1> DEFINE v == Closed(x.vaults, ix.id)
           n == x.vaults[ix.id].amt
<1>1. /\ OpenAt(x.vaults, ix.id)
      /\ \/ y = [x EXCEPT !.liquid = @ + n, !.vaults = v]
         \/ y = [x EXCEPT !.own = @ + n, !.vaults = v]
         \/ /\ ix.g \in Gateways
            /\ y = [x EXCEPT !.stake[ix.g] = @ + n, !.vaults = v]
  <2>1. CASE ix.t = "instant_withdrawal"
    BY <2>1 DEF OnWithdrawal, When
  <2>2. CASE ix.t = "claim_withdrawal"
    BY <2>2 DEF OnWithdrawal, When
  <2>3. CASE ix.t = "cancel_withdrawal"
    <3>1. ix.g \in Gateways \union {NoGw}
      BY <2>3 DEF WithdrawalIxOK
    <3> HIDE DEF v, n
    <3>2. CASE ix.g = NoGw
      BY <2>3, <3>2 DEF OnWithdrawal, When, v, n
    <3>3. CASE ix.g # NoGw
      BY <2>3, <3>1, <3>3 DEF OnWithdrawal, When, v, n
    <3> QED BY <3>2, <3>3
  <2> QED BY <2>1, <2>2, <2>3 DEF WithdrawalIxOK, WithdrawalIxs
<1>2. ix.id \in 1..Len(x.vaults)
  BY <1>1 DEF OpenAt
<1>3. Grown(x.vaults, v) /\ ~v[ix.id].open /\ n \in Nat
  BY <1>0, <1>2, GrownByClosing
<1> HIDE DEF v, n
<1>4. y \in HoldingsType /\ y.vaults = v
  <2>1. v \in Seq(Deposit)
    BY <1>3 DEF Grown
  <2>2. x.liquid + n \in Nat /\ x.own + n \in Nat
    BY <1>0, <1>3
  <2>3. CASE y = [x EXCEPT !.liquid = @ + n, !.vaults = v]
    BY <2>1, <2>2, <2>3 DEF HoldingsType
  <2>4. CASE y = [x EXCEPT !.own = @ + n, !.vaults = v]
    BY <2>1, <2>2, <2>4 DEF HoldingsType
  <2>5. CASE ix.g \in Gateways /\ y = [x EXCEPT !.stake[ix.g] = @ + n, !.vaults = v]
    <3>1. x.stake[ix.g] + n \in Nat
      BY <1>0, <1>3, <2>5
    <3> QED BY <1>0, <2>1, <2>5, <3>1 DEF HoldingsType
  <2> QED BY <1>1, <2>3, <2>4, <2>5
<1> QED BY <1>2, <1>3, <1>4 DEF Evolves

TokenIxs == {"create_ata", "create_payee_ata", "transfer", "create_vault", "vaulted_transfer",
             "increase_vault", "extend_vault", "revoke_vault", "release_vault"}
TokenIxOK(ix) ==
  /\ ix.t \in TokenIxs
  /\ ix.t = "create_ata" => ix.id \in Nat \union {NoId}
  /\ ix.t \in {"transfer", "create_vault", "vaulted_transfer", "increase_vault"}
       => ix.amt \in Nat

LEMMA TokensEvolve ==
  ASSUME NEW x \in HoldingsType, NEW ix, TokenIxOK(ix), NEW y \in OnTokens(x, ix)
  PROVE  Evolves(x, y)
<1>0. /\ x.liquid \in Nat /\ x.locks \in Seq(Deposit) /\ x.lockAtas \in SUBSET Nat
      /\ Grown(x.vaults, x.vaults) /\ NoGw \in Gateways \union {NoGw}
  BY GrownSame DEF HoldingsType
<1>1. CASE ix.t = "create_ata"
  <2>1. ix.id \in Nat \union {NoId}
    BY <1>1 DEF TokenIxOK
  <2>2. y = IF ix.id = NoId THEN [x EXCEPT !.hasAta = TRUE]
            ELSE [x EXCEPT !.lockAtas = @ \union {ix.id}]
    BY <1>1 DEF OnTokens
  <2>3. y \in HoldingsType /\ y.vaults = x.vaults
    BY <1>0, <2>1, <2>2 DEF HoldingsType
  <2> QED BY <1>0, <2>3 DEF Evolves
<1>9. CASE ix.t = "create_payee_ata"
  <2>1. y = [x EXCEPT !.payeeAta = TRUE]
    BY <1>9 DEF OnTokens
  <2>2. y \in HoldingsType /\ y.vaults = x.vaults
    BY <2>1 DEF HoldingsType
  <2> QED BY <1>0, <2>2 DEF Evolves
<1>2. CASE ix.t = "transfer"
  <2>1. ix.amt \in Nat
    BY <1>2 DEF TokenIxOK
  <2>2. x.liquid >= ix.amt /\ y = [x EXCEPT !.liquid = @ - ix.amt]
    BY <1>2 DEF OnTokens, When
  <2>3. x.liquid - ix.amt \in Nat
    BY <1>0, <2>1, <2>2
  <2>4. y \in HoldingsType /\ y.vaults = x.vaults
    BY <2>2, <2>3 DEF HoldingsType
  <2> QED BY <1>0, <2>4 DEF Evolves
<1>3. CASE ix.t = "create_vault"
  <2>1. ix.amt \in Nat
    BY <1>3 DEF TokenIxOK
  <2> DEFINE v == Append(x.locks, New(ix.amt, NoGw, TRUE))
  <2>2. x.liquid >= ix.amt /\ y = [x EXCEPT !.liquid = @ - ix.amt, !.locks = v]
    BY <1>3 DEF OnTokens, When
  <2>3. v \in Seq(Deposit) /\ x.liquid - ix.amt \in Nat
    <3>1. Grown(x.locks, v)
      BY <1>0, <2>1, GrownByNew
    <3> HIDE DEF v
    <3> QED BY <1>0, <2>1, <2>2, <3>1 DEF Grown
  <2> HIDE DEF v
  <2>4. y \in HoldingsType /\ y.vaults = x.vaults
    BY <2>2, <2>3 DEF HoldingsType
  <2> QED BY <1>0, <2>4 DEF Evolves
<1>4. CASE ix.t = "vaulted_transfer"
  <2>1. ix.amt \in Nat
    BY <1>4 DEF TokenIxOK
  <2> DEFINE v == Append(x.locks, New(ix.amt, NoGw, FALSE))
  <2>2. y = [x EXCEPT !.locks = v]
    BY <1>4 DEF OnTokens, When
  <2>3. v \in Seq(Deposit)
    BY <1>0, <2>1, GrownByNew DEF Grown
  <2> HIDE DEF v
  <2>4. y \in HoldingsType /\ y.vaults = x.vaults
    BY <2>2, <2>3 DEF HoldingsType
  <2> QED BY <1>0, <2>4 DEF Evolves
<1>5. CASE ix.t = "increase_vault"
  <2>1. ix.amt \in Nat
    BY <1>5 DEF TokenIxOK
  <2>2. /\ x.liquid >= ix.amt /\ OpenAt(x.locks, ix.id)
        /\ y = [x EXCEPT !.liquid = @ - ix.amt, !.locks[ix.id].amt = @ + ix.amt]
    BY <1>5 DEF OnTokens, When
  <2> DEFINE d == [x.locks[ix.id] EXCEPT !.amt = @ + ix.amt]
             v == [x.locks EXCEPT ![ix.id] = d]
  <2>3. ix.id \in 1..Len(x.locks) /\ x.locks[ix.id] \in Deposit
    BY <1>0, <2>2 DEF OpenAt
  <2>4. d \in Deposit /\ d.gw = x.locks[ix.id].gw
    <3>1. x.locks[ix.id].amt + ix.amt \in Nat
      BY <2>1, <2>3 DEF Deposit
    <3> QED BY <2>3, <3>1 DEF Deposit
  <2>5. y = [x EXCEPT !.liquid = @ - ix.amt, !.locks = v]
    BY <2>2
  <2> HIDE DEF d
  <2>6. v \in Seq(Deposit) /\ x.liquid - ix.amt \in Nat
    <3>1. Grown(x.locks, v)
      BY <1>0, <2>3, <2>4, GrownByChange
    <3> HIDE DEF v
    <3> QED BY <1>0, <2>1, <2>2, <3>1 DEF Grown
  <2> HIDE DEF v
  <2>7. y \in HoldingsType /\ y.vaults = x.vaults
    BY <2>5, <2>6 DEF HoldingsType
  <2> QED BY <1>0, <2>7 DEF Evolves
<1>6. CASE ix.t = "extend_vault"
  <2>1. OpenAt(x.locks, ix.id) /\ y = [x EXCEPT !.locks[ix.id].matured = FALSE]
    BY <1>6 DEF OnTokens, When
  <2> DEFINE d == [x.locks[ix.id] EXCEPT !.matured = FALSE]
             v == [x.locks EXCEPT ![ix.id] = d]
  <2>2. ix.id \in 1..Len(x.locks) /\ x.locks[ix.id] \in Deposit
    BY <1>0, <2>1 DEF OpenAt
  <2>3. d \in Deposit /\ d.gw = x.locks[ix.id].gw
    BY <2>2 DEF Deposit
  <2>4. y = [x EXCEPT !.locks = v]
    BY <2>1
  <2> HIDE DEF d
  <2>5. v \in Seq(Deposit)
    BY <1>0, <2>2, <2>3, GrownByChange DEF Grown
  <2> HIDE DEF v
  <2>6. y \in HoldingsType /\ y.vaults = x.vaults
    BY <2>4, <2>5 DEF HoldingsType
  <2> QED BY <1>0, <2>6 DEF Evolves
<1>7. CASE ix.t \in {"revoke_vault", "release_vault"}
  <2> DEFINE v == Closed(x.locks, ix.id)
             n == x.locks[ix.id].amt
  <2>1. /\ OpenAt(x.locks, ix.id)
        /\ \/ y = [x EXCEPT !.locks = v]
           \/ y = [x EXCEPT !.liquid = @ + n, !.locks = v]
    BY <1>7 DEF OnTokens, When
  <2>2. v \in Seq(Deposit) /\ n \in Nat
    BY <1>0, <2>1, GrownByClosing DEF OpenAt, Grown
  <2> HIDE DEF v, n
  <2>3. y \in HoldingsType /\ y.vaults = x.vaults
    <3>1. x.liquid + n \in Nat
      BY <1>0, <2>2
    <3>2. CASE y = [x EXCEPT !.locks = v]
      BY <2>2, <3>2 DEF HoldingsType
    <3>3. CASE y = [x EXCEPT !.liquid = @ + n, !.locks = v]
      BY <2>2, <3>1, <3>3 DEF HoldingsType
    <3> QED BY <2>1, <3>2, <3>3
  <2> QED BY <1>0, <2>3 DEF Evolves
<1> QED BY <1>1, <1>2, <1>3, <1>4, <1>5, <1>6, <1>7, <1>9 DEF TokenIxOK, TokenIxs

-----------------------------------------------------------------------------
(* Payments.                                                               *)

SourceKinds == {"balance", "delegation", "operatorStake", "withdrawal"}

\* What a payment may lead to; free tells that the liquid balance is not
\* among its sources.
Debited(x, free) ==
  {y \in HoldingsType : Grown(x.vaults, y.vaults) /\ (free => y.liquid = x.liquid)}

LEMMA DebitType ==
  ASSUME NEW x \in HoldingsType, NEW s, s.kind \in SourceKinds, NEW amt \in Nat,
         NEW y \in Debit(x, s, amt)
  PROVE  y \in Debited(x, s.kind # "balance")
<1>0. /\ x.liquid \in Nat /\ x.own \in Nat /\ x.stake \in [Gateways -> Nat]
      /\ x.vaults \in Seq(Deposit) /\ Grown(x.vaults, x.vaults)
      /\ MinOperator \in Nat
  BY GrownSame, HoldingsAssumption DEF HoldingsType
<1>1. CASE s.kind = "balance"
  <2>1. x.liquid >= amt /\ y = [x EXCEPT !.liquid = @ - amt]
    BY <1>1 DEF Debit, When
  <2>2. x.liquid - amt \in Nat
    BY <1>0, <2>1
  <2>3. y \in HoldingsType /\ y.vaults = x.vaults
    BY <2>1, <2>2 DEF HoldingsType
  <2> QED BY <1>0, <1>1, <2>3 DEF Debited
<1>2. CASE s.kind = "delegation"
  <2>1. /\ s.gw \in Gateways /\ x.stake[s.gw] >= amt
        /\ y = [x EXCEPT !.stake[s.gw] = @ - amt]
    BY <1>2 DEF Debit, When
  <2>2. x.stake[s.gw] - amt \in Nat
    BY <1>0, <2>1
  <2>3. y \in HoldingsType /\ y.vaults = x.vaults /\ y.liquid = x.liquid
    BY <1>0, <2>1, <2>2 DEF HoldingsType
  <2> QED BY <1>0, <2>3 DEF Debited
<1>3. CASE s.kind = "operatorStake"
  <2>1. x.own - amt >= MinOperator /\ y = [x EXCEPT !.own = @ - amt]
    BY <1>3 DEF Debit, When
  <2>2. x.own - amt \in Nat
    BY <1>0, <2>1
  <2>3. y \in HoldingsType /\ y.vaults = x.vaults /\ y.liquid = x.liquid
    BY <2>1, <2>2 DEF HoldingsType
  <2> QED BY <1>0, <2>3 DEF Debited
<1>4. CASE s.kind = "withdrawal"
  <2>1. /\ OpenAt(x.vaults, s.id) /\ x.vaults[s.id].amt >= amt
        /\ y = [x EXCEPT !.vaults[s.id].amt = @ - amt]
    BY <1>4 DEF Debit, When
  <2> DEFINE d == [x.vaults[s.id] EXCEPT !.amt = @ - amt]
             v == [x.vaults EXCEPT ![s.id] = d]
  <2>2. s.id \in 1..Len(x.vaults) /\ x.vaults[s.id] \in Deposit
    BY <1>0, <2>1 DEF OpenAt
  <2>3. d \in Deposit /\ d.gw = x.vaults[s.id].gw
    <3>1. x.vaults[s.id].amt - amt \in Nat
      BY <2>1, <2>2 DEF Deposit
    <3> QED BY <2>2, <3>1 DEF Deposit
  <2>4. y = [x EXCEPT !.vaults = v]
    BY <2>1
  <2> HIDE DEF d
  <2>5. Grown(x.vaults, v)
    BY <1>0, <2>2, <2>3, GrownByChange
  <2> HIDE DEF v
  <2>6. y \in HoldingsType /\ y.vaults = v /\ y.liquid = x.liquid
    BY <2>4, <2>5 DEF HoldingsType, Grown
  <2> QED BY <2>5, <2>6 DEF Debited
<1> QED BY <1>1, <1>2, <1>3, <1>4 DEF SourceKinds

LEMMA DebitedOn ==
  ASSUME NEW x \in HoldingsType, NEW free, NEW y \in Debited(x, free),
         NEW more, free => more, NEW z \in Debited(y, more)
  PROVE  z \in Debited(x, free)
<1>1. /\ x.vaults \in Seq(Deposit) /\ y.vaults \in Seq(Deposit)
      /\ Grown(x.vaults, y.vaults) /\ Grown(y.vaults, z.vaults)
  BY DEF HoldingsType, Debited
<1>2. Grown(x.vaults, z.vaults)
  BY <1>1, GrownOn
<1> QED BY <1>2 DEF Debited

PlanOK(sources) ==
  /\ sources \in Seq(ToSet(sources))
  /\ \A s \in ToSet(sources) : /\ s.kind \in SourceKinds /\ s.amount \in Nat
                               /\ s.kind = "delegation" => s.gw \in Gateways

\* A plan is paid from its sources one after the other.
LEMMA DebitAllType ==
  ASSUME NEW x \in HoldingsType, NEW q, PlanOK(q), NEW free,
         free => \A s \in ToSet(q) : s.kind # "balance"
  PROVE  DebitAll(x, q) \subseteq Debited(x, free)
<1> DEFINE n == Len(q)
           V == SUBSET Debited(x, free)
           base == {x}
           G == [p \in V \X (1..n) |-> UNION {Debit(y, q[p[2]], q[p[2]].amount) : y \in p[1]}]
           it == CHOOSE f : f = [s \in SUBSET DOMAIN q |->
                   IF s = {} THEN base
                   ELSE LET m == Max(s) IN UNION {Debit(y, q[m], q[m].amount) : y \in f[s \ {m}]}]
<1>1. n \in Nat /\ DOMAIN q = 1..n /\ \A i \in 1..n : q[i] \in ToSet(q)
  BY DEF PlanOK
<1>2. G \in [V \X (1..n) -> V] /\ base \in V
  <2>1. \A u \in V, i \in 1..n : UNION {Debit(y, q[i], q[i].amount) : y \in u} \in V
    <3> SUFFICES ASSUME NEW u \in V, NEW i \in 1..n, NEW y \in u,
                        NEW z \in Debit(y, q[i], q[i].amount)
                 PROVE  z \in Debited(x, free)
      OBVIOUS
    <3> DEFINE s == q[i]
    <3>1. s \in ToSet(q) /\ s.kind \in SourceKinds /\ s.amount \in Nat
      BY <1>1 DEF PlanOK
    <3>2. y \in Debited(x, free) /\ y \in HoldingsType
      BY DEF Debited
    <3> HIDE DEF s
    <3>3. z \in Debited(y, s.kind # "balance")
      BY <3>1, <3>2, DebitType DEF s
    <3>4. free => s.kind # "balance"
      BY <3>1
    <3> QED BY <3>2, <3>3, <3>4, DebitedOn
  <2>2. base \in V
    <3>1. x.vaults \in Seq(Deposit)
      BY DEF HoldingsType
    <3> QED BY <3>1, GrownSame DEF Debited
  <2> QED BY <2>1, <2>2
<1>3. PICK f \in [SUBSET (1..n) -> V] : FoldsLeft(f, n, base, G)
  <2> HIDE DEF V, G, n, base
  <2> QED BY <1>1, <1>2, FoldLeftExists
<1>4. f = [s \in SUBSET DOMAIN q |->
             IF s = {} THEN base
             ELSE LET m == Max(s) IN UNION {Debit(y, q[m], q[m].amount) : y \in f[s \ {m}]}]
  <2>1. \A s \in SUBSET (1..n) : s # {} => Max(s) \in 1..n
    BY <1>1, MaxOfPositions
  <2>2. \A s \in SUBSET (1..n) :
          s # {} => G[<<f[s \ {Max(s)}], Max(s)>>]
                      = UNION {Debit(y, q[Max(s)], q[Max(s)].amount) : y \in f[s \ {Max(s)}]}
    BY <2>1
  <2> HIDE DEF G, V, n, base
  <2> QED BY <1>1, <1>3, <2>2 DEF FoldsLeft
<1>5. it = [s \in SUBSET DOMAIN q |->
              IF s = {} THEN base
              ELSE LET m == Max(s) IN UNION {Debit(y, q[m], q[m].amount) : y \in it[s \ {m}]}]
  <2> HIDE DEF base
  <2> QED BY <1>4
<1>6. Unfolds(it, n, V, base, G)
  <2>1. \A s \in SUBSET (1..n) : s # {} => Max(s) \in 1..n
    BY <1>1, MaxOfPositions
  <2>2. \A s \in SUBSET (1..n) :
          s # {} /\ it[s \ {Max(s)}] \in V
            => G[<<it[s \ {Max(s)}], Max(s)>>]
               = UNION {Debit(y, q[Max(s)], q[Max(s)].amount) : y \in it[s \ {Max(s)}]}
    <3> HIDE DEF it, V
    <3> QED BY <2>1
  <2> HIDE DEF it, base, G, V
  <2> QED BY <1>1, <1>5, <2>1, <2>2 DEF Unfolds
<1>7. /\ it[1..0] = base /\ \A k \in 0..n : it[1..k] \in V
      /\ \A k \in 1..n : it[1..k] = G[<<it[1..(k - 1)], k>>]
  <2>1. n \in Nat /\ base \in V /\ G \in [V \X (1..n) -> V]
    BY <1>1, <1>2
  <2> HIDE DEF it, G, V, n, base
  <2>2. Runs(it, n, V, base, G)
    BY ONLY <1>6, <2>1, FoldRuns
  <2> QED BY ONLY <2>2 DEF Runs
<1>8. DebitAll(x, q) = it[1..n]
  BY <1>1 DEF DebitAll, FoldLeft, MapThenFoldSet
<1> HIDE DEF it
<1> QED BY <1>1, <1>7, <1>8

\* What is left of a stake below its floor becomes a withdrawal.
LEMMA ToVaultType ==
  ASSUME NEW x \in HoldingsType, NEW g \in Gateways
  PROVE  ToVault(x, g) \in Debited(x, TRUE)
<1> DEFINE v == Append(x.vaults, New(x.stake[g], g, FALSE))
           y == ToVault(x, g)
<1>1. x.vaults \in Seq(Deposit) /\ x.stake \in [Gateways -> Nat]
  BY DEF HoldingsType
<1>2. Grown(x.vaults, v)
  BY <1>1, GrownByNew
<1>3. y = [x EXCEPT !.vaults = v, !.stake[g] = 0]
  BY DEF ToVault
<1> HIDE DEF v, y
<1>4. y \in HoldingsType /\ y.vaults = v /\ y.liquid = x.liquid
  BY <1>1, <1>2, <1>3 DEF HoldingsType, Grown
<1> QED BY <1>2, <1>4 DEF Debited, y

LEMMA VaultedType ==
  ASSUME NEW x \in HoldingsType, NEW gs \in SUBSET Gateways
  PROVE  Vaulted(x, gs) \in Debited(x, TRUE)
<1> DEFINE V == Debited(x, TRUE)
           c == [s \in SUBSET gs |-> CHOOSE g \in s : TRUE]
           d == [s \in (SUBSET gs) \ {{}} |-> c[s]]
           G == [p \in V \X gs |-> ToVault(p[1], p[2])]
           it == CHOOSE f : f = [s \in SUBSET gs |->
                   IF s = {} THEN x
                   ELSE LET g == CHOOSE a \in s : TRUE IN ToVault(f[s \ {g}], g)]
<1>1. IsFiniteSet(gs) /\ \A s \in SUBSET gs : s # {} => c[s] \in s
  BY HoldingsAssumption, FS_Subset
<1>2. G \in [V \X gs -> V] /\ x \in V
  <2>1. ASSUME NEW y \in V, NEW g \in gs PROVE ToVault(y, g) \in V
    <3>1. y \in HoldingsType
      BY DEF Debited
    <3>2. ToVault(y, g) \in Debited(y, TRUE)
      BY <3>1, ToVaultType
    <3> QED BY <3>2, DebitedOn
  <2>2. x \in V
    <3>1. x.vaults \in Seq(Deposit)
      BY DEF HoldingsType
    <3> QED BY <3>1, GrownSame DEF Debited
  <2> QED BY <2>1, <2>2
<1>3. PICK f \in [SUBSET gs -> V] : Folds(f, gs, x, G, d)
  <2>1. d \in [(SUBSET gs) \ {{}} -> gs] /\ \A s \in (SUBSET gs) \ {{}} : d[s] \in s
    <3> HIDE DEF c
    <3> QED BY <1>1
  <2>2. IsFiniteSet(gs) /\ x \in V /\ G \in [V \X gs -> V]
    BY <1>1, <1>2
  <2> HIDE DEF V, G, c, d, it
  <2> QED BY ONLY <2>1, <2>2, FoldExists
<1>4. f = [s \in SUBSET gs |->
             IF s = {} THEN x
             ELSE LET g == CHOOSE a \in s : TRUE IN ToVault(f[s \ {g}], g)]
  <2>1. \A s \in SUBSET gs :
          s # {} => G[<<f[s \ {c[s]}], c[s]>>] = ToVault(f[s \ {c[s]}], c[s])
    <3>1. \A s \in SUBSET gs : s # {} => f[s \ {c[s]}] \in V /\ c[s] \in gs
      <4> HIDE DEF c, V
      <4> QED BY <1>1
    <3> HIDE DEF V, c
    <3> QED BY <3>1
  <2>2. \A s \in SUBSET gs : c[s] = CHOOSE a \in s : TRUE
    OBVIOUS
  <2>3. \A s \in SUBSET gs : s # {} => d[s] = c[s]
    <3> HIDE DEF c
    <3> QED OBVIOUS
  <2>4. \A s \in SUBSET gs : f[s] = IF s = {} THEN x ELSE ToVault(f[s \ {c[s]}], c[s])
    <3> HIDE DEF G, V, c, d, it
    <3> QED BY <1>3, <2>1, <2>3 DEF Folds
  <2>5. f = [s \in SUBSET gs |-> f[s]]
    <3> HIDE DEF V, G, d, it
    <3> QED BY <1>3
  <2> HIDE DEF G, V, c, d, it
  <2> QED BY ONLY <2>2, <2>4, <2>5
<1>5. it = [s \in SUBSET gs |->
              IF s = {} THEN x
              ELSE LET g == CHOOSE a \in s : TRUE IN ToVault(it[s \ {g}], g)]
  BY <1>4
<1>6. UnfoldsSet(it, gs, V, x, G, c)
  <2>1. \A s \in SUBSET gs :
          s # {} /\ it[s \ {c[s]}] \in V
            => G[<<it[s \ {c[s]}], c[s]>>] = ToVault(it[s \ {c[s]}], c[s])
    <3> HIDE DEF it, V, c
    <3> QED BY <1>1
  <2>2. \A s \in SUBSET gs : c[s] = CHOOSE a \in s : TRUE
    OBVIOUS
  <2> HIDE DEF it, G, V, c
  <2> QED BY <1>5, <2>1, <2>2 DEF UnfoldsSet
<1>7. it[gs] \in V
  <2> HIDE DEF it, G, V, c
  <2> QED BY <1>1, <1>2, <1>6, SetFoldStays
<1>8. Vaulted(x, gs) = it[gs]
  BY DEF Vaulted, FoldSet, MapThenFoldSet
<1> HIDE DEF it
<1> QED BY <1>7, <1>8

LEMMA BelowFloorType ==
  ASSUME NEW x, NEW q, PlanOK(q)
  PROVE  BelowFloor(x, q) \in SUBSET Gateways
<1> DEFINE S == {s \in ToSet(q) : s.kind = "delegation"}
<1>1. q \in Seq(ToSet(q)) /\ \A s \in S : s.gw \in Gateways
  BY DEF PlanOK
<1>2. ToSet(OfKind(q, "delegation")) \subseteq S
  <2>1. ToSet(Keep(q, S)) = ToSet(q) \cap S
    BY <1>1, KeepFacts
  <2> QED BY <2>1 DEF OfKind
<1> HIDE DEF S
<1>3. \A s \in ToSet(OfKind(q, "delegation")) : s.gw \in Gateways
  BY <1>1, <1>2
<1> QED BY <1>3 DEF BelowFloor, PlanGateways

\* A payment; free tells that it is not to touch the liquid balance.
PaymentIxOK(ix, free) ==
  /\ ix.t \in PaymentIxs
  /\ ix.t = "pay_single" => /\ ix.source.kind \in SourceKinds
                            /\ free => ix.source.kind # "balance"
  /\ ix.t = "pay_plan" => /\ PlanOK(ix.sources)
                          /\ free => \A s \in ToSet(ix.sources) : s.kind # "balance"

Share(x, ix) == IF ix.returned THEN x.premium ELSE 0

LEMMA PaymentEvolves ==
  ASSUME NEW x \in HoldingsType, NEW ix, NEW free, PaymentIxOK(ix, free),
         NEW y \in OnPayment(x, ix)
  PROVE  Evolves(x, y) /\ (free => x.liquid - y.liquid = Share(x, ix))
<1> DEFINE share == Share(x, ix)
           w == [x EXCEPT !.liquid = @ - share, !.paid = @ + x.price + share]
<1>1. /\ x.liquid \in Nat /\ x.premium \in Nat /\ x.paid \in Nat /\ x.price \in Nat
      /\ share \in Nat
  <2>1. /\ x.liquid \in Nat /\ x.premium \in Nat /\ x.paid \in Nat /\ x.price \in Nat
    BY HoldingsAssumption DEF HoldingsType
  <2> QED BY <2>1 DEF Share
<1>2. /\ x.liquid >= share
      /\ \/ ix.t = "pay_single" /\ y \in Debit(w, ix.source, x.price)
         \/ /\ ix.t = "pay_plan"
            /\ \E z \in DebitAll(w, ix.sources) : y = Vaulted(z, BelowFloor(z, ix.sources))
  <2>1. x.liquid >= share
    BY <1>1 DEF OnPayment, Share
  <2>2. CASE ix.t = "pay_single"
    <3>1. y \in Debit(w, ix.source, x.price)
      BY <2>1, <2>2 DEF OnPayment, Share
    <3> QED BY <2>1, <2>2, <3>1
  <2>3. CASE ix.t = "pay_plan"
    <3>1. \E z \in DebitAll(w, ix.sources) : y = Vaulted(z, BelowFloor(z, ix.sources))
      BY <2>1, <2>3 DEF OnPayment, Share
    <3> QED BY <2>1, <2>3, <3>1
  <2> QED BY <2>2, <2>3 DEF PaymentIxOK, PaymentIxs
<1>3. w \in HoldingsType /\ w.vaults = x.vaults /\ w.liquid = x.liquid - share
  <2> HIDE DEF share
  <2>1. x.liquid - share \in Nat /\ x.paid + x.price + share \in Nat
    BY <1>2, <1>1
  <2> QED BY <2>1 DEF HoldingsType
<1> HIDE DEF w
<1>4. y \in Debited(w, free)
  <2>1. CASE ix.t = "pay_single" /\ y \in Debit(w, ix.source, x.price)
    <3> DEFINE s == ix.source
    <3>1. s.kind \in SourceKinds /\ (free => s.kind # "balance")
      BY <2>1 DEF PaymentIxOK
    <3> HIDE DEF s
    <3>2. y \in Debited(w, s.kind # "balance")
      BY <1>1, <1>3, <2>1, <3>1, DebitType DEF s
    <3> QED BY <3>1, <3>2 DEF Debited
  <2>2. CASE ix.t = "pay_plan"
    <3> DEFINE q == ix.sources
    <3>1. PlanOK(q) /\ (free => \A s \in ToSet(q) : s.kind # "balance")
      BY <2>2 DEF PaymentIxOK
    <3>2. PICK z \in DebitAll(w, q) : y = Vaulted(z, BelowFloor(z, q))
      BY <1>2, <2>2
    <3> HIDE DEF q
    <3>3. DebitAll(w, q) \subseteq Debited(w, free)
      BY <1>3, <3>1, DebitAllType
    <3>4. z \in Debited(w, free) /\ z \in HoldingsType
      BY <3>3 DEF Debited
    <3>5. y \in Debited(z, TRUE)
      BY <3>1, <3>2, <3>4, BelowFloorType, VaultedType
    <3> QED BY <1>3, <3>4, <3>5, DebitedOn
  <2> QED BY <1>2, <2>1, <2>2
<1>5. Evolves(x, y) /\ (free => y.liquid = x.liquid - share)
  BY <1>3, <1>4 DEF Debited, Evolves
<1>6. free => x.liquid - y.liquid = share
  <2> HIDE DEF share
  <2> QED BY <1>1, <1>5
<1> QED BY <1>5, <1>6

\* A transaction: one instruction or two, of the three families.
IxOK(ix) == StakeIxOK(ix) \/ WithdrawalIxOK(ix) \/ TokenIxOK(ix) \/ PaymentIxOK(ix, FALSE)
TxOK(tx) == Len(tx) \in {1, 2} /\ \A i \in 1..Len(tx) : IxOK(tx[i])

LEMMA FamiliesApart ==
  /\ StakeIxs \cap WithdrawalIxs = {} /\ StakeIxs \cap PaymentIxs = {}
  /\ WithdrawalIxs \cap PaymentIxs = {}
  /\ TokenIxs \cap (StakeIxs \cup WithdrawalIxs \cup PaymentIxs) = {}
BY DEF StakeIxs, WithdrawalIxs, PaymentIxs, TokenIxs

LEMMA InstructionEvolves ==
  ASSUME NEW x \in HoldingsType, NEW ix, IxOK(ix), NEW y \in OnInstruction(x, ix)
  PROVE  Evolves(x, y)
<1>1. CASE StakeIxOK(ix)
  <2>1. OnInstruction(x, ix) = OnStake(x, ix)
    BY <1>1 DEF OnInstruction, StakeIxOK
  <2> QED BY <1>1, <2>1, StakeEvolves
<1>2. CASE WithdrawalIxOK(ix)
  <2>1. OnInstruction(x, ix) = OnWithdrawal(x, ix)
    BY <1>2, FamiliesApart DEF OnInstruction, WithdrawalIxOK
  <2> QED BY <1>2, <2>1, WithdrawalEvolves
<1>3. CASE TokenIxOK(ix)
  <2>1. OnInstruction(x, ix) = OnTokens(x, ix)
    BY <1>3, FamiliesApart DEF OnInstruction, TokenIxOK
  <2> QED BY <1>3, <2>1, TokensEvolve
<1>4. CASE PaymentIxOK(ix, FALSE)
  <2>1. OnInstruction(x, ix) = OnPayment(x, ix)
    BY <1>4, FamiliesApart DEF OnInstruction, PaymentIxOK
  <2> QED BY <1>4, <2>1, PaymentEvolves
<1> QED BY <1>1, <1>2, <1>3, <1>4 DEF IxOK

LEMMA ExecuteEvolves ==
  ASSUME NEW x \in HoldingsType, NEW tx, TxOK(tx), NEW y \in Execute(x, tx)
  PROVE  Evolves(x, y)
<1>1. PICK z \in OnInstruction(x, tx[1]) :
        y \in IF Len(tx) = 1 THEN {z} ELSE OnInstruction(z, tx[2])
  BY DEF Execute
<1> DEFINE ix == tx[1]
<1>2. IxOK(ix) /\ (Len(tx) # 1 => IxOK(tx[2]))
  BY DEF TxOK
<1> HIDE DEF ix
<1>3. Evolves(x, z)
  BY <1>1, <1>2, InstructionEvolves DEF ix
<1>4. CASE Len(tx) = 1
  BY <1>1, <1>3, <1>4
<1>5. CASE Len(tx) # 1
  <2> DEFINE jx == tx[2]
  <2>1. IxOK(jx) /\ y \in OnInstruction(z, jx)
    BY <1>1, <1>2, <1>5
  <2> HIDE DEF jx
  <2>2. Evolves(z, y)
    BY <1>3, <2>1, InstructionEvolves DEF Evolves
  <2> QED BY <1>3, <2>2, EvolvesOn
<1> QED BY <1>4, <1>5

-----------------------------------------------------------------------------
(* The transactions of the calls that stake, withdraw and lock.            *)

LEMMA OneIx ==
  ASSUME NEW ix, IxOK(ix) PROVE TxOK(<<ix>>)
BY DEF TxOK

LEMMA TwoIxs ==
  ASSUME NEW ix, IxOK(ix), NEW jx, IxOK(jx) PROVE TxOK(<<ix, jx>>)
BY DEF TxOK

\* The first transaction of a decrease, which names the withdrawal it creates.
DecreaseTx(p, id) == <<[t |-> "decrease_delegate_stake", g |-> p.g, amt |-> p.amt,
                        id |-> id]>>

RequestOK(p, tx) ==
  /\ TxOK(tx) /\ p.op \notin Kinds
  /\ p.op = "decreaseDelegateStake" => /\ p.g \in Gateways
                                       /\ \E id \in Nat : tx = DecreaseTx(p, id)

LEMMA RequestTx ==
  ASSUME h \in HoldingsType, NEW p \in Requests
  PROVE  RequestOK(p, TxOf(p))
<1>0. /\ \A a \in Amounts : a \in Nat
      /\ Len(h.vaults) \in Nat /\ Len(h.locks) \in Nat
      /\ NextId(h.vaults) \in Nat /\ NextId(h.locks) \in Nat
  <2>1. h.vaults \in Seq(Deposit) /\ h.locks \in Seq(Deposit)
    BY DEF HoldingsType
  <2> QED BY <2>1, AmountsAssumption DEF NextId
<1>a. IxOK(CreateAta(NoId)) /\ IxOK(CreateAta(NextId(h.locks)))
  BY <1>0 DEF IxOK, TokenIxOK, TokenIxs, CreateAta
<1> USE DEF RequestOK, Kinds, TxOf, Locking, LockChanging, Membership, Delegating,
        Operating, Withdrawing, Claiming
<1>1. CASE p \in [op : {"transfer", "joinNetwork", "createVault", "vaultedTransfer"}
                         \union Operating, amt : Amounts]
  <2>0. p.amt \in Nat
    BY <1>0, <1>1
  <2>1. CASE p.op = "transfer"
    <3>1. IxOK([t |-> "create_payee_ata"])
      BY DEF IxOK, TokenIxOK, TokenIxs
    <3>2. IxOK([t |-> "transfer", amt |-> p.amt])
      BY <2>0 DEF IxOK, TokenIxOK, TokenIxs
    <3>3. TxOf(p) = <<[t |-> "create_payee_ata"], [t |-> "transfer", amt |-> p.amt]>>
      BY <2>1 DEF TransferTx
    <3> QED BY <2>1, <3>1, <3>2, <3>3, TwoIxs
  <2>2. CASE p.op = "joinNetwork"
    <3>1. TxOf(p) = <<[t |-> "join_network", amt |-> p.amt]>>
      BY <2>2 DEF MembershipTx
    <3> QED BY <2>0, <2>2, <3>1, OneIx DEF IxOK, StakeIxOK, StakeIxs
  <2>3. CASE p.op \in Locking
    <3> DEFINE ix == [t |-> IF p.op = "createVault" THEN "create_vault"
                            ELSE "vaulted_transfer",
                      id |-> NextId(h.locks), amt |-> p.amt]
    <3>1. TxOf(p) = <<CreateAta(NextId(h.locks)), ix>>
      BY <2>3 DEF NewLockTx
    <3>2. IxOK(ix)
      BY <2>0, <2>3 DEF IxOK, TokenIxOK, TokenIxs
    <3> HIDE DEF ix
    <3> QED BY <1>a, <2>3, <3>1, <3>2, TwoIxs
  <2>4. CASE p.op \in Operating
    <3>1. TxOf(p) = ChangeStakeTx(p) /\ p.op \in {"increaseOperatorStake", "decreaseOperatorStake"}
      BY <2>4
    <3> QED BY <1>0, <2>0, <3>1, OneIx DEF ChangeStakeTx, IxOK, StakeIxOK, StakeIxs
  <2> QED BY <1>1, <2>1, <2>2, <2>3, <2>4
<1>2. CASE p \in [op : {"leaveNetwork"}]
  <2>1. TxOf(p) = <<[t |-> "leave_network", id |-> NextId(h.vaults),
                     id2 |-> NextId(h.vaults) + 1]>>
    BY <1>2 DEF MembershipTx
  <2> QED BY <1>2, <2>1, OneIx DEF IxOK, StakeIxOK, StakeIxs
<1>3. CASE p \in [op : {"delegateStake"}, g : Gateways, amt : Amounts]
  <2>1. TxOf(p) = <<[t |-> "delegate_stake", g |-> p.g, amt |-> p.amt]>>
    BY <1>3 DEF ChangeStakeTx
  <2> QED BY <1>0, <1>3, <2>1, OneIx DEF IxOK, StakeIxOK, StakeIxs
<1>4. CASE p \in [op : {"decreaseDelegateStake"}, g : Gateways, amt : Amounts,
                  instant : BOOLEAN]
  <2>1. TxOf(p) = DecreaseTx(p, NextId(h.vaults))
    BY <1>4 DEF ChangeStakeTx, DecreaseTx
  <2>2. TxOK(TxOf(p))
    BY <1>0, <1>4, <2>1, OneIx DEF IxOK, StakeIxOK, StakeIxs, DecreaseTx
  <2> QED BY <1>0, <1>4, <2>1, <2>2
<1>5. CASE p \in [op : {"redelegateStake"}, g : Gateways, g2 : Gateways, amt : Amounts]
  <2>1. TxOf(p) = <<[t |-> "redelegate_stake", g |-> p.g, g2 |-> p.g2, amt |-> p.amt]>>
    BY <1>5 DEF RedelegateTx
  <2> QED BY <1>0, <1>5, <2>1, OneIx DEF IxOK, StakeIxOK, StakeIxs
<1>6. CASE p \in [op : {"instantWithdrawal", "claimWithdrawal"}, id : OpenIds(h.vaults)]
  <2>1. TxOf(p) = <<[t |-> IF p.op = "instantWithdrawal" THEN "instant_withdrawal"
                           ELSE "claim_withdrawal", id |-> p.id]>>
    BY <1>6 DEF WithdrawalTx, ClaimWithdrawalTx
  <2> QED BY <1>6, <2>1, OneIx DEF IxOK, WithdrawalIxOK, WithdrawalIxs
<1>7. CASE p \in [op : {"cancelWithdrawal"}, id : OpenIds(h.vaults),
                  g : Gateways \union {NoGw}]
  <2>1. TxOf(p) = <<[t |-> "cancel_withdrawal", id |-> p.id, g |-> p.g]>>
    BY <1>7 DEF WithdrawalTx
  <2> QED BY <1>7, <2>1, OneIx DEF IxOK, WithdrawalIxOK, WithdrawalIxs
<1>8. CASE p \in [op : Claiming, g : Gateways]
  <2>1. TxOf(p) = <<[t |-> IF p.op = "claimDelegateFromLeavingGateway"
                           THEN "claim_delegate_from_leaving_gateway"
                           ELSE "claim_delegate_from_disabled_gateway",
                     g |-> p.g, id |-> NextId(h.vaults)]>>
    BY <1>8 DEF ClaimDelegateTx
  <2> QED BY <1>8, <2>1, OneIx DEF IxOK, StakeIxOK, StakeIxs
<1>9. CASE p \in [op : {"extendVault", "revokeVault", "releaseVault"}, id : OpenIds(h.locks)]
  <2>1. CASE p.op = "releaseVault"
    <3> DEFINE ix == [t |-> "release_vault", id |-> p.id]
    <3>1. TxOf(p) = <<CreateAta(NoId), ix>> /\ IxOK(ix)
      BY <2>1 DEF ReleaseLockTx, IxOK, TokenIxOK, TokenIxs
    <3> HIDE DEF ix
    <3> QED BY <1>a, <2>1, <3>1, TwoIxs
  <2>2. CASE p.op \in {"extendVault", "revokeVault"}
    <3>1. TxOf(p) = <<[t |-> IF p.op = "extendVault" THEN "extend_vault" ELSE "revoke_vault",
                       id |-> p.id]>>
      BY <2>2 DEF ChangeLockTx
    <3> QED BY <2>2, <3>1, OneIx DEF IxOK, TokenIxOK, TokenIxs
  <2> QED BY <1>9, <2>1, <2>2
<1>10. CASE p \in [op : {"increaseVault"}, id : OpenIds(h.locks), amt : Amounts]
  <2>1. TxOf(p) = <<[t |-> "increase_vault", id |-> p.id, amt |-> p.amt]>>
    BY <1>10 DEF ChangeLockTx
  <2> QED BY <1>0, <1>10, <2>1, OneIx DEF IxOK, TokenIxOK, TokenIxs
<1> HIDE DEF RequestOK, Kinds, TxOf, Locking, LockChanging, Membership, Delegating,
        Operating, Withdrawing, Claiming
<1> QED BY <1>1, <1>2, <1>3, <1>4, <1>5, <1>6, <1>7, <1>8, <1>9, <1>10 DEF Requests

-----------------------------------------------------------------------------
(* The sources that discovery finds.                                       *)

\* Enough of what a found source of one kind is.
FoundOK(s, k) ==
  /\ s.kind = k /\ s.avail \in Nat /\ s.min \in Nat
  /\ k = "delegation" => s.gw \in Gateways /\ s.id = NoId

Found(q, K) ==
  /\ q \in Seq(ToSet(q)) /\ Separate(q)
  /\ \A s \in ToSet(q) : \E k \in K : FoundOK(s, k)

LEMMA OwnElements ==
  ASSUME NEW X, NEW q \in Seq(X)
  PROVE  /\ q \in Seq(ToSet(q)) /\ ToSet(q) \subseteq X
         /\ Len(q) \in Nat /\ ToSet(q) = {q[i] : i \in 1..Len(q)}
<1>1. /\ Len(q) \in Nat /\ DOMAIN q = 1..Len(q) /\ q = [i \in 1..Len(q) |-> q[i]]
      /\ \A i \in 1..Len(q) : q[i] \in X
  OBVIOUS
<1>2. ToSet(q) = {q[i] : i \in 1..Len(q)}
  BY <1>1 DEF ToSet
<1> DEFINE T == ToSet(q)
<1>3. q \in [1..Len(q) -> T]
  BY <1>1, <1>2
<1>4. T \subseteq X
  BY <1>1, <1>2
<1> HIDE DEF T
<1>5. q \in Seq(T)
  BY ONLY <1>1, <1>3
<1> QED BY <1>1, <1>2, <1>4, <1>5 DEF T

LEMMA FoundBoth ==
  ASSUME NEW q, NEW K, Found(q, K), NEW r, NEW L, Found(r, L), K \cap L = {}
  PROVE  Found(q \o r, K \cup L)
<1> DEFINE u == q \o r
           m == Len(q)
           n == Len(r)
           X == ToSet(q) \cup ToSet(r)
<1>1. /\ q \in Seq(X) /\ r \in Seq(X) /\ m \in Nat /\ n \in Nat
      /\ \A i \in 1..m : q[i] \in ToSet(q)
      /\ \A i \in 1..n : r[i] \in ToSet(r)
  BY OwnElements DEF Found
<1>2. /\ u \in Seq(X) /\ Len(u) = m + n
      /\ \A i \in 1..(m + n) : u[i] = IF i <= m THEN q[i] ELSE r[i - m]
  BY ONLY <1>1
<1> HIDE DEF u, X
<1>3. u \in Seq(ToSet(u)) /\ ToSet(u) \subseteq X
  BY <1>2, OwnElements
<1>4. \A s \in ToSet(u) : \E k \in K \cup L : FoundOK(s, k)
  BY <1>3 DEF X, Found
<1>5. Separate(u)
  <2> SUFFICES ASSUME NEW i \in 1..(m + n), NEW j \in 1..(m + n), i # j
               PROVE  Name(u[i]) # Name(u[j])
    BY <1>2 DEF Separate
  <2>1. CASE i <= m /\ j <= m
    BY <1>1, <1>2, <2>1 DEF Found, Separate
  <2>2. CASE ~(i <= m) /\ ~(j <= m)
    <3>1. i - m \in 1..n /\ j - m \in 1..n /\ i - m # j - m
      BY <1>1, <2>2
    <3> QED BY <1>2, <2>2, <3>1 DEF Found, Separate
  <2>3. CASE i <= m /\ ~(j <= m)
    <3>1. i \in 1..m /\ j - m \in 1..n
      BY <1>1, <2>3
    <3>2. u[i].kind \in K /\ u[j].kind \in L
      BY <1>1, <1>2, <2>3, <3>1 DEF Found, FoundOK
    <3> QED BY <3>2 DEF Name
  <2>4. CASE ~(i <= m) /\ j <= m
    <3>1. j \in 1..m /\ i - m \in 1..n
      BY <1>1, <2>4
    <3>2. u[j].kind \in K /\ u[i].kind \in L
      BY <1>1, <1>2, <2>4, <3>1 DEF Found, FoundOK
    <3> QED BY <3>2 DEF Name
  <2> QED BY <2>1, <2>2, <2>3, <2>4
<1>6. Found(u, K \cup L)
  BY <1>3, <1>4, <1>5 DEF Found
<1> QED BY <1>6 DEF u

LEMMA FoundBalance ==
  ASSUME h \in HoldingsType PROVE Found(BalanceSource, {"balance"})
<1>1. h.liquid \in Nat
  BY DEF HoldingsType
<1>2. CASE h.liquid = 0
  BY <1>2 DEF BalanceSource, Found, ToSet, Separate
<1>3. CASE h.liquid # 0
  <2> DEFINE s == [kind |-> "balance", gw |-> NoGw, id |-> NoId, avail |-> h.liquid,
                   min |-> 0, rank |-> <<0, 0, 0>>, at |-> 0]
  <2>1. BalanceSource = <<s>>
    BY <1>3 DEF BalanceSource
  <2>2. FoundOK(s, "balance")
    BY <1>1 DEF FoundOK
  <2> HIDE DEF s
  <2>3. <<s>> \in Seq({s}) /\ ToSet(<<s>>) = {s} /\ Separate(<<s>>)
    BY DEF ToSet, Separate
  <2> QED BY <2>1, <2>2, <2>3 DEF Found
<1> QED BY <1>2, <1>3

LEMMA FoundWithdrawals ==
  ASSUME h \in HoldingsType PROVE Found(WithdrawalSources, {"withdrawal"})
<1> DEFINE n == Len(h.vaults)
           all == [i \in 1..n |-> i]
           S == {i \in 1..n : h.vaults[i].amt > 0 /\ ~h.vaults[i].isProtected}
           ids == Keep(all, S)
           Source(i) == [kind |-> "withdrawal", gw |-> NoGw, id |-> i, at |-> i,
                         avail |-> h.vaults[i].amt, min |-> 0, rank |-> <<0, 0, 0>>]
           q == [i \in 1..Len(ids) |-> Source(ids[i])]
<1>1. n \in Nat /\ \A i \in 1..n : h.vaults[i] \in Deposit
  BY DEF HoldingsType
<1>2. all \in Seq(1..n) /\ Len(all) = n /\ \A i \in 1..n : all[i] = i
  BY <1>1
<1>3. ids \in Seq(1..n) /\ Spread(ids, all, n)
  <2> HIDE DEF all, S
  <2> QED BY <1>2, KeepFacts
<1>4. \A i, j \in 1..Len(ids) : i # j => ids[i] # ids[j]
  <2> SUFFICES ASSUME NEW i \in 1..Len(ids), NEW j \in 1..Len(ids), i # j
               PROVE  ids[i] # ids[j]
    OBVIOUS
  <2>1. \E a, b \in 1..n : a # b /\ all[a] = ids[i] /\ all[b] = ids[j]
    <3> HIDE DEF ids, all
    <3> QED BY <1>3 DEF Spread
  <2> HIDE DEF ids, all
  <2> QED BY <1>2, <2>1
<1>5. WithdrawalSources = q
  BY DEF WithdrawalSources
<1>6. Len(ids) \in Nat /\ \A i \in 1..Len(ids) : ids[i] \in 1..n
  <2> HIDE DEF ids
  <2> QED BY <1>3
<1>7. \A i \in 1..n : FoundOK(Source(i), "withdrawal")
  BY <1>1 DEF FoundOK, Deposit
<1>8. q \in Seq({Source(i) : i \in 1..n}) /\ Len(q) = Len(ids)
  <2> HIDE DEF ids
  <2> QED BY <1>6
<1>9. Separate(q)
  <2>1. \A i, j \in 1..n : i # j => Name(Source(i)) # Name(Source(j))
    BY DEF Name
  <2> HIDE DEF ids, Source
  <2> QED BY <1>4, <1>6, <1>8, <2>1 DEF Separate
<1> HIDE DEF q
<1>10. q \in Seq(ToSet(q)) /\ ToSet(q) \subseteq {Source(i) : i \in 1..n}
  BY <1>8, OwnElements
<1> HIDE DEF Source
<1> QED BY <1>5, <1>7, <1>9, <1>10 DEF Found

LEMMA SequenceOfSet ==
  ASSUME NEW S, IsFiniteSet(S)
  PROVE  /\ SetToSeq(S) \in Seq(S)
         /\ \A i, j \in 1..Len(SetToSeq(S)) :
              i # j => SetToSeq(S)[i] # SetToSeq(S)[j]
<1> DEFINE n == Cardinality(S)
<1>1. n \in Nat /\ \E f \in [1..n -> S] : IsInjective(f)
  BY FS_CardinalityType
     DEF ExistsBijection, Bijection, Injection, IsInjective
<1>2. SetToSeq(S) \in [1..n -> S] /\ IsInjective(SetToSeq(S))
  BY <1>1 DEF SetToSeq
<1>3. Len(SetToSeq(S)) = n
  BY <1>1, <1>2
<1> QED BY <1>1, <1>2, <1>3 DEF IsInjective

LEMMA FoundDelegations ==
  ASSUME h \in HoldingsType PROVE Found(DelegationSources, {"delegation"})
<1> DEFINE S == {g \in Gateways : h.stake[g] > 0}
           gs == SetToSeq(S)
           Source(g) == [kind |-> "delegation", gw |-> g, id |-> NoId, at |-> 0,
                         avail |-> h.stake[g], min |-> DefaultMin,
                         rank |-> <<1, 0, -Started[g]>>]
           Key(s) == <<-Above(s.avail, s.min)>> \o s.rank
           q == [i \in 1..Len(gs) |-> Source(gs[i])]
           u == Sort(q, {e \in Pairs(q) : LexLess(Key(e[1]), Key(e[2]))})
<1>1. IsFiniteSet(S) /\ S \subseteq Gateways
  BY HoldingsAssumption, FS_Subset
<1>2. gs \in Seq(S) /\ \A i, j \in 1..Len(gs) : i # j => gs[i] # gs[j]
  <2> HIDE DEF S
  <2> QED BY <1>1, SequenceOfSet
<1> HIDE DEF gs
<1>3. \A g \in S : FoundOK(Source(g), "delegation")
  BY PurchaseAssumption DEF FoundOK, HoldingsType
<1>4. q \in Seq({Source(g) : g \in S}) /\ Len(q) = Len(gs) /\ Len(gs) \in Nat
  <2>1. Len(gs) \in Nat /\ \A i \in 1..Len(gs) : gs[i] \in S
    <3> HIDE DEF S
    <3> QED BY <1>2
  <2> HIDE DEF S, Source
  <2> QED BY <2>1
<1>5. Separate(q)
  <2>1. \A f, g \in S : f # g => Name(Source(f)) # Name(Source(g))
    BY DEF Name
  <2>2. \A i \in 1..Len(gs) : gs[i] \in S
    <3> HIDE DEF S
    <3> QED BY <1>2
  <2> HIDE DEF S, Source
  <2> QED BY <1>2, <1>4, <2>1, <2>2 DEF Separate
<1>6. DelegationSources = u
  BY DEF DelegationSources, gs
<1>7. u \in Seq({Source(g) : g \in S}) /\ Spread(u, q, Len(q))
  <2> DEFINE before == {e \in Pairs(q) : LexLess(Key(e[1]), Key(e[2]))}
  <2> HIDE DEF q, before, Source, S
  <2>1. /\ Sort(q, before) \in Seq({Source(g) : g \in S})
        /\ Spread(Sort(q, before), q, Len(q))
    BY <1>4, SortFacts
  <2> QED BY <2>1 DEF before
<1> HIDE DEF u, q
<1>8. Separate(u)
  BY <1>5, <1>7, SpreadSeparate
<1>9. u \in Seq(ToSet(u)) /\ ToSet(u) \subseteq {Source(g) : g \in S}
  BY <1>7, OwnElements
<1> HIDE DEF Source, S
<1> QED BY <1>3, <1>6, <1>8, <1>9 DEF Found

\* What the planner asks of its sources holds of those discovery finds.
LEMMA DiscoveredSound ==
  ASSUME h \in HoldingsType
  PROVE  /\ Found(Discovered, SourceKinds)
         /\ Stocked(ToSet(Discovered)) /\ Told(ToSet(Discovered))
<1> DEFINE b == BalanceSource
           w == WithdrawalSources
           d == DelegationSources
           q == b \o w
<1>1. /\ Found(b, {"balance"}) /\ Found(w, {"withdrawal"}) /\ Found(d, {"delegation"})
  BY FoundBalance, FoundWithdrawals, FoundDelegations
<1>2. Discovered = q \o d
  BY DEF Discovered
<1> HIDE DEF b, w, d
<1>3. Found(q, {"balance"} \cup {"withdrawal"})
  BY <1>1, FoundBoth
<1> HIDE DEF q
<1>4. Found(q \o d, ({"balance"} \cup {"withdrawal"}) \cup {"delegation"})
  BY <1>1, <1>3, FoundBoth
<1> DEFINE u == Discovered
<1>5. Found(u, SourceKinds)
  BY <1>2, <1>4 DEF Found, SourceKinds
<1> HIDE DEF u
<1>6. Stocked(ToSet(u))
  BY <1>5 DEF Found, FoundOK, Stocked
<1>7. Told(ToSet(u))
  <2>1. \A s \in ToSet(u) : s.kind = "delegation" => s.id = NoId
    BY <1>5 DEF Found, FoundOK
  <2>2. \A s, t \in ToSet(u) : Name(s) = Name(t) => s = t
    <3>1. ToSet(u) = {u[i] : i \in 1..Len(u)}
      BY <1>5, OwnElements DEF Found
    <3> QED BY <1>5, <3>1 DEF Found, Separate
  <2> QED BY <2>1, <2>2 DEF Told
<1> QED BY <1>5, <1>6, <1>7 DEF u

-----------------------------------------------------------------------------
(* The plans and the transactions of purchases.                            *)

PurchaseForm ==
  [op : Kinds, mode : Modes, gw : Gateways \union {NoGw}, id : Nat \union {NoId},
   asOp : BOOLEAN, given : BOOLEAN, srcs : Seq(GivenSource)]

LEMMA PurchasesType ==
  ASSUME h \in HoldingsType PROVE Purchases \subseteq PurchaseForm
<1>1. /\ OpenIds(h.vaults) \subseteq Nat /\ SourceLists \subseteq Seq(GivenSource)
      /\ <<>> \in Seq(GivenSource)
  <2>1. h.vaults \in Seq(Deposit)
    BY DEF HoldingsType
  <2>2. DOMAIN h.vaults = 1..Len(h.vaults) /\ Len(h.vaults) \in Nat
    BY <2>1
  <2>3. <<>> \in Seq(GivenSource)
    OBVIOUS
  <2> QED BY <2>2, <2>3, PurchaseAssumption DEF OpenIds
<1>2. ASSUME NEW modes \in SUBSET Modes, NEW gws \in SUBSET (Gateways \union {NoGw}),
             NEW ids \in SUBSET (Nat \union {NoId}), NEW ops \in SUBSET BOOLEAN,
             NEW given \in SUBSET BOOLEAN, NEW lists \in SUBSET Seq(GivenSource)
      PROVE  Purchase(modes, gws, ids, ops, given, lists) \subseteq PurchaseForm
  BY DEF Purchase, PurchaseForm
<1>3. /\ {"balance", "plan"} \subseteq Modes /\ {"stakes"} \subseteq Modes
      /\ {"any"} \subseteq Modes /\ {"withdrawal"} \subseteq Modes
      /\ {"plan"} \subseteq Modes /\ {FALSE} \subseteq BOOLEAN /\ {TRUE} \subseteq BOOLEAN
  BY DEF Modes
<1>4. /\ {<<>>} \subseteq Seq(GivenSource)
      /\ (SourceLists \ {<<>>}) \subseteq Seq(GivenSource)
      /\ OpenIds(h.vaults) \union {NoId} \subseteq Nat \union {NoId}
  BY <1>1
<1> HIDE DEF Purchase
<1>5. /\ Purchase({"balance", "plan"}, {NoGw}, {NoId}, {FALSE}, {FALSE}, {<<>>}) \subseteq PurchaseForm
      /\ Purchase({"stakes"}, Gateways \union {NoGw}, {NoId}, BOOLEAN, {FALSE}, {<<>>}) \subseteq PurchaseForm
      /\ Purchase({"any"}, Gateways \union {NoGw}, {NoId}, {FALSE}, {FALSE}, {<<>>}) \subseteq PurchaseForm
      /\ Purchase({"any"}, {NoGw}, {NoId}, {FALSE}, {TRUE}, {<<>>}) \subseteq PurchaseForm
  BY <1>2, <1>3, <1>4
<1>6. Purchase({"withdrawal"}, {NoGw}, OpenIds(h.vaults) \union {NoId}, {FALSE}, {FALSE},
               {<<>>}) \subseteq PurchaseForm
  BY <1>2, <1>3, <1>4
<1>7. Purchase({"plan"}, Gateways \union {NoGw}, OpenIds(h.vaults) \union {NoId}, {FALSE},
               {TRUE}, SourceLists \ {<<>>}) \subseteq PurchaseForm
  BY <1>2, <1>3, <1>4
<1> QED BY <1>5, <1>6, <1>7 DEF Purchases

\* The purchases that are to leave the liquid balance alone.
Free(p) == p.mode \in {"stakes", "withdrawal"} /\ ~HasSources(p)

\* What PlanSound asks of a plan for a cost.
Pays(plan, cost) ==
  /\ AmountOf(plan) = cost
  /\ \A i \in DOMAIN plan : plan[i].amount \in 1..plan[i].avail
  /\ Len(plan) <= MaxFundingSources
  /\ Cardinality(PlanGateways(plan)) <= MaxDelegationSources
  /\ \A i, j \in DOMAIN plan :
       i # j => <<plan[i].kind, plan[i].gw, plan[i].id>>
                  # <<plan[j].kind, plan[j].gw, plan[j].id>>

Entered(plan) == PlanOK(plan) /\ \A s \in ToSet(plan) : s = Taken(s, s.amount)
NoBalance(plan) == \A s \in ToSet(plan) : s.kind # "balance"

LEMMA DiscoveredPlan ==
  ASSUME h \in HoldingsType, NEW cost \in Nat, NEW p,
         NEW st, st = BuildFundingPlan(Discovered, cost, p.mode, p.gw, p.asOp)
  PROVE  /\ Entered(st.plan)
         /\ ~(st.short > 0) => Pays(st.plan, cost)
         /\ Free(p) => NoBalance(st.plan)
<1> DEFINE D == ToSet(Discovered)
           K == AllowedKinds(p.mode, p.asOp)
<1>1. /\ Discovered \in Seq(D) /\ Separate(Discovered) /\ Stocked(D) /\ Told(D)
      /\ \A s \in D : \E k \in SourceKinds : FoundOK(s, k)
  BY DiscoveredSound DEF Found
<1>2. /\ st \in States(D) /\ Sound(st, cost) /\ Names(st.plan) \subseteq NamesOfKinds(D, K)
  <2> DEFINE srcs == Discovered
  <2> HIDE DEF D, K, srcs
  <2>1. LET r == BuildFundingPlan(srcs, cost, p.mode, p.gw, p.asOp)
        IN  /\ r \in States(D) /\ Sound(r, cost)
            /\ Names(r.plan) \subseteq NamesOfKinds(D, AllowedKinds(p.mode, p.asOp))
    BY <1>1, PlannerSound DEF srcs
  <2> QED BY <2>1 DEF srcs, K
<1> DEFINE plan == st.plan
<1>3. plan \in Seq(Entries(D)) /\ st.short \in Nat
  BY <1>2 DEF States
<1> HIDE DEF D, K, plan
<1>4. /\ plan \in Seq(ToSet(plan)) /\ ToSet(plan) \subseteq Entries(D)
      /\ Len(plan) \in Nat /\ ToSet(plan) = {plan[i] : i \in 1..Len(plan)}
      /\ DOMAIN plan = 1..Len(plan)
  BY <1>3, OwnElements
<1>5. \A s \in ToSet(plan) : /\ s = Taken(s, s.amount) /\ s.amount \in 1..s.avail
                             /\ s.kind \in SourceKinds /\ s.amount \in Nat
                             /\ s.kind = "delegation" => s.gw \in Gateways
  <2> SUFFICES ASSUME NEW e \in ToSet(plan)
               PROVE  /\ e = Taken(e, e.amount) /\ e.amount \in 1..e.avail
                      /\ e.kind \in SourceKinds /\ e.amount \in Nat
                      /\ e.kind = "delegation" => e.gw \in Gateways
    OBVIOUS
  <2>1. PICK s \in D : /\ e = Taken(s, e.amount) /\ e.amount \in 1..s.avail
                       /\ e.avail = s.avail /\ e.kind = s.kind /\ e.gw = s.gw
                       /\ e.id = s.id /\ e.min = s.min
    BY <1>1, <1>4, EntryFacts
  <2>2. e = Taken(e, e.amount)
    BY <2>1 DEF Taken
  <2>3. e.amount \in Nat
    BY <1>1, <2>1 DEF Stocked
  <2>4. e.kind \in SourceKinds /\ (e.kind = "delegation" => e.gw \in Gateways)
    BY <1>1, <2>1 DEF FoundOK
  <2> QED BY <2>1, <2>2, <2>3, <2>4
<1>6. Entered(plan)
  BY <1>4, <1>5 DEF Entered, PlanOK
<1>7. ASSUME ~(st.short > 0) PROVE Pays(plan, cost)
  <2>1. /\ AmountOf(plan) + st.short = cost /\ st.short = 0
        /\ AmountOf(plan) \in Int
    <3>1. AmountOf(plan) \in Nat
      BY <1>1, <1>3, EntriesSummable, AmountType
    <3> QED BY <1>2, <1>3, <1>7, <3>1 DEF Sound, plan
  <2>2. AmountOf(plan) = cost
    BY <2>1
  <2>3. \A i \in DOMAIN plan : plan[i].amount \in 1..plan[i].avail
    BY <1>4, <1>5
  <2>4. /\ Len(plan) <= MaxFundingSources
        /\ Cardinality(PlanGateways(plan)) <= MaxDelegationSources
        /\ Separate(plan)
    BY <1>2 DEF Sound, plan
  <2>5. \A i, j \in DOMAIN plan :
          i # j => <<plan[i].kind, plan[i].gw, plan[i].id>>
                     # <<plan[j].kind, plan[j].gw, plan[j].id>>
    BY <1>4, <2>4 DEF Separate, Name
  <2> QED BY <2>2, <2>3, <2>4, <2>5 DEF Pays
<1>8. ASSUME Free(p) PROVE NoBalance(plan)
  <2> SUFFICES ASSUME NEW e \in ToSet(plan) PROVE e.kind # "balance"
    BY DEF NoBalance
  <2>1. Name(e) \in NamesOfKinds(D, K)
    BY <1>2, <1>4 DEF Names, plan
  <2>2. "balance" \notin K
    BY <1>8 DEF Free, K, AllowedKinds
  <2>3. e.kind \in K
    BY <2>1 DEF NamesOfKinds, Name
  <2> QED BY <2>2, <2>3
<1> QED BY <1>6, <1>7, <1>8 DEF plan

LEMMA GivenPlanEntered ==
  ASSUME h \in HoldingsType, NEW p \in PurchaseForm, ~GivenRefused(p)
  PROVE  Entered(GivenPlan(p))
<1> DEFINE n == Len(p.srcs)
           q == GivenPlan(p)
<1>1. n \in Nat /\ \A i \in 1..n : p.srcs[i] \in GivenSource
  BY DEF PurchaseForm
<1>2. \A i \in 1..n : q[i] = WithState(p, p.srcs[i])
  BY DEF GivenPlan
<1>3. q \in Seq({WithState(p, p.srcs[i]) : i \in 1..n}) /\ Len(q) = n
  BY <1>1 DEF GivenPlan
<1> HIDE DEF q
<1>4. q \in Seq(ToSet(q)) /\ ToSet(q) = {q[i] : i \in 1..n}
  BY <1>3, OwnElements
<1>5. ASSUME NEW i \in 1..n
      PROVE  LET s == WithState(p, p.srcs[i])
             IN  /\ s = Taken(s, s.amount) /\ s.kind \in SourceKinds /\ s.amount \in Nat
                 /\ s.kind = "delegation" => s.gw \in Gateways
  <2> DEFINE t == p.srcs[i]
             s == WithState(p, t)
  <2>1. /\ t.kind \in SourceKinds /\ t.amount \in Nat /\ t.gw \in Gateways \union {NoGw}
        /\ p.gw \in Gateways \union {NoGw}
    BY <1>1 DEF GivenSource, SourceKinds, PurchaseForm
  <2>2. t.kind = "delegation" => GivenGateway(p, t) # NoGw
    BY DEF GivenRefused
  <2> HIDE DEF t
  <2>3. GivenGateway(p, t) \in Gateways \union {NoGw}
    BY <2>1 DEF GivenGateway
  <2>4. s.kind = t.kind /\ s.amount = t.amount /\ s.gw = GivenGateway(p, t)
    BY DEF WithState
  <2>5. s = Taken(s, s.amount)
    BY DEF WithState, Taken
  <2> HIDE DEF s
  <2> QED BY <2>1, <2>2, <2>3, <2>4, <2>5 DEF s, t
<1>6. Entered(q)
  BY <1>2, <1>4, <1>5 DEF Entered, PlanOK
<1> QED BY <1>6 DEF q

PurchaseTxOK(p, tx) ==
  \E pay : /\ PaymentIxOK(pay, Free(p)) /\ pay.returned = (p.op = "buyReturned")
           /\ tx \in {<<pay>>, <<CreateAta(NoId), pay>>}

LEMMA PurchaseTxType ==
  ASSUME NEW p, NEW tx, PurchaseTxOK(p, tx) PROVE TxOK(tx)
<1>1. PICK pay : PaymentIxOK(pay, Free(p)) /\ tx \in {<<pay>>, <<CreateAta(NoId), pay>>}
  BY DEF PurchaseTxOK
<1>2. IxOK(pay)
  BY <1>1 DEF IxOK, PaymentIxOK
<1>3. IxOK(CreateAta(NoId))
  BY DEF IxOK, TokenIxOK, TokenIxs, CreateAta
<1> QED BY <1>1, <1>2, <1>3, OneIx, TwoIxs

LEMMA SingleTxOK ==
  ASSUME NEW p, NEW kind \in SourceKinds, Free(p) => kind # "balance", NEW g, NEW id
  PROVE  PurchaseTxOK(p, SingleTx(p, kind, g, id))
<1> DEFINE source == [kind |-> kind, gw |-> g, id |-> id]
           pay == [t |-> "pay_single", returned |-> p.op = "buyReturned", source |-> source]
<1>1. PaymentIxOK(pay, Free(p)) /\ pay.returned = (p.op = "buyReturned")
  BY DEF PaymentIxOK, PaymentIxs
<1>2. SingleTx(p, kind, g, id) = IF p.op = "buyReturned" THEN <<CreateAta(NoId), pay>>
                                 ELSE <<pay>>
  BY DEF SingleTx
<1> HIDE DEF pay
<1> QED BY <1>1, <1>2 DEF PurchaseTxOK

LEMMA RouteSpares ==
  ASSUME NEW p \in PurchaseForm,
         Route(p) \in {"balance", "delegation", "operatorStake", "withdrawal"}
  PROVE  Route(p) \in SourceKinds /\ (Free(p) => Route(p) # "balance")
<1> USE DEF SingleStake, Free
<1>1. p.op \in Kinds
  BY DEF PurchaseForm
<1>2. CASE p.op = "buyRecord"
  BY <1>2 DEF Route, RouteOfBuy, SourceKinds
<1>3. CASE p.op = "manage"
  BY <1>3 DEF Route, RouteOfManage, SourceKinds
<1>4. CASE p.op = "buyReturned"
  BY <1>4 DEF Route, RouteOfReturned, SourceKinds
<1>5. CASE p.op = "primaryName"
  BY <1>5 DEF Route, RouteOfPrimaryName, SourceKinds
<1> QED BY <1>1, <1>2, <1>3, <1>4, <1>5 DEF Kinds

LEMMA PlanTxOK ==
  ASSUME NEW p, NEW plan, Entered(plan), Free(p) => NoBalance(plan)
  PROVE  PurchaseTxOK(p, PlanTx(p, plan))
<1> DEFINE ids == WithdrawalIds(p, plan)
           q == WithAccounts(plan, ids)
           n == Len(plan)
           residue == PredictResidue(plan)
           pay == [t |-> "pay_plan", returned |-> p.op = "buyReturned", sources |-> q,
                   residue |-> residue]
<1>1. n \in Nat /\ \A i \in 1..n : plan[i] \in ToSet(plan)
  BY DEF Entered, PlanOK
<1>2. \A i \in 1..n : plan[i] = Taken(plan[i], plan[i].amount)
  BY <1>1 DEF Entered
<1>3. q = [i \in 1..n |-> q[i]]
  BY DEF WithAccounts
<1>4. ASSUME NEW i \in 1..n
      PROVE  /\ q[i].kind = plan[i].kind /\ q[i].gw = plan[i].gw
             /\ q[i].amount = plan[i].amount
  <2> HIDE DEF ids
  <2>1. CASE plan[i].kind # "withdrawal"
    BY <2>1 DEF WithAccounts
  <2>2. CASE plan[i].kind = "withdrawal"
    <3> DEFINE s == plan[i]
               a == ids[Len(OfKind(SubSeq(plan, 1, i), "withdrawal"))]
    <3>1. q[i] = [s EXCEPT !.id = a]
      BY <2>2 DEF WithAccounts
    <3>2. s = Taken(s, s.amount)
      BY <1>2
    <3> HIDE DEF s, a, q
    <3>3. [s EXCEPT !.id = a].kind = s.kind /\ [s EXCEPT !.id = a].gw = s.gw
          /\ [s EXCEPT !.id = a].amount = s.amount
      BY <3>2 DEF Taken
    <3> QED BY <3>1, <3>3 DEF s
  <2> QED BY <2>1, <2>2
<1> HIDE DEF q, ids, residue
<1>5. q \in Seq({q[i] : i \in 1..n}) /\ Len(q) = n
  <2> DEFINE X == {q[i] : i \in 1..n}
  <2>1. \A i \in 1..n : q[i] \in X
    OBVIOUS
  <2>2. q \in [1..n -> X]
    <3> HIDE DEF X
    <3> QED BY <1>3, <2>1
  <2> HIDE DEF X
  <2>3. q \in Seq(X) /\ Len(q) = n
    BY <1>1, <2>2
  <2> QED BY <2>3 DEF X
<1>6. q \in Seq(ToSet(q)) /\ ToSet(q) = {q[i] : i \in 1..n}
  BY <1>5, OwnElements
<1>7. PlanOK(q) /\ (Free(p) => NoBalance(q))
  <2>1. \A i \in 1..n : /\ plan[i].kind \in SourceKinds /\ plan[i].amount \in Nat
                        /\ plan[i].kind = "delegation" => plan[i].gw \in Gateways
                        /\ Free(p) => plan[i].kind # "balance"
    BY <1>1 DEF Entered, PlanOK, NoBalance
  <2> QED BY <1>4, <1>6, <2>1 DEF PlanOK, NoBalance
<1>8. PaymentIxOK(pay, Free(p)) /\ pay.returned = (p.op = "buyReturned")
  BY <1>7 DEF PaymentIxOK, PaymentIxs, NoBalance
<1>9. PlanTx(p, plan) = <<pay>>
  BY DEF PlanTx, q, ids, residue
<1> HIDE DEF pay
<1> QED BY <1>8, <1>9 DEF PurchaseTxOK

LEMMA PickedKind ==
  ASSUME h \in HoldingsType, NEW p, NEW estimate, Candidates(p, estimate) # <<>>
  PROVE  Candidates(p, estimate)[1].kind = WantedKind(p)
<1> DEFINE q == Discovered
           S == {s \in ToSet(q) : s.kind = WantedKind(p) /\ s.avail >= estimate}
           fit == Keep(q, S)
           before == {e \in Pairs(fit) : e[1].avail > e[2].avail}
           cs == Sort(fit, before)
<1>1. Candidates(p, estimate) = cs
  BY DEF Candidates
<1>2. q \in Seq(ToSet(q))
  BY DiscoveredSound DEF Found
<1>3. fit \in Seq(ToSet(q)) /\ ToSet(fit) \subseteq S
  <2> HIDE DEF q, S
  <2> QED BY <1>2, KeepFacts
<1>4. cs \in Seq(ToSet(q)) /\ ToSet(cs) = ToSet(fit)
  <2> HIDE DEF q, fit, before
  <2> QED BY <1>3, SortFacts
<1> HIDE DEF cs, fit, q
<1>5. cs[1] \in ToSet(cs)
  BY <1>1, <1>4, OwnElements
<1> QED BY <1>1, <1>3, <1>4, <1>5

-----------------------------------------------------------------------------
(* What particular transactions do.                                        *)

\* A purchase that spares the balance takes from it the premium at most.
LEMMA PurchaseSpares ==
  ASSUME NEW x \in HoldingsType, NEW p, NEW tx, PurchaseTxOK(p, tx), Free(p),
         NEW y \in Execute(x, tx)
  PROVE  x.liquid - y.liquid = IF p.op = "buyReturned" THEN x.premium ELSE 0
<1>1. PICK pay : /\ PaymentIxOK(pay, Free(p)) /\ pay.returned = (p.op = "buyReturned")
                 /\ tx \in {<<pay>>, <<CreateAta(NoId), pay>>}
  BY DEF PurchaseTxOK
<1>2. \A z : OnInstruction(z, pay) = OnPayment(z, pay)
  BY <1>1, FamiliesApart DEF OnInstruction, PaymentIxOK
<1>3. CASE tx = <<pay>>
  <2>1. y \in OnPayment(x, pay)
    BY <1>2, <1>3 DEF Execute
  <2>2. x.liquid - y.liquid = Share(x, pay)
    BY <1>1, <2>1, PaymentEvolves
  <2> QED BY <1>1, <2>2 DEF Share
<1>4. CASE tx = <<CreateAta(NoId), pay>>
  <2> DEFINE ata == CreateAta(NoId)
             z == [x EXCEPT !.hasAta = TRUE]
  <2>1. TokenIxOK(ata)
    BY DEF TokenIxOK, TokenIxs, CreateAta
  <2>2. OnInstruction(x, ata) = OnTokens(x, ata)
    BY <2>1, FamiliesApart DEF OnInstruction, TokenIxOK
  <2>3. OnTokens(x, ata) = {z}
    BY DEF OnTokens, CreateAta
  <2>4. z \in HoldingsType /\ z.liquid = x.liquid /\ z.premium = x.premium
    BY DEF HoldingsType
  <2> HIDE DEF z, ata
  <2>5. Len(tx) = 2 /\ tx[1] = ata /\ tx[2] = pay
    BY <1>4 DEF ata
  <2>6. y \in OnPayment(z, pay)
    BY <1>2, <2>2, <2>3, <2>5 DEF Execute
  <2>7. z.liquid - y.liquid = Share(z, pay)
    BY <1>1, <2>4, <2>6, PaymentEvolves
  <2> QED BY <1>1, <2>4, <2>7 DEF Share
<1> QED BY <1>1, <1>3, <1>4

\* The withdrawal a decrease creates is of its gateway.
LEMMA DecreaseCreates ==
  ASSUME NEW x \in HoldingsType, NEW p, NEW id, p.g \in Gateways,
         TxOK(DecreaseTx(p, id)), NEW y \in Execute(x, DecreaseTx(p, id))
  PROVE  id \in 1..Len(y.vaults) /\ y.vaults[id].gw = p.g
<1> DEFINE ix == [t |-> "decrease_delegate_stake", g |-> p.g, amt |-> p.amt, id |-> id]
           d == New(p.amt, p.g, FALSE)
<1>1. DecreaseTx(p, id) = <<ix>>
  BY DEF DecreaseTx
<1>2. p.amt \in Nat
  <2>1. IxOK(ix)
    BY <1>1 DEF TxOK
  <2> QED BY <2>1 DEF IxOK, StakeIxOK, WithdrawalIxOK, WithdrawalIxs, TokenIxOK,
                      TokenIxs, PaymentIxOK, PaymentIxs
<1>3. y \in OnStake(x, ix)
  <2>1. ix.t = "decrease_delegate_stake"
    OBVIOUS
  <2> HIDE DEF ix
  <2>2. Len(<<ix>>) = 1 /\ <<ix>>[1] = ix
    OBVIOUS
  <2>3. y \in OnInstruction(x, ix)
    BY <1>1, <2>2 DEF Execute
  <2> QED BY <2>1, <2>3 DEF OnInstruction, StakeIxs
<1>4. id = NextId(x.vaults) /\ y.vaults = Append(x.vaults, d)
  <2>1. /\ id = NextId(x.vaults)
        /\ y = [x EXCEPT !.stake[p.g] = @ - p.amt, !.vaults = Append(@, d)]
    BY <1>3 DEF OnStake, When
  <2> HIDE DEF d
  <2> QED BY <2>1 DEF HoldingsType
<1>5. d \in Deposit /\ d.gw = p.g
  BY <1>2 DEF New, Deposit
<1>6. x.vaults \in Seq(Deposit)
  BY DEF HoldingsType
<1> HIDE DEF d
<1> QED BY <1>4, <1>5, <1>6 DEF NextId

\* An instant withdrawal closes the one it names.
LEMMA InstantCloses ==
  ASSUME NEW x \in HoldingsType, NEW m,
         NEW y \in Execute(x, <<[t |-> "instant_withdrawal", id |-> m]>>)
  PROVE  ~y.vaults[m].open
<1> DEFINE ix == [t |-> "instant_withdrawal", id |-> m]
<1>1. WithdrawalIxOK(ix) /\ ix.id = m
  BY DEF WithdrawalIxOK, WithdrawalIxs
<1> HIDE DEF ix
<1>2. Len(<<ix>>) = 1 /\ <<ix>>[1] = ix
  OBVIOUS
<1>3. y \in OnInstruction(x, ix)
  BY <1>2 DEF Execute, ix
<1>4. y \in OnWithdrawal(x, ix)
  BY <1>1, <1>3, FamiliesApart DEF OnInstruction, WithdrawalIxOK
<1> QED BY <1>1, <1>4, WithdrawalEvolves

\* The rest of the network.
LEMMA NetworkEvolves ==
  ASSUME NEW x \in HoldingsType,
         NEW y \in MovePrice(x) \union DecayPremium(x) \union Matures(x)
                     \union LosesGateway(x)
  PROVE  Evolves(x, y)
<1>0. x.vaults \in Seq(Deposit) /\ x.locks \in Seq(Deposit) /\ Grown(x.vaults, x.vaults)
  BY GrownSame DEF HoldingsType
<1>1. CASE y \in MovePrice(x)
  <2>1. PICK p \in 1..MaxPrice : y = [x EXCEPT !.price = p]
    BY <1>1 DEF MovePrice
  <2>2. p \in 0..MaxPrice
    BY HoldingsAssumption
  <2>3. y \in HoldingsType /\ y.vaults = x.vaults
    BY <2>1, <2>2 DEF HoldingsType
  <2> QED BY <1>0, <2>3 DEF Evolves
<1>2. CASE y \in DecayPremium(x)
  <2>1. x.premium > 0 /\ y = [x EXCEPT !.premium = @ - 1]
    BY <1>2 DEF DecayPremium, When
  <2>2. x.premium \in Nat
    BY DEF HoldingsType
  <2>3. x.premium - 1 \in Nat
    BY <2>1, <2>2
  <2>4. y \in HoldingsType /\ y.vaults = x.vaults
    BY <2>1, <2>3 DEF HoldingsType
  <2> QED BY <1>0, <2>4 DEF Evolves
<1>3. CASE y \in Matures(x)
  <2>1. CASE \E i \in DOMAIN x.vaults : y = [x EXCEPT !.vaults[i].matured = TRUE]
    <3>1. PICK i \in DOMAIN x.vaults : y = [x EXCEPT !.vaults[i].matured = TRUE]
      BY <2>1
    <3> DEFINE d == [x.vaults[i] EXCEPT !.matured = TRUE]
               v == [x.vaults EXCEPT ![i] = d]
    <3>2. i \in 1..Len(x.vaults) /\ x.vaults[i] \in Deposit
      BY <1>0, <3>1
    <3>3. d \in Deposit /\ d.gw = x.vaults[i].gw
      BY <3>2 DEF Deposit
    <3>4. y = [x EXCEPT !.vaults = v]
      BY <3>1
    <3> HIDE DEF d
    <3>5. Grown(x.vaults, v)
      BY <1>0, <3>2, <3>3, GrownByChange
    <3> HIDE DEF v
    <3>6. y \in HoldingsType /\ y.vaults = v
      BY <3>4, <3>5 DEF HoldingsType, Grown
    <3> QED BY <3>5, <3>6 DEF Evolves
  <2>2. CASE \E i \in DOMAIN x.locks : y = [x EXCEPT !.locks[i].matured = TRUE]
    <3>1. PICK i \in DOMAIN x.locks : y = [x EXCEPT !.locks[i].matured = TRUE]
      BY <2>2
    <3> DEFINE d == [x.locks[i] EXCEPT !.matured = TRUE]
               v == [x.locks EXCEPT ![i] = d]
    <3>2. i \in 1..Len(x.locks) /\ x.locks[i] \in Deposit
      BY <1>0, <3>1
    <3>3. d \in Deposit /\ d.gw = x.locks[i].gw
      BY <3>2 DEF Deposit
    <3>4. y = [x EXCEPT !.locks = v]
      BY <3>1
    <3> HIDE DEF d
    <3>5. v \in Seq(Deposit)
      BY <1>0, <3>2, <3>3, GrownByChange DEF Grown
    <3> HIDE DEF v
    <3>6. y \in HoldingsType /\ y.vaults = x.vaults
      BY <3>4, <3>5 DEF HoldingsType
    <3> QED BY <1>0, <3>6 DEF Evolves
  <2> QED BY <1>3, <2>1, <2>2 DEF Matures
<1>4. CASE y \in LosesGateway(x)
  <2>1. PICK g \in Gateways, s \in {"leaving", "disabled"} : y = [x EXCEPT !.status[g] = s]
    BY <1>4 DEF LosesGateway
  <2>2. y \in HoldingsType /\ y.vaults = x.vaults
    BY <2>1 DEF HoldingsType
  <2> QED BY <1>0, <2>2 DEF Evolves
<1> QED BY <1>1, <1>2, <1>3, <1>4

-----------------------------------------------------------------------------
(* The inductive invariant.                                                *)

Planning == {"plan", "pick", "planning", "picking", "planned", "insufficient"}
Sending  == {"flight", "late"}
PCs      == {"idle", "confirmed"} \cup Planning \cup Sending \cup Ended

Fields    == {"pc", "p", "tx", "made", "cost", "seen", "plan", "raced"}
IsCall(k) == k = [f \in Fields |-> k[f]]

\* The withdrawal the first transaction of an instant decrease created is
\* there, and of the gateway the decrease named.
Owned(k, vaults) ==
  k.made \in 1..Len(vaults) /\ vaults[k.made].gw = k.p.g /\ k.p.op \notin Kinds

\* The transaction on its way: of a request, of a purchase, or the second of
\* an instant decrease.
Sent(k, vaults) ==
  \/ k.made = NoId /\ RequestOK(k.p, k.tx)
  \/ k.made = NoId /\ k.p.op \in Kinds /\ PurchaseTxOK(k.p, k.tx)
  \/ Owned(k, vaults) /\ k.tx = <<[t |-> "instant_withdrawal", id |-> k.made]>>

CallOK(k, vaults) ==
  /\ IsCall(k) /\ k.pc \in PCs /\ k.cost \in Nat /\ k.raced \in BOOLEAN
  /\ Entered(k.plan)
  /\ k.pc \in Planning => k.p \in PurchaseForm
  /\ Planned(k) => Pays(k.plan, k.cost) /\ (Free(k.p) => NoBalance(k.plan))
  /\ k.pc \in Sending => Sent(k, vaults)
  /\ k.pc = "confirmed" => Owned(k, vaults) /\ k.tx[1].id = k.made
  /\ k.pc \notin Sending \cup {"confirmed"} => k.made = NoId

IInv ==
  /\ h \in HoldingsType /\ env \in 0..MaxEnv
  /\ call = [c \in Calls |-> call[c]]
  /\ \A c \in Calls : CallOK(call[c], h.vaults)

LEMMA NoEntries == Entered(<<>>)
BY DEF Entered, PlanOK, ToSet

LEMMA IdleOK ==
  ASSUME NEW v, NEW pc \in Ended \cup {"idle"}, NEW r \in BOOLEAN
  PROVE  CallOK([Idle EXCEPT !.pc = pc, !.raced = r], v)
<1> DEFINE k == [Idle EXCEPT !.pc = pc, !.raced = r]
<1>1. /\ k.pc = pc /\ k.raced = r /\ k.cost = 0 /\ k.plan = <<>> /\ k.made = NoId
      /\ IsCall(k)
  BY DEF Idle, IsCall, Fields
<1>2. pc \in PCs /\ pc \notin Planning \cup Sending \cup {"confirmed"}
  BY DEF PCs, Ended, Planning, Sending
<1> HIDE DEF k
<1>3. CallOK(k, v)
  BY <1>1, <1>2, NoEntries DEF CallOK, Planned, Planning
<1> QED BY <1>3 DEF k

LEMMA EndOK ==
  ASSUME NEW v, NEW k, k.raced \in BOOLEAN, NEW how \in Ended
  PROVE  CallOK(End(k, how), v) /\ End(k, how).pc = how /\ End(k, how).made = NoId
<1>1. CallOK(End(k, how), v)
  BY IdleOK DEF End
<1> QED BY <1>1 DEF End, Idle

LEMMA CallKept ==
  ASSUME NEW k, NEW v, NEW w, CallOK(k, v), Grown(v, w)
  PROVE  CallOK(k, w)
<1>1. Owned(k, v) => Owned(k, w)
  <2> SUFFICES ASSUME Owned(k, v) PROVE Owned(k, w)
    OBVIOUS
  <2>1. k.made \in 1..Len(v) /\ v[k.made].gw = k.p.g
    BY DEF Owned
  <2>2. k.made \in 1..Len(w) /\ w[k.made].gw = v[k.made].gw
    BY <2>1 DEF Grown
  <2> QED BY <2>1, <2>2 DEF Owned
<1> QED BY <1>1 DEF CallOK, Sent

LEMMA RacingOK ==
  ASSUME NEW k, NEW v, CallOK(k, v)
  PROVE  /\ CallOK(Racing(k), v)
         /\ Racing(k).pc = k.pc /\ Racing(k).made = k.made
<1>1. CASE k.pc = "idle" \/ k.pc \in Ended
  BY <1>1 DEF Racing
<1>2. CASE ~(k.pc = "idle" \/ k.pc \in Ended)
  <2> DEFINE r == [k EXCEPT !.raced = TRUE]
  <2>1. Racing(k) = r
    BY <1>2 DEF Racing
  <2>2. /\ r.pc = k.pc /\ r.p = k.p /\ r.tx = k.tx /\ r.made = k.made
        /\ r.cost = k.cost /\ r.plan = k.plan /\ r.raced = TRUE /\ IsCall(r)
    BY DEF CallOK, IsCall, Fields
  <2> HIDE DEF r
  <2>3. CallOK(r, v)
    BY <2>2 DEF CallOK, Sent, Owned, Planned
  <2> QED BY <2>1, <2>2, <2>3
<1> QED BY <1>1, <1>2

\* A step of one call that leaves the holdings alone.
LEMMA OneCall ==
  ASSUME IInv, NEW c \in Calls, NEW k, CallOK(k, h.vaults),
         call' = [call EXCEPT ![c] = k], h' = h, env' \in 0..MaxEnv
  PROVE  IInv'
<1>1. call' = [d \in Calls |-> call'[d]]
  BY DEF IInv
<1>2. \A d \in Calls : CallOK(call'[d], h.vaults)
  BY DEF IInv
<1> QED BY <1>1, <1>2 DEF IInv

\* A step that changes the holdings, and one of the calls at most.
LEMMA HoldingsStep ==
  ASSUME IInv, Evolves(h, h'), env' \in 0..MaxEnv,
         call' = [d \in Calls |-> call'[d]],
         \A d \in Calls : \/ call'[d] = Racing(call[d])
                          \/ CallOK(call'[d], h'.vaults)
  PROVE  IInv'
<1>1. Grown(h.vaults, h'.vaults) /\ h' \in HoldingsType
  BY DEF Evolves
<1>2. ASSUME NEW d \in Calls PROVE CallOK(call'[d], h'.vaults)
  <2>1. CASE call'[d] = Racing(call[d])
    <3> DEFINE k == call[d]
               v == h.vaults
               w == h'.vaults
    <3>1. CallOK(k, v) /\ Grown(v, w)
      BY <1>1 DEF IInv
    <3> HIDE DEF k, v, w
    <3>2. CallOK(k, w)
      BY <3>1, CallKept
    <3>3. CallOK(Racing(k), w)
      BY <3>2, RacingOK
    <3> QED BY <2>1, <3>3 DEF k, w
  <2> QED BY <2>1
<1> QED BY <1>1, <1>2 DEF IInv

\* The transaction of a call is one the programs can tell.
LEMMA SentType ==
  ASSUME NEW k, NEW v, Sent(k, v) PROVE TxOK(k.tx)
<1>1. CASE RequestOK(k.p, k.tx)
  BY <1>1 DEF RequestOK
<1>2. CASE PurchaseTxOK(k.p, k.tx)
  BY <1>2, PurchaseTxType
<1>3. CASE k.tx = <<[t |-> "instant_withdrawal", id |-> k.made]>>
  <2> DEFINE ix == [t |-> "instant_withdrawal", id |-> k.made]
  <2>1. IxOK(ix)
    BY DEF IxOK, WithdrawalIxOK, WithdrawalIxs
  <2> HIDE DEF ix
  <2> QED BY <1>3, <2>1, OneIx DEF ix
<1> QED BY <1>1, <1>2, <1>3 DEF Sent

-----------------------------------------------------------------------------
(* The steps before a transaction is sent.                                 *)

LEMMA SubmitStep ==
  ASSUME IInv, NEW c \in Calls, NEW p \in Requests, Submit(c, p)
  PROVE  IInv'
<1> DEFINE tx == TxOf(p)
           k == [Idle EXCEPT !.pc = "flight", !.p = p, !.tx = tx]
<1>1. /\ call' = [call EXCEPT ![c] = k] /\ h' = h /\ env' = env
      /\ env' \in 0..MaxEnv
  BY DEF Submit, IInv
<1>2. RequestOK(p, tx)
  BY RequestTx DEF IInv
<1> HIDE DEF tx
<1>3. /\ k.pc = "flight" /\ k.p = p /\ k.tx = tx /\ k.made = NoId /\ k.cost \in Nat
      /\ k.plan = <<>> /\ k.raced \in BOOLEAN /\ IsCall(k)
  BY DEF Idle, IsCall, Fields
<1> HIDE DEF k
<1>4. CallOK(k, h.vaults)
  BY <1>2, <1>3, NoEntries DEF CallOK, Sent, Planned, PCs, Planning, Sending
<1> QED BY <1>1, <1>4, OneCall

LEMMA BeginPurchaseStep ==
  ASSUME IInv, NEW c \in Calls, NEW p \in Purchases, BeginPurchase(c, p)
  PROVE  IInv'
<1> DEFINE k == [Idle EXCEPT !.p = p]
           v == h.vaults
<1>1. h' = h /\ env' = env /\ env' \in 0..MaxEnv
  BY DEF BeginPurchase, IInv
<1>2. p \in PurchaseForm /\ p.op \in Kinds
  BY PurchasesType DEF IInv, PurchaseForm
<1>3. \/ /\ Route(p) \in {"balance", "delegation", "operatorStake", "withdrawal"}
         /\ call' = [call EXCEPT ![c] =
                       [k EXCEPT !.pc = "flight", !.tx = SingleTx(p, Route(p), p.gw, p.id)]]
      \/ /\ Route(p) \in {"plan", "pick"}
         /\ call' = [call EXCEPT ![c] = [k EXCEPT !.pc = Route(p)]]
      \/ call' = [call EXCEPT ![c] = End(call[c], "refused")]
  BY DEF BeginPurchase
<1>4. CASE /\ Route(p) \in {"balance", "delegation", "operatorStake", "withdrawal"}
           /\ call' = [call EXCEPT ![c] =
                 [k EXCEPT !.pc = "flight", !.tx = SingleTx(p, Route(p), p.gw, p.id)]]
  <2> DEFINE r == Route(p)
             tx == SingleTx(p, r, p.gw, p.id)
             l == [k EXCEPT !.pc = "flight", !.tx = tx]
  <2>1. r \in SourceKinds /\ (Free(p) => r # "balance")
    BY <1>2, <1>4, RouteSpares
  <2> HIDE DEF r
  <2>2. PurchaseTxOK(p, tx)
    BY <2>1, SingleTxOK
  <2> HIDE DEF tx
  <2>3. /\ l.pc = "flight" /\ l.p = p /\ l.tx = tx /\ l.made = NoId /\ l.cost \in Nat
        /\ l.plan = <<>> /\ l.raced \in BOOLEAN /\ IsCall(l)
    BY DEF Idle, IsCall, Fields
  <2>4. call' = [call EXCEPT ![c] = l]
    BY <1>4 DEF tx, r
  <2> HIDE DEF l
  <2>5. CallOK(l, h.vaults)
    BY <1>2, <2>2, <2>3, NoEntries DEF CallOK, Sent, Planned, PCs, Planning, Sending
  <2> QED BY <1>1, <2>4, <2>5, OneCall
<1>5. CASE /\ Route(p) \in {"plan", "pick"}
           /\ call' = [call EXCEPT ![c] = [k EXCEPT !.pc = Route(p)]]
  <2> DEFINE r == Route(p)
             l == [k EXCEPT !.pc = r]
  <2>1. r \in {"plan", "pick"} /\ call' = [call EXCEPT ![c] = l]
    BY <1>5
  <2> HIDE DEF r
  <2>2. /\ l.pc = r /\ l.p = p /\ l.made = NoId /\ l.cost \in Nat
        /\ l.plan = <<>> /\ l.raced \in BOOLEAN /\ IsCall(l)
    BY DEF Idle, IsCall, Fields
  <2> HIDE DEF l
  <2>3. CallOK(l, h.vaults)
    BY <1>2, <2>1, <2>2, NoEntries DEF CallOK, Planned, PCs, Planning, Sending
  <2> QED BY <1>1, <2>1, <2>3, OneCall
<1>6. CASE call' = [call EXCEPT ![c] = End(call[c], "refused")]
  <2> DEFINE l == call[c]
             e == End(l, "refused")
  <2>1. l.raced \in BOOLEAN
    BY DEF IInv, CallOK
  <2> HIDE DEF l
  <2>2. CallOK(e, h.vaults)
    BY <2>1, EndOK DEF Ended
  <2>3. call' = [call EXCEPT ![c] = e]
    BY <1>6 DEF l
  <2> HIDE DEF e
  <2> QED BY <1>1, <2>2, <2>3, OneCall
<1> QED BY <1>3, <1>4, <1>5, <1>6

\* A call that ends.
LEMMA EndStep ==
  ASSUME IInv, NEW c \in Calls, NEW how \in Ended,
         call' = [call EXCEPT ![c] = End(call[c], how)], h' = h, env' = env
  PROVE  IInv'
<1> DEFINE k == call[c]
           e == End(k, how)
<1>1. k.raced \in BOOLEAN /\ env' \in 0..MaxEnv
  BY DEF IInv, CallOK
<1> HIDE DEF k
<1>2. CallOK(e, h.vaults)
  BY <1>1, EndOK
<1>3. call' = [call EXCEPT ![c] = e]
  BY DEF k
<1> HIDE DEF e
<1> QED BY <1>1, <1>2, <1>3, OneCall

LEMMA QuoteStep ==
  ASSUME IInv, NEW c \in Calls, Quote(c) PROVE IInv'
<1> DEFINE k == call[c]
           cost == h.price + (IF k.pc = "pick" THEN h.premium ELSE 0)
           pc == IF k.pc = "pick" THEN "picking" ELSE "planning"
           l == [k EXCEPT !.cost = cost, !.pc = pc]
<1>1. CallOK(k, h.vaults) /\ k.pc \in {"plan", "pick"} /\ h' = h /\ env' \in 0..MaxEnv
  BY DEF IInv, Quote
<1>2. call' = [call EXCEPT ![c] = l]
  BY DEF Quote, IInv
<1>3. cost \in Nat
  BY HoldingsAssumption DEF IInv, HoldingsType
<1> HIDE DEF k, cost
<1>4. /\ l.pc = pc /\ l.p = k.p /\ l.made = k.made /\ l.cost = cost
      /\ l.plan = k.plan /\ l.raced = k.raced /\ IsCall(l)
  BY <1>1 DEF CallOK, IsCall, Fields
<1> HIDE DEF l
<1>5. CallOK(l, h.vaults)
  BY <1>1, <1>3, <1>4 DEF CallOK, Planned, PCs, Planning, Sending
<1> QED BY <1>1, <1>2, <1>5, OneCall

LEMMA ResolveGivenStep ==
  ASSUME IInv, NEW c \in Calls, ResolveGiven(c) PROVE IInv'
<1> DEFINE k == call[c]
           plan == GivenPlan(k.p)
           l == [k EXCEPT !.plan = plan, !.pc = "planned"]
<1>1. /\ CallOK(k, h.vaults) /\ k.pc = "planning" /\ HasSources(k.p)
      /\ h \in HoldingsType /\ env \in 0..MaxEnv
  BY DEF IInv, ResolveGiven
<1>2. CASE Stop(c, "refused")
  BY <1>1, <1>2, EndStep DEF Stop, Ended
<1>3. CASE ~GivenRefused(k.p) /\ ~Stop(c, "refused")
  <2>1. call' = [call EXCEPT ![c] = l] /\ h' = h /\ env' \in 0..MaxEnv
    BY <1>1, <1>3 DEF ResolveGiven, IInv
  <2> HIDE DEF k
  <2>2. k.p \in PurchaseForm
    BY <1>1 DEF CallOK, Planning
  <2>3. Entered(plan)
    BY <1>1, <1>3, <2>2, GivenPlanEntered
  <2> HIDE DEF plan
  <2>4. /\ l.pc = "planned" /\ l.p = k.p /\ l.made = k.made /\ l.cost = k.cost
        /\ l.plan = plan /\ l.raced = k.raced /\ IsCall(l)
    BY <1>1 DEF CallOK, IsCall, Fields
  <2> HIDE DEF l
  <2>5. CallOK(l, h.vaults)
    BY <1>1, <2>2, <2>3, <2>4 DEF CallOK, Planned, PCs, Planning, Sending
  <2> QED BY <2>1, <2>5, OneCall
<1> QED BY <1>2, <1>3 DEF ResolveGiven

LEMMA ResolveDiscoveredStep ==
  ASSUME IInv, NEW c \in Calls, ResolveDiscovered(c) PROVE IInv'
<1> DEFINE k == call[c]
           found == Discovered
           st == BuildFundingPlan(found, k.cost, k.p.mode, k.p.gw, k.p.asOp)
           pc == IF st.short > 0 THEN "insufficient" ELSE "planned"
           l == [k EXCEPT !.seen = found, !.plan = st.plan, !.pc = pc]
<1>1. /\ CallOK(k, h.vaults) /\ k.pc = "planning" /\ ~HasSources(k.p)
      /\ h \in HoldingsType /\ env \in 0..MaxEnv
  BY DEF IInv, ResolveDiscovered
<1>2. CASE k.p.mode = "plan"
  BY <1>2, EndStep DEF ResolveDiscovered, Stop, Ended
<1>3. CASE k.p.mode # "plan"
  <2>1. call' = [call EXCEPT ![c] = l] /\ h' = h /\ env' \in 0..MaxEnv
    <3> HIDE DEF found
    <3>1. /\ call' = [call EXCEPT ![c].seen = found, ![c].plan = st.plan, ![c].pc = pc]
          /\ h' = h /\ env' = env
      BY <1>3 DEF ResolveDiscovered, found
    <3> HIDE DEF st, pc
    <3> QED BY <1>1, <3>1 DEF IInv
  <2> HIDE DEF k
  <2>2. /\ k.p \in PurchaseForm /\ k.cost \in Nat
    BY <1>1 DEF CallOK, Planning
  <2>3. /\ Entered(st.plan)
        /\ ~(st.short > 0) => Pays(st.plan, k.cost)
        /\ Free(k.p) => NoBalance(st.plan)
    <3> DEFINE cost == k.cost
               p == k.p
    <3>1. cost \in Nat /\ st = BuildFundingPlan(Discovered, cost, p.mode, p.gw, p.asOp)
      BY <2>2
    <3> HIDE DEF cost, p, st
    <3>2. /\ Entered(st.plan)
          /\ ~(st.short > 0) => Pays(st.plan, cost)
          /\ Free(p) => NoBalance(st.plan)
      BY <1>1, <3>1, DiscoveredPlan
    <3> QED BY <3>2 DEF cost, p
  <2> HIDE DEF st, found
  <2>4. /\ l.pc = pc /\ l.p = k.p /\ l.made = k.made /\ l.cost = k.cost
        /\ l.plan = st.plan /\ l.raced = k.raced /\ IsCall(l)
    BY <1>1 DEF CallOK, IsCall, Fields
  <2> HIDE DEF l
  <2>5. CallOK(l, h.vaults)
    BY <1>1, <2>2, <2>3, <2>4 DEF CallOK, Planned, PCs, Planning, Sending
  <2> QED BY <2>1, <2>5, OneCall
<1> QED BY <1>2, <1>3

\* A purchase sends its transaction.
LEMMA SendStep ==
  ASSUME IInv, NEW c \in Calls, call[c].pc \in {"planned", "picking"},
         NEW tx, PurchaseTxOK(call[c].p, tx), Send(c, tx)
  PROVE  IInv'
<1> DEFINE k == call[c]
           l == [k EXCEPT !.pc = "flight", !.tx = tx, !.plan = <<>>]
<1>1. /\ CallOK(k, h.vaults) /\ k.pc \in {"planned", "picking"} /\ PurchaseTxOK(k.p, tx)
      /\ call' = [call EXCEPT ![c] = l] /\ h' = h /\ env' \in 0..MaxEnv
  BY DEF IInv, Send
<1> HIDE DEF k
<1>2. k.made = NoId /\ k.p.op \in Kinds
  BY <1>1 DEF CallOK, Planning, Sending, PurchaseForm
<1>3. /\ l.pc = "flight" /\ l.p = k.p /\ l.made = k.made /\ l.cost = k.cost
      /\ l.plan = <<>> /\ l.raced = k.raced /\ l.tx = tx /\ IsCall(l)
  BY <1>1 DEF CallOK, IsCall, Fields
<1> HIDE DEF l
<1>4. CallOK(l, h.vaults)
  BY <1>1, <1>2, <1>3, NoEntries DEF CallOK, Planned, PCs, Planning, Sending, Sent
<1> QED BY <1>1, <1>4, OneCall

LEMMA MaterializeStep ==
  ASSUME IInv, NEW c \in Calls, Materialize(c) PROVE IInv'
<1> DEFINE k == call[c]
           tx == PlanTx(k.p, k.plan)
<1>1. CallOK(k, h.vaults) /\ k.pc = "planned"
  BY DEF IInv, Materialize
<1>2. CASE MissingId(k.p, k.plan)
  BY <1>2, EndStep DEF Materialize, Stop, Ended
<1>3. CASE ~MissingId(k.p, k.plan)
  <2>1. Send(c, tx)
    BY <1>3 DEF Materialize
  <2>2. PurchaseTxOK(k.p, tx)
    <3> HIDE DEF k
    <3>1. Entered(k.plan) /\ (Free(k.p) => NoBalance(k.plan))
      BY <1>1 DEF CallOK, Planned, Free
    <3> DEFINE p == k.p
               plan == k.plan
    <3> HIDE DEF p, plan
    <3>2. Entered(plan) /\ (Free(p) => NoBalance(plan))
      BY <3>1 DEF p, plan
    <3>3. PurchaseTxOK(p, PlanTx(p, plan))
      BY <3>2, PlanTxOK
    <3> QED BY <3>3 DEF p, plan
  <2> HIDE DEF tx
  <2> QED BY <1>1, <2>1, <2>2, SendStep
<1> QED BY <1>2, <1>3

LEMMA PickSourceStep ==
  ASSUME IInv, NEW c \in Calls, PickSource(c) PROVE IInv'
<1> DEFINE k == call[c]
           p == k.p
           cs == Candidates(p, k.cost)
           s == cs[1]
           picked == SingleTx(p, s.kind, s.gw, s.id)
           liquid == SingleTx(p, "balance", NoGw, NoId)
<1>1. CallOK(k, h.vaults) /\ k.pc = "picking" /\ h \in HoldingsType
  BY DEF IInv, PickSource
<1>2. CASE cs # <<>>
  <2>1. Send(c, picked)
    BY <1>2 DEF PickSource
  <2>2. PurchaseTxOK(p, picked)
    <3> HIDE DEF k, p
    <3> DEFINE cost == k.cost
    <3> HIDE DEF cost
    <3>1. s.kind = WantedKind(p)
      <4>1. Candidates(p, cost)[1].kind = WantedKind(p)
        BY <1>1, <1>2, PickedKind DEF cost
      <4> QED BY <4>1 DEF cost
    <3>2. WantedKind(p) \in SourceKinds /\ WantedKind(p) # "balance"
      BY DEF WantedKind, SourceKinds
    <3> HIDE DEF s
    <3> DEFINE kind == s.kind
               g == s.gw
               id == s.id
    <3>3. kind \in SourceKinds /\ kind # "balance"
      BY <3>1, <3>2
    <3> HIDE DEF kind, g, id
    <3>4. PurchaseTxOK(p, SingleTx(p, kind, g, id))
      BY <3>3, SingleTxOK
    <3> QED BY <3>4 DEF kind, g, id
  <2> HIDE DEF picked
  <2> QED BY <1>1, <2>1, <2>2, SendStep
<1>3. CASE ~(cs # <<>>) /\ p.mode = "any"
  <2>1. Send(c, liquid)
    BY <1>3 DEF PickSource
  <2>2. PurchaseTxOK(p, liquid)
    <3>1. ~Free(p)
      BY <1>3 DEF Free
    <3> HIDE DEF p
    <3> QED BY <3>1, SingleTxOK DEF SourceKinds
  <2> HIDE DEF liquid
  <2> QED BY <1>1, <2>1, <2>2, SendStep
<1>4. CASE ~(cs # <<>>) /\ p.mode # "any"
  BY <1>4, EndStep DEF PickSource, Stop, Ended
<1> QED BY <1>2, <1>3, <1>4

-----------------------------------------------------------------------------
(* The steps of a transaction on its way.                                  *)

LEMMA SendSecondStep ==
  ASSUME IInv, NEW c \in Calls, SendSecond(c) PROVE IInv'
<1> DEFINE k == call[c]
           tx == SecondTx(k)
           l == [k EXCEPT !.pc = "flight", !.tx = tx]
<1>1. /\ CallOK(k, h.vaults) /\ k.pc = "confirmed" /\ h' = h /\ env' \in 0..MaxEnv
      /\ call' = [call EXCEPT ![c] = l]
  BY DEF IInv, SendSecond
<1> HIDE DEF k
<1>2. Owned(k, h.vaults) /\ tx = <<[t |-> "instant_withdrawal", id |-> k.made]>>
  BY <1>1 DEF CallOK, SecondTx, WithdrawalTx
<1> HIDE DEF tx
<1>3. /\ l.pc = "flight" /\ l.p = k.p /\ l.made = k.made /\ l.cost = k.cost
      /\ l.plan = k.plan /\ l.raced = k.raced /\ l.tx = tx /\ IsCall(l)
  BY <1>1 DEF CallOK, IsCall, Fields
<1> HIDE DEF l
<1>4. Sent(l, h.vaults)
  BY <1>2, <1>3 DEF Sent, Owned
<1>5. CallOK(l, h.vaults)
  BY <1>1, <1>3, <1>4 DEF CallOK, Planned, PCs, Planning, Sending
<1> QED BY <1>1, <1>5, OneCall

LEMMA LoseConfirmationStep ==
  ASSUME IInv, NEW c \in Calls, LoseConfirmation(c) PROVE IInv'
<1> DEFINE k == call[c]
           l == [k EXCEPT !.pc = "late"]
<1>1. /\ CallOK(k, h.vaults) /\ k.pc = "flight" /\ h' = h
      /\ call' = [call EXCEPT ![c] = l]
  BY DEF IInv, LoseConfirmation
<1>2. env' \in 0..MaxEnv
  BY HoldingsAssumption DEF IInv, LoseConfirmation
<1> HIDE DEF k
<1>3. /\ l.pc = "late" /\ l.p = k.p /\ l.made = k.made /\ l.cost = k.cost
      /\ l.plan = k.plan /\ l.raced = k.raced /\ l.tx = k.tx /\ IsCall(l)
  BY <1>1 DEF CallOK, IsCall, Fields
<1> HIDE DEF l
<1>4. Sent(l, h.vaults)
  BY <1>1, <1>3 DEF CallOK, Sent, Owned, Sending
<1>5. CallOK(l, h.vaults)
  BY <1>1, <1>3, <1>4 DEF CallOK, Planned, PCs, Planning, Sending
<1> QED BY <1>1, <1>2, <1>5, OneCall

\* What lands leaves the owner with holdings, and the call with the withdrawal
\* it has just created or with none.
LEMMA LandingEvolves ==
  ASSUME IInv, NEW c \in Calls, call[c].pc \in Sending, h' \in Execute(h, call[c].tx)
  PROVE  Evolves(h, h')
<1> DEFINE tx == call[c].tx
<1>1. TxOK(tx) /\ h \in HoldingsType
  <2> DEFINE k == call[c]
             v == h.vaults
  <2>1. Sent(k, v) /\ h \in HoldingsType
    BY DEF IInv, CallOK
  <2> HIDE DEF k, v
  <2>2. TxOK(k.tx)
    BY <2>1, SentType
  <2> QED BY <2>1, <2>2 DEF k
<1>2. h' \in Execute(h, tx)
  OBVIOUS
<1> HIDE DEF tx
<1> QED BY <1>1, <1>2, ExecuteEvolves

LEMMA LandStep ==
  ASSUME IInv, NEW c \in Calls, Land(c) PROVE IInv'
<1> DEFINE k == call[c]
           l == AfterLanding(k)
<1>1. /\ CallOK(k, h.vaults) /\ k.pc = "flight" /\ h' \in Execute(h, k.tx)
      /\ call' = ChangesFor(c, l) /\ env' \in 0..MaxEnv
      /\ h \in HoldingsType
  BY DEF IInv, Land
<1>2. Evolves(h, h')
  BY <1>1, LandingEvolves DEF Sending
<1>3. /\ call' = [d \in Calls |-> call'[d]] /\ call'[c] = l
      /\ \A d \in Calls : d # c => call'[d] = Racing(call[d])
  BY <1>1 DEF ChangesFor
<1> HIDE DEF k
<1>4. CallOK(l, h'.vaults)
  <2>1. CASE WantsSecond(k)
    <3>1. l = [k EXCEPT !.pc = "confirmed", !.made = k.tx[1].id]
      BY <2>1 DEF AfterLanding
    <3>2. /\ RequestOK(k.p, k.tx) /\ k.p.op = "decreaseDelegateStake"
      BY <1>1, <2>1 DEF WantsSecond, CallOK, Sending, Sent, Owned, Kinds, NoId
    <3>3. PICK id \in Nat : k.tx = DecreaseTx(k.p, id)
      BY <3>2 DEF RequestOK
    <3>4. id \in 1..Len(h'.vaults) /\ h'.vaults[id].gw = k.p.g
      <4> DEFINE p == k.p
      <4>1. /\ p.g \in Gateways /\ TxOK(DecreaseTx(p, id))
            /\ h' \in Execute(h, DecreaseTx(p, id))
        BY <1>1, <3>2, <3>3 DEF RequestOK
      <4> HIDE DEF p
      <4>2. id \in 1..Len(h'.vaults) /\ h'.vaults[id].gw = p.g
        BY <1>1, <4>1, DecreaseCreates
      <4> QED BY <4>2 DEF p
    <3>5. k.tx[1].id = id
      BY <3>3 DEF DecreaseTx
    <3> HIDE DEF l
    <3>6. /\ l.pc = "confirmed" /\ l.p = k.p /\ l.made = id /\ l.cost = k.cost
          /\ l.plan = k.plan /\ l.raced = k.raced /\ l.tx = k.tx /\ IsCall(l)
      BY <1>1, <3>1, <3>5 DEF CallOK, IsCall, Fields
    <3>7. Owned(l, h'.vaults) /\ l.tx[1].id = l.made
      BY <3>2, <3>4, <3>5, <3>6 DEF Owned, RequestOK
    <3> QED BY <1>1, <3>6, <3>7 DEF CallOK, Planned, PCs, Planning, Sending
  <2>2. CASE ~WantsSecond(k)
    <3>1. l = End(k, "ok") /\ k.raced \in BOOLEAN
      BY <1>1, <2>2 DEF AfterLanding, CallOK
    <3> QED BY <3>1, EndOK DEF Ended
  <2> QED BY <2>1, <2>2
<1> HIDE DEF l
<1>5. \A d \in Calls : call'[d] = Racing(call[d]) \/ CallOK(call'[d], h'.vaults)
  BY <1>3, <1>4
<1> QED BY <1>1, <1>2, <1>3, <1>5, HoldingsStep

LEMMA LandLateStep ==
  ASSUME IInv, NEW c \in Calls, LandLate(c) PROVE IInv'
<1> DEFINE k == call[c]
           l == End(k, "failed")
<1>1. /\ CallOK(k, h.vaults) /\ k.pc = "late" /\ h' \in Execute(h, k.tx)
      /\ call' = ChangesFor(c, l) /\ env' \in 0..MaxEnv
  BY DEF IInv, LandLate
<1>2. Evolves(h, h')
  BY <1>1, LandingEvolves DEF Sending
<1>3. /\ call' = [d \in Calls |-> call'[d]] /\ call'[c] = l
      /\ \A d \in Calls : d # c => call'[d] = Racing(call[d])
  BY <1>1 DEF ChangesFor
<1> HIDE DEF k
<1>4. CallOK(l, h'.vaults)
  BY <1>1, EndOK DEF CallOK, Ended
<1> HIDE DEF l
<1>5. \A d \in Calls : call'[d] = Racing(call[d]) \/ CallOK(call'[d], h'.vaults)
  BY <1>3, <1>4
<1> QED BY <1>1, <1>2, <1>3, <1>5, HoldingsStep

LEMMA NetworkStep ==
  ASSUME IInv, Network PROVE IInv'
<1>1. /\ h' \in MovePrice(h) \union DecayPremium(h) \union Matures(h) \union LosesGateway(h)
      /\ h \in HoldingsType /\ call' = [c \in Calls |-> Racing(call[c])]
  BY DEF IInv, Network
<1>2. Evolves(h, h')
  BY <1>1, NetworkEvolves
<1>3. env' \in 0..MaxEnv
  BY HoldingsAssumption DEF IInv, Network
<1>4. /\ call' = [d \in Calls |-> call'[d]]
      /\ \A d \in Calls : call'[d] = Racing(call[d]) \/ CallOK(call'[d], h'.vaults)
  BY <1>1
<1> QED BY <1>2, <1>3, <1>4, HoldingsStep

LEMMA InitIInv == Init => IInv
<1> SUFFICES ASSUME Init PROVE IInv
  OBVIOUS
<1>1. h \in HoldingsType /\ env \in 0..MaxEnv
  BY PortfoliosAssumption, HoldingsAssumption DEF Init
<1>2. /\ Idle.pc = "idle" /\ Idle.raced \in BOOLEAN /\ Idle.cost \in Nat
      /\ Idle.plan = <<>> /\ Idle.made = NoId /\ IsCall(Idle)
  BY DEF Idle, IsCall, Fields
<1>3. CallOK(Idle, h.vaults)
  <2>1. "idle" \in PCs /\ "idle" \notin Planning \cup Sending \cup {"confirmed"}
    BY DEF PCs, Planning, Sending
  <2> QED BY <1>2, <2>1, NoEntries DEF CallOK, Planned, Planning
<1>4. call = [c \in Calls |-> call[c]] /\ \A c \in Calls : call[c] = Idle
  BY DEF Init
<1> QED BY <1>1, <1>3, <1>4 DEF IInv

LEMMA NextIInv == IInv /\ [Next]_vars => IInv'
<1> SUFFICES ASSUME IInv, [Next]_vars PROVE IInv'
  OBVIOUS
<1>1. CASE UNCHANGED vars
  BY <1>1 DEF vars, IInv
<1>2. CASE Network
  BY <1>2, NetworkStep
<1>3. ASSUME NEW c \in Calls, Begin(c) PROVE IInv'
  BY <1>3, SubmitStep, BeginPurchaseStep DEF Begin
<1>4. ASSUME NEW c \in Calls, PurchaseStep(c) PROVE IInv'
  <2>1. CASE ThrowInsufficient(c)
    BY <2>1, EndStep DEF ThrowInsufficient, Stop, Ended
  <2> QED BY <1>4, <2>1, QuoteStep, ResolveGivenStep, ResolveDiscoveredStep,
             MaterializeStep, PickSourceStep DEF PurchaseStep
<1>5. ASSUME NEW c \in Calls, Outcome(c) PROVE IInv'
  <2>1. CASE Reject(c)
    BY <2>1, EndStep DEF Reject, Ended
  <2>2. CASE Expire(c)
    BY <2>2, EndStep DEF Expire, Ended
  <2> QED BY <1>5, <2>1, <2>2, LandStep, SendSecondStep, LoseConfirmationStep,
             LandLateStep DEF Outcome
<1> QED BY <1>1, <1>2, <1>3, <1>4, <1>5 DEF Next

LEMMA AlwaysIInv == Spec => []IInv
BY InitIInv, NextIInv, PTL DEF Spec

-----------------------------------------------------------------------------
(* The properties.                                                         *)

LEMMA TypesOfIInv == IInv => TypeOK
<1> SUFFICES ASSUME IInv PROVE TypeOK
  OBVIOUS
<1>1. ASSUME NEW c \in Calls
      PROVE  /\ call[c].pc \in {"idle", "plan", "pick", "planning", "picking",
                                "planned", "insufficient", "flight", "confirmed",
                                "late"} \union Ended
             /\ call[c].cost \in Nat /\ call[c].raced \in BOOLEAN
             /\ call[c].made \in Nat \union {NoId}
             /\ \A i \in DOMAIN call[c].plan : call[c].plan[i].amount \in Nat
  <2> DEFINE k == call[c]
             v == h.vaults
  <2>1. CallOK(k, v) /\ v \in Seq(Deposit)
    BY DEF IInv, HoldingsType
  <2> HIDE DEF k, v
  <2>2. /\ k.pc \in {"idle", "plan", "pick", "planning", "picking", "planned",
                     "insufficient", "flight", "confirmed", "late"} \union Ended
        /\ k.cost \in Nat /\ k.raced \in BOOLEAN
    BY <2>1 DEF CallOK, PCs, Planning, Sending
  <2>3. Len(v) \in Nat
    BY <2>1
  <2>4. k.made \in Nat \union {NoId}
    BY <2>1, <2>3 DEF CallOK, Sent, Owned
  <2>5. ASSUME NEW i \in DOMAIN k.plan PROVE k.plan[i].amount \in Nat
    <3>1. PlanOK(k.plan)
      BY <2>1 DEF CallOK, Entered
    <3>2. k.plan[i] \in ToSet(k.plan)
      BY DEF ToSet
    <3> QED BY <3>1, <3>2 DEF PlanOK
  <2> QED BY <2>2, <2>4, <2>5 DEF k
<1> QED BY <1>1 DEF TypeOK, IInv

(* The holdings of the owner and the state of each of its calls keep their *)
(* types under all the instructions, whatever they are raced by.           *)
THEOREM TypeCorrectness == Spec => []TypeOK
BY AlwaysIInv, TypesOfIInv, PTL

LEMMA PlansOfIInv == IInv => PlanSound
<1> SUFFICES ASSUME IInv, NEW c \in Calls, Planned(call[c])
             PROVE  Pays(call[c].plan, call[c].cost)
  BY DEF PlanSound, Pays
<1> QED BY DEF IInv, CallOK

(* Whatever an owner has, whichever of it a purchase may draw on and       *)
(* whatever it costs: the plan found for it pays the quoted price exactly, *)
(* from what each source has, within both caps and naming none twice.      *)
THEOREM Plans == Spec => []PlanSound
BY AlwaysIInv, PlansOfIInv, PTL

\* The calls that a step of the owner's other calls, or of the network, does
\* not end.
LEMMA OthersStay ==
  ASSUME IInv, NEW c \in Calls, call'[c] = Racing(call[c]), call[c].pc \notin Ended
  PROVE  call'[c].pc \notin Ended
<1> DEFINE k == call[c]
           v == h.vaults
<1>1. CallOK(k, v) /\ k.pc \notin Ended /\ call'[c] = Racing(k)
  BY DEF IInv
<1> HIDE DEF k, v
<1> QED BY <1>1, RacingOK

\* The holdings change in the step that ends a call when its transaction is
\* executed.
LEMMA LandingOf ==
  ASSUME IInv, Next, h' # h, NEW c \in Calls,
         call'[c].pc \in Ended, call[c].pc \notin Ended
  PROVE  call[c].pc \in Sending /\ h' \in Execute(h, call[c].tx)
<1>1. ~Network
  BY OthersStay DEF Network
<1>2. PICK d \in Calls : Begin(d) \/ PurchaseStep(d) \/ Outcome(d)
  BY <1>1 DEF Next
<1>3. ~Begin(d)
  BY DEF Begin, Submit, BeginPurchase
<1>4. ~PurchaseStep(d)
  BY DEF PurchaseStep, Quote, ResolveGiven, ResolveDiscovered, ThrowInsufficient,
         Materialize, PickSource, Send, Stop
<1>5. Land(d) \/ LandLate(d)
  BY <1>2, <1>3, <1>4 DEF Outcome, SendSecond, Reject, LoseConfirmation, Expire
<1>6. PICK new : call' = ChangesFor(d, new)
  BY <1>5 DEF Land, LandLate
<1>7. d = c
  BY <1>6, OthersStay DEF ChangesFor
<1> QED BY <1>5, <1>7 DEF Land, LandLate, Sending

LEMMA SecondOfItsOwn == IInv /\ [Next]_vars => [
  \A c \in Calls :
    call[c].made # NoId /\ h' # h /\ call'[c].pc \in Ended /\ call[c].pc \notin Ended
      => /\ call[c].tx = <<[t |-> "instant_withdrawal", id |-> call[c].made]>>
         /\ h.vaults[call[c].made].gw = call[c].p.g
         /\ ~h'.vaults[call[c].made].open]_vars
<1> SUFFICES ASSUME IInv, Next, NEW c \in Calls, call[c].made # NoId, h' # h,
                    call'[c].pc \in Ended, call[c].pc \notin Ended
             PROVE  /\ call[c].tx = <<[t |-> "instant_withdrawal", id |-> call[c].made]>>
                    /\ h.vaults[call[c].made].gw = call[c].p.g
                    /\ ~h'.vaults[call[c].made].open
  BY DEF vars
<1>1. call[c].pc \in Sending /\ h' \in Execute(h, call[c].tx)
  BY LandingOf
<1> DEFINE k == call[c]
           v == h.vaults
           y == h'
<1>2. /\ CallOK(k, v) /\ k.pc \in Sending /\ k.made # NoId
      /\ h \in HoldingsType /\ y \in Execute(h, k.tx)
  BY <1>1 DEF IInv
<1> SUFFICES /\ k.tx = <<[t |-> "instant_withdrawal", id |-> k.made]>>
             /\ v[k.made].gw = k.p.g /\ ~y.vaults[k.made].open
  OBVIOUS
<1> HIDE DEF k, v, y
<1>3. Owned(k, v) /\ k.tx = <<[t |-> "instant_withdrawal", id |-> k.made]>>
  BY <1>2 DEF CallOK, Sent
<1> DEFINE m == k.made
<1>4. y \in Execute(h, <<[t |-> "instant_withdrawal", id |-> m]>>)
  BY <1>2, <1>3
<1> HIDE DEF m
<1>5. ~y.vaults[m].open
  BY <1>2, <1>4, InstantCloses
<1> QED BY <1>3, <1>5 DEF Owned, m

(* The second transaction of an instant decrease is the one for the        *)
(* withdrawal that its own first transaction created, of the gateway asked *)
(* for, and closes it, whichever calls of the same owner go on beside it   *)
(* and however many withdrawals they create.                               *)
THEOREM SecondsOwn == Spec => InstantTakesItsOwn
BY SecondOfItsOwn, AlwaysIInv, PTL DEF Spec, InstantTakesItsOwn

LEMMA LiquidSpared == IInv /\ [Next]_vars => [
  \A c \in Calls :
    PaidBy(c) /\ call[c].p.mode \in {"stakes", "withdrawal"} /\ ~HasSources(call[c].p)
      => h.liquid - h'.liquid
           = IF call[c].p.op = "buyReturned" THEN h.premium ELSE 0]_vars
<1> SUFFICES ASSUME IInv, Next, NEW c \in Calls, PaidBy(c),
                    call[c].p.mode \in {"stakes", "withdrawal"}, ~HasSources(call[c].p)
             PROVE  h.liquid - h'.liquid
                      = IF call[c].p.op = "buyReturned" THEN h.premium ELSE 0
  BY DEF vars
<1>1. h' # h /\ call'[c].pc \in Ended /\ call[c].pc \notin Ended /\ call[c].p.op \in Kinds
  BY DEF PaidBy, Ended
<1>2. call[c].pc \in Sending /\ h' \in Execute(h, call[c].tx)
  BY <1>1, LandingOf
<1> DEFINE k == call[c]
           v == h.vaults
           y == h'
           p == k.p
           tx == k.tx
<1>3. CallOK(k, v) /\ k.pc \in Sending /\ h \in HoldingsType
  BY <1>2 DEF IInv
<1>4. y \in Execute(h, tx) /\ Free(p) /\ p.op \in Kinds
  BY <1>1, <1>2 DEF Free
<1> SUFFICES h.liquid - y.liquid = IF p.op = "buyReturned" THEN h.premium ELSE 0
  OBVIOUS
<1> HIDE DEF k, v, y
<1>5. PurchaseTxOK(p, tx)
  BY <1>3, <1>4 DEF CallOK, Sent, RequestOK, Owned
<1> HIDE DEF p, tx
<1> QED BY <1>3, <1>4, <1>5, PurchaseSpares

(* A purchase told to draw on stakes or withdrawals never touches the      *)
(* liquid balance: what it takes from there is the share of the one who    *)
(* returned the name, for every plan and every set of holdings.            *)
THEOREM LiquidKept == Spec => LiquidUntouched
BY LiquidSpared, AlwaysIInv, PTL DEF Spec, LiquidUntouched

-----------------------------------------------------------------------------
(* Whom a plan serves.  A source is served by a plan up to some amount if   *)
(* the plan takes as much from it, or has no room for it.                  *)
Full(plan, k) ==
  \/ Len(plan) >= MaxFundingSources
  \/ k = "delegation" /\ Cardinality(PlanGateways(plan)) >= MaxDelegationSources

Holds(plan, s, m) ==
  \E i \in 1..Len(plan) : Name(plan[i]) = Name(s) /\ plan[i].amount >= m

Refused(plan, s)   == Full(plan, s.kind) /\ Name(s) \notin Names(plan)
Served(plan, s, m) == m = 0 \/ Holds(plan, s, m) \/ Refused(plan, s)

\* A later plan has the entries of an earlier one, perhaps raised, and more.
Onward(p, q) ==
  /\ Len(p) <= Len(q)
  /\ \A i \in 1..Len(p) : Name(q[i]) = Name(p[i]) /\ p[i].amount <= q[i].amount

LEMMA OnwardSame ==
  ASSUME NEW D, Stocked(D), NEW p \in Seq(Entries(D)) PROVE Onward(p, p)
<1>1. \A i \in 1..Len(p) : p[i] \in Entries(D)
  OBVIOUS
<1>2. \A i \in 1..Len(p) : p[i].amount \in Nat
  BY <1>1, EntriesSummable DEF Summable
<1> QED BY <1>2 DEF Onward

LEMMA OnwardOn ==
  ASSUME NEW D, Stocked(D), NEW p \in Seq(Entries(D)), NEW q \in Seq(Entries(D)),
         NEW r \in Seq(Entries(D)), Onward(p, q), Onward(q, r)
  PROVE  Onward(p, r)
<1>1. /\ \A i \in 1..Len(p) : p[i] \in Entries(D)
      /\ \A i \in 1..Len(q) : q[i] \in Entries(D)
      /\ \A i \in 1..Len(r) : r[i] \in Entries(D)
  OBVIOUS
<1>2. /\ \A i \in 1..Len(p) : p[i].amount \in Nat
      /\ \A i \in 1..Len(q) : q[i].amount \in Nat
      /\ \A i \in 1..Len(r) : r[i].amount \in Nat
  BY <1>1, EntriesSummable DEF Summable
<1>3. Len(p) \in Nat /\ Len(q) \in Nat /\ Len(r) \in Nat
  OBVIOUS
<1>4. Len(p) <= Len(q) /\ Len(q) <= Len(r)
  BY DEF Onward
<1>5. \A i \in 1..Len(p) : i \in 1..Len(q) /\ i \in 1..Len(r)
  BY <1>3, <1>4
<1>6. \A i \in 1..Len(p) : /\ Name(q[i]) = Name(p[i]) /\ p[i].amount <= q[i].amount
                           /\ Name(r[i]) = Name(q[i]) /\ q[i].amount <= r[i].amount
  BY <1>5 DEF Onward
<1>7. Len(p) <= Len(r)
  BY <1>3, <1>4
<1>8. \A i \in 1..Len(p) : p[i].amount <= r[i].amount
  BY <1>2, <1>5, <1>6
<1> QED BY <1>6, <1>7, <1>8 DEF Onward

LEMMA OnwardGateways ==
  ASSUME NEW X, NEW p \in Seq(X), NEW q \in Seq(X), Onward(p, q)
  PROVE  PlanGateways(p) \subseteq PlanGateways(q)
<1>1. \A i \in 1..Len(p) : /\ i \in 1..Len(q)
                           /\ q[i].kind = p[i].kind /\ q[i].gw = p[i].gw
  BY DEF Onward, Name
<1>2. PlanGateways(p)
        = {p[i].gw : i \in {j \in 1..Len(p) : p[j].kind = "delegation"}}
  BY GatewaysOfPlan
<1>3. PlanGateways(q)
        = {q[i].gw : i \in {j \in 1..Len(q) : q[j].kind = "delegation"}}
  BY GatewaysOfPlan
<1> QED BY <1>1, <1>2, <1>3

\* The gateway of a stake is in a plan only with an entry of that stake.
LEMMA StakeInPlan ==
  ASSUME NEW D, Stocked(D), Told(D), NEW plan \in Seq(Entries(D)),
         NEW s \in D, s.kind = "delegation"
  PROVE  s.gw \in PlanGateways(plan) <=> Name(s) \in Names(plan)
<1>1. PlanGateways(plan)
        = {plan[i].gw : i \in {j \in 1..Len(plan) : plan[j].kind = "delegation"}}
  BY GatewaysOfPlan
<1>2. ASSUME NEW i \in 1..Len(plan)
      PROVE  plan[i].kind = "delegation" /\ plan[i].gw = s.gw <=> Name(plan[i]) = Name(s)
  <2>1. plan[i] \in Entries(D)
    OBVIOUS
  <2>2. PICK t \in D : /\ plan[i].kind = t.kind /\ plan[i].gw = t.gw
                       /\ plan[i].id = t.id
    BY <2>1, EntryFacts
  <2>3. s.id = NoId /\ (t.kind = "delegation" => t.id = NoId)
    BY DEF Told
  <2> QED BY <2>2, <2>3 DEF Name
<1> QED BY <1>1, <1>2 DEF Names

\* Who is refused once is refused for good.
LEMMA RefusedOn ==
  ASSUME NEW D, Stocked(D), Told(D), NEW x \in States(D), NEW y \in States(D),
         NEW need, Sound(x, need), Sound(y, need), Onward(x.plan, y.plan),
         NEW s \in D, Refused(x.plan, s)
  PROVE  Refused(y.plan, s)
<1> DEFINE p == x.plan
           q == y.plan
<1>1. p \in Seq(Entries(D)) /\ q \in Seq(Entries(D)) /\ Onward(p, q)
  BY DEF States
<1>2. /\ Len(q) <= MaxFundingSources
      /\ IsFiniteSet(PlanGateways(p)) /\ IsFiniteSet(PlanGateways(q))
      /\ Cardinality(PlanGateways(q)) <= MaxDelegationSources
  BY DEF Sound
<1>3. Full(p, s.kind) /\ Name(s) \notin Names(p)
  BY DEF Refused
<1> HIDE DEF p, q
<1>4. Len(p) \in Nat /\ Len(q) \in Nat /\ Len(p) <= Len(q)
  BY <1>1 DEF Onward
<1>5. CASE Len(p) >= MaxFundingSources
  <2>1. Len(q) = Len(p) /\ Len(q) >= MaxFundingSources
    BY <1>2, <1>4, <1>5, CapsAssumption
  <2>2. \A i \in 1..Len(q) : Name(q[i]) = Name(p[i])
    BY <1>1, <2>1 DEF Onward
  <2>3. Names(q) = Names(p)
    BY <2>1, <2>2 DEF Names
  <2> QED BY <1>3, <2>1, <2>3 DEF Refused, Full, p, q
<1>6. CASE /\ s.kind = "delegation"
           /\ Cardinality(PlanGateways(p)) >= MaxDelegationSources
  <2>1. PlanGateways(p) \in SUBSET PlanGateways(q)
    BY <1>1, OnwardGateways
  <2>2. /\ Cardinality(PlanGateways(p)) \in Nat /\ Cardinality(PlanGateways(q)) \in Nat
        /\ Cardinality(PlanGateways(p)) <= Cardinality(PlanGateways(q))
    BY <1>2, <2>1, FS_Subset, FS_CardinalityType
  <2>3. Cardinality(PlanGateways(q)) = Cardinality(PlanGateways(p))
    BY <1>2, <1>6, <2>2, CapsAssumption
  <2>4. PlanGateways(q) = PlanGateways(p)
    BY <1>2, <2>1, <2>3, FS_Subset
  <2>5. Name(s) \notin Names(q)
    BY <1>1, <1>3, <1>6, <2>4, StakeInPlan
  <2> QED BY <1>6, <2>4, <2>5 DEF Refused, Full, q
<1> QED BY <1>3, <1>5, <1>6 DEF Full

\* Whom a plan serves is served by the later plans.
LEMMA ServedOn ==
  ASSUME NEW D, Stocked(D), Told(D), NEW x \in States(D), NEW y \in States(D),
         NEW need, Sound(x, need), Sound(y, need), Onward(x.plan, y.plan),
         NEW s \in D, NEW m \in Nat, Served(x.plan, s, m)
  PROVE  Served(y.plan, s, m)
<1>1. CASE m = 0
  BY <1>1 DEF Served
<1>2. CASE Holds(x.plan, s, m)
  <2>1. PICK i \in 1..Len(x.plan) : Name(x.plan[i]) = Name(s) /\ x.plan[i].amount >= m
    BY <1>2 DEF Holds
  <2>2. x.plan \in Seq(Entries(D)) /\ y.plan \in Seq(Entries(D))
    BY DEF States
  <2>3. i \in 1..Len(y.plan)
    BY <2>2 DEF Onward
  <2>4. /\ Name(y.plan[i]) = Name(x.plan[i]) /\ x.plan[i].amount <= y.plan[i].amount
    BY DEF Onward
  <2>5. x.plan[i] \in Entries(D) /\ y.plan[i] \in Entries(D)
    BY <2>2, <2>3
  <2>6. x.plan[i].amount \in Nat /\ y.plan[i].amount \in Nat
    BY <2>5, EntriesSummable DEF Summable
  <2>7. y.plan[i].amount >= m
    BY <2>1, <2>4, <2>6
  <2> QED BY <2>1, <2>3, <2>4, <2>7 DEF Served, Holds
<1>3. CASE Refused(x.plan, s)
  BY <1>3, RefusedOn DEF Served
<1> QED BY <1>1, <1>2, <1>3 DEF Served

\* Drawing on a source serves it, unless that pays the rest.
LEMMA DrawServes ==
  ASSUME NEW D, Stocked(D), Told(D), NEW st \in States(D), NEW s \in D,
         NEW limit \in 0..s.avail, NEW need, Sound(st, need),
         Name(s) \notin Names(st.plan), st.capped => Full(st.plan, s.kind)
  PROVE  LET new == Draw(st, s, limit)
         IN  /\ Onward(st.plan, new.plan) /\ new.short <= st.short
             /\ new.capped => Full(new.plan, s.kind)
             /\ new.short > 0 => Served(new.plan, s, limit)
             /\ st.short = 0 => new = st
             /\ ~st.capped /\ new.capped => limit > 0
<1> DEFINE take == Lesser(limit, st.short)
           new == Draw(st, s, limit)
           u == Append(st.plan, Taken(s, take))
<1>1. /\ limit \in Nat /\ st.short \in Nat /\ s.avail \in Nat
      /\ st.plan \in Seq(Entries(D)) /\ st.capped \in BOOLEAN
      /\ st = [plan |-> st.plan, short |-> st.short, capped |-> st.capped]
  BY DEF Stocked, States
<1>2. /\ take \in Nat /\ take <= limit /\ take <= st.short
      /\ take = limit \/ take = st.short
  BY <1>1 DEF Lesser
<1>3. Onward(st.plan, st.plan)
  BY <1>1, OnwardSame
<1>4. st.short = 0 => new = st
  <2>1. st.short = 0 => take = 0
    BY <1>2
  <2> HIDE DEF take
  <2> QED BY <2>1 DEF Draw, take
<1>5. CASE st.capped
  <2>1. new = st
    BY <1>5 DEF Draw
  <2>2. Refused(st.plan, s)
    BY <1>5 DEF Refused
  <2> HIDE DEF new
  <2> QED BY <1>1, <1>3, <1>4, <1>5, <2>1, <2>2 DEF Served, new
<1>6. CASE ~st.capped /\ take = 0
  <2>1. new = st
    <3> HIDE DEF take
    <3> QED BY <1>6 DEF Draw, take
  <2>2. st.short > 0 => limit = 0
    BY <1>1, <1>2, <1>6
  <2> HIDE DEF new
  <2> QED BY <1>1, <1>3, <1>4, <1>6, <2>1, <2>2 DEF Served, new
<1>7. CASE ~st.capped /\ take # 0 /\ ~MayPush(st.plan, s)
  <2>1. new = [st EXCEPT !.capped = TRUE]
    <3> HIDE DEF take
    <3> QED BY <1>7 DEF Draw, take
  <2>2. new.plan = st.plan /\ new.short = st.short
    <3> HIDE DEF new
    <3> QED BY <1>1, <2>1
  <2>3. Full(st.plan, s.kind)
    <3>1. /\ Len(st.plan) \in Nat
          /\ IsFiniteSet(PlanGateways(st.plan))
      BY <1>1 DEF Sound
    <3>2. Cardinality(PlanGateways(st.plan)) \in Nat
      BY <3>1, FS_CardinalityType
    <3> QED BY <1>7, <3>1, <3>2, CapsAssumption DEF Full, MayPush
  <2>4. Refused(st.plan, s)
    BY <2>3 DEF Refused
  <2>5. limit > 0
    BY <1>1, <1>2, <1>7
  <2> HIDE DEF new
  <2> QED BY <1>1, <1>3, <1>4, <2>2, <2>3, <2>4, <2>5 DEF Served, new
<1>8. CASE ~st.capped /\ take # 0 /\ MayPush(st.plan, s)
  <2>1. new = [st EXCEPT !.plan = Append(@, Taken(s, take)), !.short = @ - take]
    <3> HIDE DEF take
    <3> QED BY <1>8 DEF Draw, take
  <2>2. new.plan = u /\ new.short = st.short - take /\ new.capped = st.capped
    <3> HIDE DEF new, take
    <3> QED BY <1>1, <2>1
  <2>3. Taken(s, take) \in Entries(D) /\ Taken(s, take).amount = take
        /\ Name(Taken(s, take)) = Name(s)
    <3>1. take \in 1..s.avail
      BY <1>1, <1>2, <1>8
    <3> HIDE DEF take
    <3> QED BY <3>1 DEF Entries, Taken, Name
  <2> HIDE DEF new
  <2>4. /\ Len(st.plan) \in Nat /\ Len(u) = Len(st.plan) + 1
        /\ u[Len(st.plan) + 1] = Taken(s, take)
        /\ \A i \in 1..Len(st.plan) : u[i] = st.plan[i] /\ st.plan[i] \in Entries(D)
    <3> DEFINE e == Taken(s, take)
    <3>1. e \in Entries(D)
      BY <2>3
    <3> HIDE DEF e
    <3>2. /\ Len(st.plan) \in Nat /\ Len(Append(st.plan, e)) = Len(st.plan) + 1
          /\ Append(st.plan, e)[Len(st.plan) + 1] = e
          /\ \A i \in 1..Len(st.plan) : /\ Append(st.plan, e)[i] = st.plan[i]
                                        /\ st.plan[i] \in Entries(D)
      BY <1>1, <3>1
    <3> QED BY <3>2 DEF e
  <2>5. \A i \in 1..Len(st.plan) : st.plan[i].amount \in Nat
    BY <2>4, EntriesSummable DEF Summable
  <2> HIDE DEF u
  <2>6. Onward(st.plan, u)
    BY <2>4, <2>5 DEF Onward
  <2>7. st.short - take > 0 => take = limit
    BY <1>1, <1>2
  <2>8. Holds(u, s, take)
    <3>1. Len(st.plan) + 1 \in 1..Len(u) /\ take >= take
      BY <1>2, <2>4
    <3> HIDE DEF take
    <3> QED BY <2>3, <2>4, <3>1 DEF Holds
  <2>9. st.short - take <= st.short
    BY <1>1, <1>2
  <2> HIDE DEF take
  <2> QED BY <1>4, <1>8, <2>2, <2>6, <2>7, <2>8, <2>9 DEF Served, new
<1> QED BY <1>1, <1>5, <1>6, <1>7, <1>8

\* So a pass serves every source of its list, unless it pays the rest.
LEMMA PassServes ==
  ASSUME NEW D, Stocked(D), Told(D), NEW st \in States(D), NEW kind,
         NEW q, Listed(q, D, kind), NEW takes,
         NEW need \in Nat, Sound(st, need), Names(q) \cap Names(st.plan) = {}
  PROVE  LET end == Pass(st, q, takes)
         IN  /\ Onward(st.plan, end.plan) /\ end.short <= st.short
             /\ end.short > 0 =>
                  \A i \in 1..Len(q) : Served(end.plan, q[i], Limit(q[i], takes))
<1>1. /\ q \in Seq(D) /\ Separate(q)
      /\ \A i \in 1..Len(q) : q[i] \in D /\ q[i].kind = kind
  <2>1. q \in Seq(D) /\ Separate(q) /\ q \in Seq({s \in D : s.kind = kind})
    BY DEF Listed
  <2> QED BY <2>1
<1>2. PICK r : PassRun(r, st, q, takes, D)
  BY <1>1, PassRuns
<1> DEFINE n == Len(q)
           before(k) == {Name(q[i]) : i \in 1..k}
           T == {k \in 0..n :
                   /\ Sound(r[k], need)
                   /\ Names(r[k].plan) \subseteq Names(st.plan) \cup before(k)
                   /\ Onward(st.plan, r[k].plan) /\ r[k].short <= st.short
                   /\ r[k].capped => Full(r[k].plan, kind)
                   /\ r[k].short > 0 =>
                        \A i \in 1..k : Served(r[k].plan, q[i], Limit(q[i], takes))}
<1>3. n \in Nat /\ \A i \in 1..n : q[i] \in D
  BY <1>1
<1>4. 0 \in T
  <2>1. r[0] = [st EXCEPT !.capped = FALSE]
    BY <1>2 DEF PassRun
  <2>2. st \in [plan : Seq(Entries(D)), short : Nat, capped : BOOLEAN]
    BY DEF States
  <2>3. r[0].plan = st.plan /\ r[0].short = st.short /\ ~r[0].capped
    BY <2>1, <2>2
  <2>4. Onward(st.plan, st.plan)
    BY <2>2, OnwardSame
  <2>5. \A i \in 1..0 : FALSE
    OBVIOUS
  <2>6. Sound(r[0], need)
    BY <2>3 DEF Sound
  <2> QED BY <1>3, <2>2, <2>3, <2>4, <2>5, <2>6
<1>5. ASSUME NEW k \in 0..(n - 1), k \in T PROVE k + 1 \in T
  <2> DEFINE s == q[k + 1]
             x == r[k]
             limit == Limit(s, takes)
             y == Draw(x, s, limit)
  <2>1. k + 1 \in 1..n /\ (k + 1) - 1 = k /\ k \in 0..n /\ s \in D /\ s.kind = kind
    BY <1>1, <1>3
  <2>2. x \in States(D) /\ r[k + 1] = y /\ y \in States(D)
    <3>1. k + 1 \in 0..n
      BY <2>1
    <3> QED BY <1>2, <2>1, <3>1 DEF PassRun
  <2>3. limit \in 0..s.avail
    BY <2>1, LimitType
  <2>4. Name(s) \notin before(k)
    BY <1>3, <2>1, <1>1 DEF Separate
  <2>5. Name(s) \in Names(q)
    BY <2>1 DEF Names
  <2>6. /\ Sound(x, need) /\ Names(x.plan) \subseteq Names(st.plan) \cup before(k)
        /\ Onward(st.plan, x.plan) /\ x.short <= st.short
        /\ x.capped => Full(x.plan, kind)
        /\ x.short > 0 => \A i \in 1..k : Served(x.plan, q[i], Limit(q[i], takes))
    BY <1>5
  <2>7. Name(s) \notin Names(x.plan)
    BY <2>4, <2>5, <2>6
  <2>8. before(k + 1) = before(k) \cup {Name(s)}
    <3>1. \A i \in 1..(k + 1) : i \in 1..k \/ i = k + 1
      BY <2>1
    <3>2. \A i \in 1..k : i \in 1..(k + 1)
      BY <2>1
    <3>3. k + 1 \in 1..(k + 1)
      BY <2>1
    <3> QED BY <3>1, <3>2, <3>3
  <2>9. \A i \in 1..(k + 1) : i = k + 1 \/ i \in 1..k
    BY <2>1
  <2> HIDE DEF x, limit, before
  <2>10. /\ Sound(y, need) /\ Names(y.plan) \subseteq Names(x.plan) \cup {Name(s)}
    <3> HIDE DEF s
    <3> QED BY <2>1, <2>2, <2>3, <2>6, <2>7, DrawSound
  <2>11. /\ Onward(x.plan, y.plan) /\ y.short <= x.short
         /\ y.capped => Full(y.plan, kind)
         /\ y.short > 0 => Served(y.plan, s, limit)
    <3> HIDE DEF s
    <3> QED BY <2>1, <2>2, <2>3, <2>6, <2>7, DrawServes
  <2> HIDE DEF y
  <2>12. /\ st.plan \in Seq(Entries(D)) /\ x.plan \in Seq(Entries(D))
         /\ y.plan \in Seq(Entries(D))
         /\ st.short \in Nat /\ x.short \in Nat /\ y.short \in Nat
    BY <2>2 DEF States
  <2>13. Onward(st.plan, y.plan)
    BY <2>6, <2>11, <2>12, OnwardOn
  <2>14. y.short <= st.short /\ (y.short > 0 => x.short > 0)
    BY <2>6, <2>11, <2>12
  <2>15. ASSUME y.short > 0, NEW i \in 1..(k + 1)
         PROVE  Served(y.plan, q[i], Limit(q[i], takes))
    <3>1. CASE i = k + 1
      BY <2>11, <2>15, <3>1 DEF limit
    <3>2. CASE i \in 1..k
      <4>1. q[i] \in D
        BY <1>3, <2>1, <3>2
      <4>2. Limit(q[i], takes) \in 0..q[i].avail /\ q[i].avail \in Nat
        BY <4>1, LimitType DEF Stocked
      <4>3. Limit(q[i], takes) \in Nat
        BY <4>2
      <4>4. Served(x.plan, q[i], Limit(q[i], takes))
        BY <2>6, <2>14, <2>15, <3>2
      <4> QED BY <2>2, <2>6, <2>10, <2>11, <4>1, <4>3, <4>4, ServedOn
    <3> QED BY <2>9, <3>1, <3>2
  <2>16. k + 1 \in 0..n
    BY <2>1
  <2>17. Names(y.plan) \subseteq Names(st.plan) \cup before(k + 1)
    BY <2>6, <2>8, <2>10
  <2> HIDE DEF s
  <2> QED BY <2>2, <2>10, <2>11, <2>13, <2>14, <2>15, <2>16, <2>17
<1>6. n \in T
  <2> HIDE DEF T
  <2>1. \A k \in 0..n : k \in T
    BY <1>3, <1>4, <1>5, UpToByInduction
  <2>2. n \in 0..n
    BY <1>3
  <2> QED BY <2>1, <2>2
<1>7. r[n] = Pass(st, q, takes)
  BY <1>2 DEF PassRun
<1> QED BY <1>6, <1>7

\* No entry of the plan takes a stake below its floor.
SparesFloors(plan) ==
  \A i \in 1..Len(plan) :
    plan[i].kind = "delegation" => plan[i].amount <= Above(plan[i].avail, plan[i].min)

LEMMA DrawSpares ==
  ASSUME NEW D, Stocked(D), NEW st \in States(D), NEW s \in D,
         NEW limit \in 0..s.avail, SparesFloors(st.plan),
         s.kind = "delegation" => limit <= Above(s.avail, s.min)
  PROVE  SparesFloors(Draw(st, s, limit).plan)
<1> DEFINE take == Lesser(limit, st.short)
           new == Draw(st, s, limit)
           e == Taken(s, take)
           u == Append(st.plan, e)
<1>1. /\ limit \in Nat /\ st.short \in Nat /\ s.avail \in Nat /\ s.min \in Nat
      /\ st.plan \in Seq(Entries(D))
      /\ st = [plan |-> st.plan, short |-> st.short, capped |-> st.capped]
  BY DEF Stocked, States
<1>2. take \in Nat /\ take <= limit /\ take <= st.short
  BY <1>1 DEF Lesser
<1>3. CASE new = st
  BY <1>3
<1>4. CASE new = [st EXCEPT !.capped = TRUE]
  <2>1. new.plan = st.plan
    BY <1>1, <1>4
  <2> QED BY <2>1
<1>5. CASE new = [st EXCEPT !.plan = Append(@, Taken(s, take)), !.short = @ - take]
           /\ take # 0
  <2>1. new.plan = u
    <3> HIDE DEF new, take
    <3> QED BY <1>1, <1>5
  <2>2. /\ e \in Entries(D) /\ e.amount = take /\ e.kind = s.kind
        /\ e.avail = s.avail /\ e.min = s.min
    <3>1. take \in 1..s.avail
      BY <1>1, <1>2, <1>5
    <3> HIDE DEF take
    <3> QED BY <3>1 DEF Entries, Taken
  <2> HIDE DEF e
  <2>3. /\ Len(st.plan) \in Nat /\ Len(u) = Len(st.plan) + 1
        /\ u[Len(st.plan) + 1] = e
        /\ \A i \in 1..Len(st.plan) : u[i] = st.plan[i]
    BY <1>1, <2>2
  <2>4. Above(s.avail, s.min) \in Nat
    BY <1>1 DEF Above
  <2>5. s.kind = "delegation" => take <= Above(s.avail, s.min)
    BY <1>1, <1>2, <2>4
  <2> HIDE DEF u, new, take
  <2>6. \A i \in 1..Len(u) : i \in 1..Len(st.plan) \/ i = Len(st.plan) + 1
    BY <2>3
  <2>7. ASSUME NEW i \in 1..Len(u), u[i].kind = "delegation"
        PROVE  u[i].amount <= Above(u[i].avail, u[i].min)
    <3>1. CASE i \in 1..Len(st.plan)
      BY <2>3, <2>7, <3>1 DEF SparesFloors
    <3>2. CASE i = Len(st.plan) + 1
      BY <2>2, <2>3, <2>5, <2>7, <3>2
    <3> QED BY <2>6, <3>1, <3>2
  <2> QED BY <2>1, <2>7 DEF SparesFloors, new
<1> HIDE DEF take
<1> QED BY <1>3, <1>4, <1>5 DEF Draw, take

\* Every pass but the last spares the floors.
LEMMA PassSpares ==
  ASSUME NEW D, Stocked(D), NEW st \in States(D), NEW q \in Seq(D), NEW takes,
         SparesFloors(st.plan),
         takes # "all" \/ \A i \in 1..Len(q) : q[i].kind # "delegation"
  PROVE  SparesFloors(Pass(st, q, takes).plan)
<1>1. PICK r : PassRun(r, st, q, takes, D)
  BY PassRuns
<1> DEFINE n == Len(q)
           T == {k \in 0..n : SparesFloors(r[k].plan)}
<1>2. n \in Nat /\ \A i \in 1..n : q[i] \in D
  OBVIOUS
<1>3. 0 \in T
  <2>1. r[0] = [st EXCEPT !.capped = FALSE]
    BY <1>1 DEF PassRun
  <2>2. r[0].plan = st.plan
    BY <2>1 DEF States
  <2> QED BY <1>2, <2>2
<1>4. ASSUME NEW k \in 0..(n - 1), k \in T PROVE k + 1 \in T
  <2> DEFINE s == q[k + 1]
             x == r[k]
             limit == Limit(s, takes)
  <2>1. k + 1 \in 1..n /\ (k + 1) - 1 = k /\ k \in 0..n /\ s \in D /\ k + 1 \in 0..n
    BY <1>2
  <2>2. x \in States(D) /\ r[k + 1] = Draw(x, s, limit)
    BY <1>1, <2>1 DEF PassRun
  <2>3. limit \in 0..s.avail
    BY <2>1, LimitType
  <2>4. s.kind = "delegation" => limit <= Above(s.avail, s.min)
    <3>1. s.kind = "delegation" => takes # "all"
      BY <2>1
    <3>2. takes # "all" => limit = Above(s.avail, s.min)
      BY DEF Limit
    <3>3. limit \in Int
      BY <2>3
    <3> QED BY <3>1, <3>2, <3>3
  <2>5. SparesFloors(x.plan)
    BY <1>4
  <2> HIDE DEF s, x, limit
  <2>6. SparesFloors(Draw(x, s, limit).plan)
    BY <2>1, <2>2, <2>3, <2>4, <2>5, DrawSpares
  <2> QED BY <2>1, <2>2, <2>6
<1>5. n \in T
  <2> HIDE DEF T
  <2>1. \A k \in 0..n : k \in T
    BY <1>2, <1>3, <1>4, UpToByInduction
  <2>2. n \in 0..n
    BY <1>2
  <2> QED BY <2>1, <2>2
<1>6. r[n] = Pass(st, q, takes)
  BY <1>1 DEF PassRun
<1> QED BY <1>5, <1>6

-----------------------------------------------------------------------------
(* What the last pass serves.                                              *)

\* Raising an entry by nothing changes nothing.
LEMMA RaisedByNone ==
  ASSUME NEW D, Stocked(D), NEW plan \in Seq(Entries(D)), NEW i \in 1..Len(plan)
  PROVE  Raised(plan, i, 0) = plan
<1> DEFINE e == plan[i]
<1>1. e \in Entries(D)
  OBVIOUS
<1>2. PICK t \in D : e = Taken(t, e.amount) /\ e.amount \in 1..t.avail
  <2> HIDE DEF e
  <2> QED BY <1>1, EntryFacts
<1>3. e.amount \in Nat /\ e.amount + 0 = e.amount
  <2> HIDE DEF e
  <2>1. e.amount \in Nat
    BY <1>1, EntriesSummable DEF Summable
  <2> QED BY <2>1
<1>4. [e EXCEPT !.amount = @ + 0] = e
  <2> HIDE DEF e
  <2>1. [e EXCEPT !.amount = @ + 0] = [e EXCEPT !.amount = e.amount]
    BY <1>3
  <2>2. [e EXCEPT !.amount = e.amount] = e
    BY <1>2 DEF Taken
  <2> QED BY <2>1, <2>2
<1>5. Raised(plan, i, 0) = [plan EXCEPT ![i] = [e EXCEPT !.amount = @ + 0]]
  BY DEF Raised
<1>6. [plan EXCEPT ![i] = e] = plan
  OBVIOUS
<1> HIDE DEF e
<1> QED BY <1>4, <1>5, <1>6

\* Draining a stake serves all of it, unless that pays the rest or the pass
\* was stopped before.
LEMMA DrainServes ==
  ASSUME NEW D, Stocked(D), Told(D), NEW st \in States(D), NEW s \in Stakes(D),
         NEW need, Sound(st, need)
  PROVE  LET new == DrainFloor(st, s)
         IN  /\ Onward(st.plan, new.plan) /\ new.short <= st.short
             /\ st.capped => new = st
             /\ ~st.capped /\ new.capped => Refused(new.plan, s) /\ s.avail > 0
             /\ ~new.capped /\ new.short > 0 => Served(new.plan, s, s.avail)
             /\ st.short = 0 => new.plan = st.plan
<1> DEFINE new == DrainFloor(st, s)
<1>1. /\ s \in D /\ s.kind = "delegation" /\ s.avail \in Nat /\ s.avail \in 0..s.avail
      /\ st.plan \in Seq(Entries(D)) /\ st.short \in Nat /\ st.capped \in BOOLEAN
      /\ st = [plan |-> st.plan, short |-> st.short, capped |-> st.capped]
  BY DEF Stakes, Stocked, States
<1>2. Onward(st.plan, st.plan)
  BY <1>1, OnwardSame
<1>3. CASE new = st /\ st.capped
  <2> HIDE DEF new
  <2> QED BY <1>1, <1>2, <1>3 DEF new
<1>4. CASE /\ new = Draw(st, s, s.avail) /\ Name(s) \notin Names(st.plan)
           /\ ~st.capped
  <2>1. /\ Onward(st.plan, new.plan) /\ new.short <= st.short
        /\ new.capped => Full(new.plan, s.kind)
        /\ new.short > 0 => Served(new.plan, s, s.avail)
        /\ st.short = 0 => new = st
        /\ new.capped => s.avail > 0
    <3> HIDE DEF new
    <3> QED BY <1>1, <1>4, DrawServes
  <2>2. new.capped => new.plan = st.plan
    <3>1. Draw(st, s, s.avail).capped => Draw(st, s, s.avail).plan = st.plan
      BY <1>1, <1>4 DEF Draw
    <3> HIDE DEF new
    <3> QED BY <1>4, <3>1
  <2> HIDE DEF new
  <2> QED BY <1>4, <2>1, <2>2 DEF Refused, new
<1>5. ASSUME NEW i \in 1..Len(st.plan), NEW n \in 0..(s.avail - st.plan[i].amount),
             Name(st.plan[i]) = Name(s), n <= st.short, ~st.capped,
             n = Lesser(s.avail - st.plan[i].amount, st.short),
             new = [st EXCEPT !.plan = Raised(@, i, n), !.short = @ - n]
      PROVE  /\ Onward(st.plan, new.plan) /\ new.short <= st.short
             /\ ~new.capped
             /\ new.short > 0 => Served(new.plan, s, s.avail)
             /\ st.short = 0 => new.plan = st.plan
  <2> DEFINE u == Raised(st.plan, i, n)
  <2>1. new.plan = u /\ new.short = st.short - n /\ new.capped = st.capped
    <3> HIDE DEF new, u
    <3> QED BY <1>1, <1>5 DEF u
  <2>2. /\ Len(st.plan) \in Nat /\ st.plan[i] \in Entries(D)
        /\ \A k \in 1..Len(st.plan) : st.plan[k] \in Entries(D)
    BY <1>1
  <2>3. \A k \in 1..Len(st.plan) : st.plan[k].amount \in Nat
    BY <2>2, EntriesSummable DEF Summable
  <2>4. n \in Nat
    BY <1>1, <2>3
  <2>5. /\ u \in Seq(Entries(D)) /\ Len(u) = Len(st.plan)
        /\ \A k \in 1..Len(st.plan) : Name(u[k]) = Name(st.plan[k])
    BY <1>1, <1>5, RaisedFacts
  <2>6. u[i].amount = st.plan[i].amount + n
        /\ \A k \in 1..Len(st.plan) : k # i => u[k] = st.plan[k]
    <3>1. PICK t \in D : st.plan[i] = Taken(t, st.plan[i].amount)
      BY <2>2, EntryFacts
    <3>2. [st.plan[i] EXCEPT !.amount = @ + n].amount = st.plan[i].amount + n
      BY <3>1 DEF Taken
    <3> QED BY <1>1, <3>2 DEF Raised
  <2> HIDE DEF u
  <2>7. \A k \in 1..Len(st.plan) : st.plan[k].amount <= u[k].amount
    BY <2>3, <2>4, <2>6
  <2>8. Onward(st.plan, u)
    BY <2>2, <2>5, <2>7 DEF Onward
  <2>9. st.short - n > 0 => u[i].amount >= s.avail
    <3>1. st.short - n > 0 => n = s.avail - st.plan[i].amount
      BY <1>1, <1>5, <2>4 DEF Lesser
    <3>2. st.plan[i].amount \in Nat
      BY <2>3
    <3> QED BY <1>1, <2>6, <3>1, <3>2
  <2>10. i \in 1..Len(u) /\ Name(u[i]) = Name(s)
    BY <1>5, <2>5
  <2>11. st.short - n > 0 => Served(u, s, s.avail)
    BY <2>9, <2>10 DEF Served, Holds
  <2>12. st.short = 0 => u = st.plan
    <3>1. st.short = 0 => n = 0
      BY <1>5, <2>4
    <3> QED BY <1>1, <3>1, RaisedByNone DEF u
  <2>13. st.short - n <= st.short
    BY <1>1, <2>4
  <2> HIDE DEF new
  <2> QED BY <1>5, <2>1, <2>8, <2>11, <2>12, <2>13
<1>6. Drained(new, st, s)
  BY DrainFacts
<1> HIDE DEF new
<1>7. CASE \E i \in 1..Len(st.plan) : \E n \in 0..(s.avail - st.plan[i].amount) :
             /\ Name(st.plan[i]) = Name(s) /\ n <= st.short /\ ~st.capped
             /\ n = Lesser(s.avail - st.plan[i].amount, st.short)
             /\ new = [st EXCEPT !.plan = Raised(@, i, n), !.short = @ - n]
  <2>1. ~st.capped
    BY <1>7
  <2> QED BY <1>5, <1>7, <2>1 DEF new
<1> QED BY <1>3, <1>4, <1>6, <1>7 DEF Drained, new

\* The last pass serves every stake with all it has, unless that pays the
\* rest or one of them is refused.
LEMMA FloorServes ==
  ASSUME NEW D, Stocked(D), Told(D), NEW st \in States(D), NEW need \in Nat,
         Sound(st, need), NEW ordered, NEW prefer,
         FloorOrder(ordered, prefer) \in Seq(Stakes(D))
  PROVE  LET end == FloorPass(st, ordered, prefer)
             q   == FloorOrder(ordered, prefer)
         IN  /\ Onward(st.plan, end.plan) /\ end.short <= st.short
             /\ st.short = 0 => end.plan = st.plan
             /\ end.short > 0 => \/ \E i \in 1..Len(q) : /\ Refused(end.plan, q[i])
                                                          /\ q[i].avail > 0
                                 \/ \A i \in 1..Len(q) : Served(end.plan, q[i], q[i].avail)
<1> DEFINE q == FloorOrder(ordered, prefer)
           n == Len(q)
           end == FloorPass(st, ordered, prefer)
<1>1. PICK r : FloorRun(r, st, q, D, end)
  BY FloorRuns
<1>2. n \in Nat /\ \A i \in 1..n : q[i] \in Stakes(D)
  OBVIOUS
<1> HIDE DEF q, end
<1> DEFINE T == {k \in 0..n :
                   /\ Sound(r[k], need)
                   /\ Onward(st.plan, r[k].plan) /\ r[k].short <= st.short
                   /\ st.short = 0 => r[k].plan = st.plan
                   /\ r[k].capped => \E i \in 1..k : Refused(r[k].plan, q[i]) /\ q[i].avail > 0
                   /\ ~r[k].capped /\ r[k].short > 0 =>
                        \A i \in 1..k : Served(r[k].plan, q[i], q[i].avail)}
<1>3. 0 \in T
  <2>1. r[0] = [st EXCEPT !.capped = FALSE]
    BY <1>1 DEF FloorRun
  <2>2. st \in [plan : Seq(Entries(D)), short : Nat, capped : BOOLEAN]
    BY DEF States
  <2>3. r[0].plan = st.plan /\ r[0].short = st.short /\ ~r[0].capped
    BY <2>1, <2>2
  <2>4. Onward(st.plan, st.plan)
    BY <2>2, OnwardSame
  <2>5. \A i \in 1..0 : FALSE
    OBVIOUS
  <2>6. Sound(r[0], need)
    BY <2>3 DEF Sound
  <2> QED BY <1>2, <2>2, <2>3, <2>4, <2>5, <2>6
<1>4. ASSUME NEW k \in 0..(n - 1), k \in T PROVE k + 1 \in T
  <2> DEFINE s == q[k + 1]
             x == r[k]
             y == DrainFloor(x, s)
  <2>1. /\ k + 1 \in 1..n /\ (k + 1) - 1 = k /\ k \in 0..n /\ k + 1 \in 0..n
        /\ \A i \in 1..(k + 1) : i = k + 1 \/ i \in 1..k
        /\ \A i \in 1..k : i \in 1..(k + 1) /\ i \in 1..n
    BY <1>2
  <2>2. /\ s \in Stakes(D) /\ x \in States(D) /\ y \in States(D) /\ r[k + 1] = y
    BY <1>1, <1>2, <2>1 DEF FloorRun
  <2>3. /\ Sound(x, need) /\ Onward(st.plan, x.plan) /\ x.short <= st.short
        /\ st.short = 0 => x.plan = st.plan
        /\ x.capped => \E i \in 1..k : Refused(x.plan, q[i]) /\ q[i].avail > 0
        /\ ~x.capped /\ x.short > 0 =>
             \A i \in 1..k : Served(x.plan, q[i], q[i].avail)
    BY <1>4
  <2>4. \A i \in 1..n : q[i] \in D /\ q[i].avail \in Nat
    BY <1>2 DEF Stakes, Stocked
  <2> HIDE DEF x, y
  <2>5. Sound(y, need)
    <3> HIDE DEF s
    <3> QED BY <2>2, <2>3, DrainSound DEF y
  <2>6. /\ Onward(x.plan, y.plan) /\ y.short <= x.short
        /\ x.capped => y = x
        /\ ~x.capped /\ y.capped => Refused(y.plan, s) /\ s.avail > 0
        /\ ~y.capped /\ y.short > 0 => Served(y.plan, s, s.avail)
        /\ x.short = 0 => y.plan = x.plan
    <3> HIDE DEF s
    <3> QED BY <2>2, <2>3, DrainServes DEF y
  <2>7. /\ st.plan \in Seq(Entries(D)) /\ x.plan \in Seq(Entries(D))
        /\ y.plan \in Seq(Entries(D))
        /\ st.short \in Nat /\ x.short \in Nat /\ y.short \in Nat
    BY <2>2 DEF States
  <2>8. Onward(st.plan, y.plan)
    BY <2>3, <2>6, <2>7, OnwardOn
  <2>9. /\ y.short <= st.short /\ (y.short > 0 => x.short > 0)
        /\ st.short = 0 => x.short = 0
    BY <2>3, <2>6, <2>7
  <2>10. y.capped => \E i \in 1..(k + 1) : Refused(y.plan, q[i]) /\ q[i].avail > 0
    <3>1. CASE x.capped
      <4>1. PICK i \in 1..k : Refused(x.plan, q[i]) /\ q[i].avail > 0
        BY <2>3, <3>1
      <4> QED BY <2>1, <2>6, <3>1, <4>1
    <3>2. CASE ~x.capped /\ y.capped
      <4>1. k + 1 \in 1..(k + 1)
        BY <2>1
      <4> QED BY <2>6, <3>2, <4>1
    <3> QED BY <3>1, <3>2
  <2>11. ASSUME ~y.capped, y.short > 0, NEW i \in 1..(k + 1)
         PROVE  Served(y.plan, q[i], q[i].avail)
    <3>1. CASE i = k + 1
      BY <2>6, <2>11, <3>1
    <3>2. CASE i \in 1..k
      <4>1. ~x.capped
        BY <2>6, <2>11
      <4>2. Served(x.plan, q[i], q[i].avail)
        BY <2>3, <2>9, <2>11, <3>2, <4>1
      <4>3. q[i] \in D /\ q[i].avail \in Nat
        BY <2>1, <2>4, <3>2
      <4> QED BY <2>2, <2>3, <2>5, <2>6, <4>2, <4>3, ServedOn
    <3> QED BY <2>1, <3>1, <3>2
  <2>12. st.short = 0 => y.plan = st.plan
    BY <2>3, <2>6, <2>9
  <2> HIDE DEF s
  <2> QED BY <2>1, <2>2, <2>5, <2>8, <2>9, <2>10, <2>11, <2>12
<1>5. n \in T
  <2> HIDE DEF T
  <2>1. \A k \in 0..n : k \in T
    BY <1>2, <1>3, <1>4, UpToByInduction
  <2>2. n \in 0..n
    BY <1>2
  <2> QED BY <2>1, <2>2
<1>6. r[n] = end
  BY <1>1, <1>2 DEF FloorRun
<1>7. /\ Onward(st.plan, end.plan) /\ end.short <= st.short
      /\ st.short = 0 => end.plan = st.plan
      /\ end.short > 0 => \/ \E i \in 1..n : Refused(end.plan, q[i]) /\ q[i].avail > 0
                          \/ \A i \in 1..n : Served(end.plan, q[i], q[i].avail)
  BY <1>5, <1>6
<1> QED BY <1>7 DEF end, q

-----------------------------------------------------------------------------
(* The passes in their order serve the kinds of the mode.                  *)

\* What the passes before the last take from a source of a kind.
Sparing(kind) == IF kind \in {"delegation", "operatorStake"} THEN "excess" ELSE "all"

ServesKind(st, srcs, kind) ==
  st.short > 0 => \A i \in 1..Len(srcs) : srcs[i].kind = kind
                    => Served(st.plan, srcs[i], Limit(srcs[i], Sparing(kind)))

Goes(st, srcs, D, need, K) ==
  /\ st \in States(D) /\ Sound(st, need)
  /\ Names(st.plan) \subseteq NamesOfKinds(D, K)
  /\ SparesFloors(st.plan)
  /\ \A kind \in K : ServesKind(st, srcs, kind)

\* The sources of one kind, in whatever order.
AllOfKind(q, srcs, kind) ==
  \A i \in 1..Len(srcs) : srcs[i].kind = kind => \E j \in 1..Len(q) : q[j] = srcs[i]

LEMMA OfKindAll ==
  ASSUME NEW D, NEW srcs \in Seq(D), NEW kind
  PROVE  AllOfKind(OfKind(srcs, kind), srcs, kind)
<1> DEFINE q == OfKind(srcs, kind)
<1>1. /\ q \in Seq(D)
      /\ ToSet(q) = ToSet(srcs) \cap {s \in ToSet(srcs) : s.kind = kind}
  BY KeepFacts DEF OfKind
<1> HIDE DEF q
<1>2. ToSet(q) = {q[j] : j \in 1..Len(q)} /\ ToSet(srcs) = {srcs[i] : i \in 1..Len(srcs)}
  BY <1>1, OwnElements
<1>3. \A i \in 1..Len(srcs) : srcs[i].kind = kind => srcs[i] \in ToSet(q)
  BY <1>1, <1>2
<1> QED BY <1>2, <1>3 DEF AllOfKind, q

LEMMA SortAll ==
  ASSUME NEW D, NEW srcs, NEW q \in Seq(D), NEW kind, AllOfKind(q, srcs, kind), NEW before
  PROVE  AllOfKind(Sort(q, before), srcs, kind)
<1> DEFINE u == Sort(q, before)
<1>1. u \in Seq(D) /\ ToSet(u) = ToSet(q)
  BY SortFacts
<1> HIDE DEF u
<1>2. ToSet(u) = {u[j] : j \in 1..Len(u)} /\ ToSet(q) = {q[j] : j \in 1..Len(q)}
  BY <1>1, OwnElements
<1>3. \A j \in 1..Len(q) : \E i \in 1..Len(u) : u[i] = q[j]
  BY <1>1, <1>2
<1> QED BY <1>3 DEF AllOfKind, u

LEMMA OrderedAll ==
  ASSUME NEW D, NEW srcs \in Seq(D), NEW prefer
  PROVE  AllOfKind(OrderedDelegations(srcs, prefer), srcs, "delegation")
<1> DEFINE ds == OfKind(srcs, "delegation")
           P  == {s \in ToSet(ds) : s.gw = prefer}
           R  == {s \in ToSet(ds) : s.gw # prefer}
           p  == Keep(ds, P)
           r  == Keep(ds, R)
           q  == p \o r
<1>1. q = OrderedDelegations(srcs, prefer) /\ AllOfKind(ds, srcs, "delegation")
      /\ ds \in Seq(D)
  <2>1. q = OrderedDelegations(srcs, prefer)
    BY DEF OrderedDelegations
  <2>2. ds \in Seq(D)
    BY KeepFacts DEF OfKind
  <2> QED BY <2>1, <2>2, OfKindAll
<1> HIDE DEF ds
<1>2. /\ p \in Seq(D) /\ ToSet(p) = ToSet(ds) \cap P
      /\ r \in Seq(D) /\ ToSet(r) = ToSet(ds) \cap R
  <2> HIDE DEF P, R
  <2> QED BY <1>1, KeepFacts
<1>3. ToSet(ds) = ToSet(p) \cup ToSet(r)
  BY <1>2
<1> HIDE DEF p, r, P, R
<1>4. /\ Len(p) \in Nat /\ Len(r) \in Nat /\ Len(q) = Len(p) + Len(r)
      /\ \A i \in 1..Len(p) : q[i] = p[i] /\ i \in 1..Len(q)
      /\ \A i \in 1..Len(r) : q[Len(p) + i] = r[i] /\ Len(p) + i \in 1..Len(q)
  BY <1>2
<1>5. /\ ToSet(p) = {p[j] : j \in 1..Len(p)} /\ ToSet(r) = {r[j] : j \in 1..Len(r)}
      /\ ToSet(ds) = {ds[j] : j \in 1..Len(ds)}
  BY <1>1, <1>2, OwnElements
<1> HIDE DEF q
<1>6. \A j \in 1..Len(ds) : \E i \in 1..Len(q) : q[i] = ds[j]
  <2> SUFFICES ASSUME NEW j \in 1..Len(ds) PROVE \E i \in 1..Len(q) : q[i] = ds[j]
    OBVIOUS
  <2>1. ds[j] \in ToSet(p) \/ ds[j] \in ToSet(r)
    BY <1>3, <1>5
  <2>2. CASE ds[j] \in ToSet(p)
    <3>1. PICK i \in 1..Len(p) : p[i] = ds[j]
      BY <1>5, <2>2
    <3> QED BY <1>4, <3>1
  <2>3. CASE ds[j] \in ToSet(r)
    <3>1. PICK i \in 1..Len(r) : r[i] = ds[j]
      BY <1>5, <2>3
    <3> QED BY <1>4, <3>1
  <2> QED BY <2>1, <2>2, <2>3
<1> QED BY <1>1, <1>6 DEF AllOfKind

\* What has been served stays served.
LEMMA ServesOn ==
  ASSUME NEW D, Stocked(D), Told(D), NEW x \in States(D), NEW y \in States(D),
         NEW need, Sound(x, need), Sound(y, need), Onward(x.plan, y.plan),
         y.short <= x.short, NEW srcs \in Seq(D), NEW kind, ServesKind(x, srcs, kind)
  PROVE  ServesKind(y, srcs, kind)
<1> SUFFICES ASSUME y.short > 0, NEW i \in 1..Len(srcs), srcs[i].kind = kind
             PROVE  Served(y.plan, srcs[i], Limit(srcs[i], Sparing(kind)))
  BY DEF ServesKind
<1>1. srcs[i] \in D
  OBVIOUS
<1>2. Limit(srcs[i], Sparing(kind)) \in Nat
  <2>1. /\ Limit(srcs[i], Sparing(kind)) \in 0..srcs[i].avail /\ srcs[i].avail \in Nat
    BY <1>1, LimitType DEF Stocked
  <2> QED BY <2>1
<1>3. x.short > 0
  BY DEF States
<1>4. Served(x.plan, srcs[i], Limit(srcs[i], Sparing(kind)))
  BY <1>3 DEF ServesKind
<1> QED BY <1>1, <1>2, <1>4, ServedOn

LEMMA NextServes ==
  ASSUME NEW D, Stocked(D), Told(D), NEW srcs \in Seq(D), NEW st, NEW need \in Nat,
         NEW K, Goes(st, srcs, D, need, K), NEW kind, kind \notin K,
         NEW q, Listed(q, D, kind), AllOfKind(q, srcs, kind)
  PROVE  Goes(Pass(st, q, Sparing(kind)), srcs, D, need, K \cup {kind})
<1> DEFINE end == Pass(st, q, Sparing(kind))
<1>1. /\ st \in States(D) /\ Sound(st, need) /\ Names(st.plan) \subseteq NamesOfKinds(D, K)
      /\ SparesFloors(st.plan) /\ \A k \in K : ServesKind(st, srcs, k)
  BY DEF Goes
<1>2. /\ q \in Seq(D) /\ Names(q) \subseteq NamesOfKinds(D, {kind})
      /\ \A i \in 1..Len(q) : q[i] \in D /\ q[i].kind = kind
  <2> DEFINE E == {s \in D : s.kind = kind}
  <2>1. q \in Seq(D) /\ q \in Seq(E) /\ Names(q) \subseteq NamesOfKinds(D, {kind})
    BY DEF Listed
  <2> HIDE DEF E
  <2>2. \A i \in 1..Len(q) : q[i] \in E
    BY <2>1
  <2> QED BY <2>1, <2>2 DEF E
<1>3. Names(q) \cap Names(st.plan) = {}
  <2>1. NamesOfKinds(D, K) \cap NamesOfKinds(D, {kind}) = {}
    <3>1. K \cap {kind} = {}
      OBVIOUS
    <3> QED BY <3>1, KindsApart
  <2> QED BY <1>1, <1>2, <2>1
<1>4. /\ end \in States(D) /\ Sound(end, need)
      /\ Names(end.plan) \subseteq NamesOfKinds(D, K \cup {kind})
  BY <1>1, NextPass
<1>5. /\ Onward(st.plan, end.plan) /\ end.short <= st.short
      /\ end.short > 0 =>
           \A i \in 1..Len(q) : Served(end.plan, q[i], Limit(q[i], Sparing(kind)))
  BY <1>1, <1>3, PassServes
<1>6. SparesFloors(end.plan)
  <2>1. \/ Sparing(kind) # "all"
        \/ \A i \in 1..Len(q) : q[i].kind # "delegation"
    BY <1>2 DEF Sparing
  <2> QED BY <1>1, <1>2, <2>1, PassSpares
<1> HIDE DEF end
<1>7. \A k \in K : ServesKind(end, srcs, k)
  BY <1>1, <1>4, <1>5, ServesOn
<1>8. ServesKind(end, srcs, kind)
  BY <1>5 DEF ServesKind, AllOfKind
<1> QED BY <1>4, <1>6, <1>7, <1>8 DEF Goes, end

\* For every list of sources that are told apart by their names, every amount,
\* mode, preferred gateway and pair of caps: a floor is drained, or something
\* is reported missing, only if the plan takes from every source of the mode all
\* that the passes before the last may take, or has no room for it; and
\* something is reported missing only if the plan takes from every source of
\* the mode all that can be drawn on, or refuses a stake (buildFundingPlan,
\* funding-plan.ts:285).
THEOREM PlannerServes ==
  ASSUME NEW D, NEW srcs \in Seq(D), Stocked(D), Told(D), Separate(srcs),
         NEW need \in Nat, NEW mode \in Modes, NEW prefer, NEW asOperator \in BOOLEAN
  PROVE  LET st      == BuildFundingPlan(srcs, need, mode, prefer, asOperator)
             allowed == {i \in 1..Len(srcs) : srcs[i].kind \in AllowedKinds(mode, asOperator)}
         IN  /\ ~SparesFloors(st.plan) \/ st.short > 0 =>
                  \A i \in allowed :
                    Served(st.plan, srcs[i], Limit(srcs[i], Sparing(srcs[i].kind)))
             /\ st.short > 0 =>
                  \/ \E s \in D : /\ s.kind = "delegation" /\ Refused(st.plan, s) /\ s.avail > 0
                                  /\ s.kind \in AllowedKinds(mode, asOperator)
                  \/ \A i \in allowed : Served(st.plan, srcs[i], Drawable(srcs[i]))
<1> DEFINE ordered == OrderedDelegations(srcs, prefer)
           b == IF mode \in {"balance", "any", "plan"}
                THEN BalancePass(Start(need), srcs) ELSE Start(need)
           v == IF mode = "balance" THEN b ELSE VaultPass(b, srcs)
           e == ExcessPass(v, ordered)
           o == IF asOperator THEN OperatorPass(e, srcs) ELSE e
           f == FloorPass(o, ordered, prefer)
           Kb == IF mode \in {"balance", "any", "plan"} THEN {"balance"} ELSE {}
           Kv == IF mode = "balance" THEN Kb ELSE Kb \cup {"withdrawal"}
           Ke == Kv \cup {"delegation"}
           Ko == IF asOperator THEN Ke \cup {"operatorStake"} ELSE Ke
           Fine(st, K) == Goes(st, srcs, D, need, K)
<1>1. Fine(b, Kb)
  <2>1. Fine(Start(need), {})
    <3>1. /\ Start(need) \in States(D) /\ Sound(Start(need), need)
          /\ Names(Start(need).plan) = {}
      BY StartSound
    <3>2. SparesFloors(Start(need).plan)
      BY DEF Start, SparesFloors
    <3> QED BY <3>1, <3>2 DEF Goes
  <2>2. CASE mode \in {"balance", "any", "plan"}
    <3>1. b = Pass(Start(need), OfKind(srcs, "balance"), Sparing("balance"))
      BY <2>2 DEF BalancePass, Sparing
    <3>2. /\ Listed(OfKind(srcs, "balance"), D, "balance")
          /\ AllOfKind(OfKind(srcs, "balance"), srcs, "balance")
      BY OfKindListed, OfKindAll
    <3>3. {} \cup {"balance"} = Kb /\ "balance" \notin {}
      BY <2>2
    <3>4. Goes(Start(need), srcs, D, need, {})
      BY <2>1
    <3> HIDE DEF b, Kb
    <3>5. Goes(Pass(Start(need), OfKind(srcs, "balance"), Sparing("balance")),
               srcs, D, need, {} \cup {"balance"})
      BY <3>2, <3>3, <3>4, NextServes
    <3> QED BY <3>1, <3>3, <3>5
  <2>3. CASE mode \notin {"balance", "any", "plan"}
    BY <2>1, <2>3
  <2> QED BY <2>2, <2>3
<1>2. Fine(v, Kv)
  <2>1. CASE mode = "balance"
    <3>1. v = b /\ Kv = Kb
      BY <2>1
    <3> HIDE DEF v, b, Kv, Kb
    <3> QED BY <1>1, <3>1
  <2>2. CASE mode # "balance"
    <3> DEFINE q == ByMaturity(OfKind(srcs, "withdrawal"))
    <3>1. /\ v = Pass(b, q, Sparing("withdrawal"))
          /\ Kv = Kb \cup {"withdrawal"} /\ "withdrawal" \notin Kb
      BY <2>2 DEF VaultPass, Sparing
    <3>2. Listed(q, D, "withdrawal") /\ AllOfKind(q, srcs, "withdrawal")
      <4>1. /\ Listed(OfKind(srcs, "withdrawal"), D, "withdrawal")
            /\ AllOfKind(OfKind(srcs, "withdrawal"), srcs, "withdrawal")
        BY OfKindListed, OfKindAll
      <4>2. OfKind(srcs, "withdrawal") \in Seq(D)
        BY <4>1 DEF Listed
      <4> QED BY <4>1, <4>2, SortListed, SortAll DEF ByMaturity
    <3> HIDE DEF v, b, Kv, Kb, q
    <3> QED BY <1>1, <3>1, <3>2, NextServes
  <2> QED BY <2>1, <2>2
<1>3. /\ Listed(ordered, D, "delegation") /\ AllOfKind(ordered, srcs, "delegation")
      /\ ordered \in Seq(D)
  <2>1. Listed(ordered, D, "delegation") /\ AllOfKind(ordered, srcs, "delegation")
    BY OrderedListed, OrderedAll
  <2> HIDE DEF ordered
  <2> QED BY <2>1 DEF Listed
<1>4. Fine(e, Ke)
  <2>1. e = Pass(v, ordered, Sparing("delegation")) /\ Ke = Kv \cup {"delegation"}
    BY DEF ExcessPass, Sparing
  <2>2. "delegation" \notin Kv
    OBVIOUS
  <2> HIDE DEF e, v, Kv, Ke, ordered
  <2> QED BY <1>2, <1>3, <2>1, <2>2, NextServes
<1>5. Fine(o, Ko)
  <2>1. CASE asOperator
    <3>1. /\ o = Pass(e, OfKind(srcs, "operatorStake"), Sparing("operatorStake"))
          /\ Ko = Ke \cup {"operatorStake"}
      BY <2>1 DEF OperatorPass, Sparing
    <3>2. /\ Listed(OfKind(srcs, "operatorStake"), D, "operatorStake")
          /\ AllOfKind(OfKind(srcs, "operatorStake"), srcs, "operatorStake")
      BY OfKindListed, OfKindAll
    <3>3. "operatorStake" \notin Ke
      OBVIOUS
    <3> HIDE DEF o, e, Ko, Ke
    <3> QED BY <1>4, <3>1, <3>2, <3>3, NextServes
  <2>2. CASE ~asOperator
    <3>1. o = e /\ Ko = Ke
      BY <2>2
    <3> HIDE DEF o, e, Ko, Ke
    <3> QED BY <1>4, <3>1
  <2> QED BY <2>1, <2>2
<1>6. BuildFundingPlan(srcs, need, mode, prefer, asOperator)
        = IF mode \in {"balance", "withdrawal"} THEN v ELSE f
  BY DEF BuildFundingPlan
<1>7. \A i \in 1..Len(srcs) : /\ srcs[i] \in D /\ srcs[i].avail \in Nat
                              /\ Limit(srcs[i], Sparing(srcs[i].kind)) \in Nat
                              /\ srcs[i].kind # "delegation" =>
                                   Drawable(srcs[i]) = Limit(srcs[i], Sparing(srcs[i].kind))
                              /\ srcs[i].kind = "delegation" =>
                                   Drawable(srcs[i]) = srcs[i].avail
  <2> SUFFICES ASSUME NEW i \in 1..Len(srcs)
               PROVE  /\ srcs[i] \in D /\ srcs[i].avail \in Nat
                      /\ Limit(srcs[i], Sparing(srcs[i].kind)) \in Nat
                      /\ srcs[i].kind # "delegation" =>
                           Drawable(srcs[i]) = Limit(srcs[i], Sparing(srcs[i].kind))
                      /\ srcs[i].kind = "delegation" =>
                           Drawable(srcs[i]) = srcs[i].avail
    OBVIOUS
  <2>1. srcs[i] \in D /\ srcs[i].avail \in Nat
    BY DEF Stocked
  <2>2. Limit(srcs[i], Sparing(srcs[i].kind)) \in Nat
    <3>1. Limit(srcs[i], Sparing(srcs[i].kind)) \in 0..srcs[i].avail
      BY <2>1, LimitType
    <3> QED BY <2>1, <3>1
  <2> QED BY <2>1, <2>2 DEF Drawable, Limit, Sparing
<1>8. CASE mode \in {"balance", "withdrawal"}
  <2>1. /\ Kv = AllowedKinds(mode, asOperator)
        /\ \A k \in Kv : k # "delegation"
    BY <1>8 DEF AllowedKinds
  <2>2. SparesFloors(v.plan) /\ \A k \in Kv : ServesKind(v, srcs, k)
    <3> HIDE DEF v, Kv
    <3> QED BY <1>2 DEF Goes
  <2>3. BuildFundingPlan(srcs, need, mode, prefer, asOperator) = v
    <3> HIDE DEF v, f
    <3> QED BY <1>6, <1>8
  <2> HIDE DEF v, f, Kv
  <2>4. ASSUME v.short > 0, NEW i \in 1..Len(srcs), srcs[i].kind \in Kv
        PROVE  Served(v.plan, srcs[i], Limit(srcs[i], Sparing(srcs[i].kind)))
    BY <2>2, <2>4 DEF ServesKind
  <2> QED BY <1>7, <2>1, <2>2, <2>3, <2>4
<1>9. CASE mode \notin {"balance", "withdrawal"}
  <2>1. Ko = AllowedKinds(mode, asOperator) /\ "delegation" \in Ko
    BY <1>9 DEF AllowedKinds, Modes
  <2>2. BuildFundingPlan(srcs, need, mode, prefer, asOperator) = f
    <3> HIDE DEF v, f
    <3> QED BY <1>6, <1>9
  <2>3. /\ o \in States(D) /\ Sound(o, need) /\ SparesFloors(o.plan)
        /\ \A k \in Ko : ServesKind(o, srcs, k)
    <3> HIDE DEF o, Ko
    <3> QED BY <1>5 DEF Goes
  <2> DEFINE q == FloorOrder(ordered, prefer)
  <2> HIDE DEF o, ordered, Ko
  <2>4. /\ Listed(q, D, "delegation") /\ q \in Seq(Stakes(D))
        /\ AllOfKind(q, srcs, "delegation")
    <3>1. Listed(q, D, "delegation") /\ AllOfKind(q, srcs, "delegation")
      BY <1>3, SortListed, SortAll DEF FloorOrder
    <3> HIDE DEF q
    <3> QED BY <3>1 DEF Listed, Stakes
  <2>5. /\ f \in States(D) /\ Sound(f, need)
    BY <2>3, <2>4, FloorSound
  <2>6. /\ Onward(o.plan, f.plan) /\ f.short <= o.short
        /\ o.short = 0 => f.plan = o.plan
        /\ f.short > 0 => \/ \E i \in 1..Len(q) : Refused(f.plan, q[i]) /\ q[i].avail > 0
                          \/ \A i \in 1..Len(q) : Served(f.plan, q[i], q[i].avail)
    <3>1. FloorOrder(ordered, prefer) \in Seq(Stakes(D))
      BY <2>4
    <3> QED BY <2>3, <3>1, FloorServes
  <2>7. o.short \in Nat /\ f.short \in Nat
    BY <2>3, <2>5 DEF States
  <2> HIDE DEF f, q
  <2>8. ~SparesFloors(f.plan) \/ f.short > 0 => o.short > 0
    BY <2>3, <2>6, <2>7
  <2>9. ASSUME o.short > 0, NEW i \in 1..Len(srcs), srcs[i].kind \in Ko
        PROVE  Served(f.plan, srcs[i], Limit(srcs[i], Sparing(srcs[i].kind)))
    <3>1. Served(o.plan, srcs[i], Limit(srcs[i], Sparing(srcs[i].kind)))
      BY <2>3, <2>9 DEF ServesKind
    <3> QED BY <1>7, <2>3, <2>5, <2>6, <3>1, ServedOn
  <2>10. ASSUME f.short > 0, NEW i \in 1..Len(srcs), srcs[i].kind \in Ko,
                \A j \in 1..Len(q) : Served(f.plan, q[j], q[j].avail)
         PROVE  Served(f.plan, srcs[i], Drawable(srcs[i]))
    <3>1. CASE srcs[i].kind = "delegation"
      <4>1. PICK j \in 1..Len(q) : q[j] = srcs[i]
        BY <2>4, <3>1 DEF AllOfKind
      <4> QED BY <1>7, <2>10, <3>1, <4>1
    <3>2. CASE srcs[i].kind # "delegation"
      BY <1>7, <2>8, <2>9, <2>10, <3>2
    <3> QED BY <3>1, <3>2
  <2>11. \A j \in 1..Len(q) : q[j] \in D /\ q[j].kind = "delegation"
    BY <2>4 DEF Stakes
  <2> QED BY <2>1, <2>2, <2>6, <2>8, <2>9, <2>10, <2>11
<1> QED BY <1>8, <1>9

-----------------------------------------------------------------------------
(* Floors come last.                                                       *)

\* What is taken from everything is at least what is taken from one entry.
LEMMA AmountAtLeast ==
  ASSUME NEW X, Summable(X), NEW q \in Seq(X), NEW i \in 1..Len(q)
  PROVE  AmountOf(q) >= q[i].amount
<1>1. PICK r : AmountRun(r, q)
  BY AmountRuns DEF Summable
<1>2. /\ Len(q) \in Nat /\ i \in Nat
      /\ \A k \in 1..Len(q) : q[k].amount \in Nat
  BY DEF Summable
<1>3. /\ r \in [0..Len(q) -> Nat] /\ r[Len(q)] = AmountOf(q)
      /\ \A k \in 1..Len(q) : r[k] = r[k - 1] + q[k].amount
  BY <1>1 DEF AmountRun
<1> DEFINE T == {k \in 0..Len(q) : k >= i => r[k] >= q[i].amount}
<1>4. 0 \in T
  BY <1>2
<1>5. ASSUME NEW k \in 0..(Len(q) - 1), k \in T PROVE k + 1 \in T
  <2>1. k + 1 \in 1..Len(q) /\ (k + 1) - 1 = k /\ k \in 0..Len(q) /\ k \in Nat
        /\ k + 1 \in 0..Len(q)
    BY <1>2
  <2>2. /\ r[k + 1] = r[k] + q[k + 1].amount /\ r[k] \in Nat
        /\ q[k + 1].amount \in Nat /\ q[i].amount \in Nat
    BY <1>2, <1>3, <2>1
  <2>3. CASE k + 1 = i
    BY <2>1, <2>2, <2>3
  <2>4. CASE k >= i
    <3>1. r[k] >= q[i].amount
      BY <1>5, <2>4
    <3> QED BY <2>1, <2>2, <3>1
  <2>5. CASE k + 1 < i
    BY <1>2, <2>1, <2>5
  <2> QED BY <1>2, <2>1, <2>3, <2>4, <2>5
<1>6. Len(q) \in T
  <2> HIDE DEF T
  <2>1. \A k \in 0..Len(q) : k \in T
    BY <1>2, <1>4, <1>5, UpToByInduction
  <2> QED BY <1>2, <2>1
<1> QED BY <1>2, <1>3, <1>6

LEMMA TakenAtLeast ==
  ASSUME NEW D, Stocked(D), NEW plan \in Seq(Entries(D)), NEW s
  PROVE  /\ TakenFrom(plan, s) \in Nat
         /\ \A i \in 1..Len(plan) : Name(plan[i]) = Name(s)
              => TakenFrom(plan, s) >= plan[i].amount
<1> DEFINE S == {t \in ToSet(plan) : /\ t.kind = s.kind
                                     /\ t.gw = s.gw /\ t.id = s.id}
           q == Keep(plan, S)
<1>1. TakenFrom(plan, s) = AmountOf(q)
  BY DEF TakenFrom
<1>2. q \in Seq(Entries(D)) /\ ToSet(q) = ToSet(plan) \cap S
  <2> HIDE DEF S
  <2> QED BY KeepFacts
<1>3. ASSUME NEW i \in 1..Len(plan), Name(plan[i]) = Name(s)
      PROVE  plan[i] \in ToSet(q)
  <2>1. plan[i] \in ToSet(plan)
    BY DEF ToSet
  <2> HIDE DEF q
  <2> QED BY <1>2, <1>3, <2>1 DEF Name
<1> HIDE DEF q, S
<1>4. ToSet(q) = {q[j] : j \in 1..Len(q)}
  BY <1>2, OwnElements
<1>5. AmountOf(q) \in Nat /\ \A j \in 1..Len(q) : AmountOf(q) >= q[j].amount
  BY <1>2, EntriesSummable, AmountType, AmountAtLeast
<1> QED BY <1>1, <1>3, <1>4, <1>5

\* Who is refused may not be pushed.
LEMMA RefusedNotPushed ==
  ASSUME NEW D, Stocked(D), Told(D), NEW st \in States(D), NEW need, Sound(st, need),
         NEW s \in D, Refused(st.plan, s)
  PROVE  ~MayPush(st.plan, s)
<1>1. /\ st.plan \in Seq(Entries(D)) /\ Len(st.plan) \in Nat
      /\ IsFiniteSet(PlanGateways(st.plan))
  BY DEF States, Sound
<1>2. Cardinality(PlanGateways(st.plan)) \in Nat
  BY <1>1, FS_CardinalityType
<1>3. Full(st.plan, s.kind) /\ Name(s) \notin Names(st.plan)
  BY DEF Refused
<1>4. CASE Len(st.plan) >= MaxFundingSources
  BY <1>1, <1>4, CapsAssumption DEF MayPush
<1>5. CASE /\ s.kind = "delegation"
           /\ Cardinality(PlanGateways(st.plan)) >= MaxDelegationSources
  <2>1. s.gw \notin PlanGateways(st.plan)
    BY <1>1, <1>3, <1>5, StakeInPlan
  <2> QED BY <1>2, <1>5, <2>1, CapsAssumption DEF MayPush
<1> QED BY <1>3, <1>4, <1>5 DEF Full

LEMMA PlanFloorsLast ==
  ASSUME NEW D, NEW srcs \in Seq(D), Stocked(D), Told(D), Separate(srcs),
         \A s \in D : s.kind # "operatorStake",
         NEW need \in Nat, NEW mode \in Modes, NEW prefer, NEW asOp \in BOOLEAN,
         NEW plan, plan = BuildFundingPlan(srcs, need, mode, prefer, asOp).plan,
         \E i \in DOMAIN plan : /\ plan[i].kind = "delegation"
                                /\ plan[i].amount > BetterPart(plan[i]),
         NEW i \in Usable(srcs, mode, asOp),
         TakenFrom(plan, srcs[i]) < BetterPart(srcs[i])
  PROVE  ~MayPush(plan, srcs[i])
<1> DEFINE st == BuildFundingPlan(srcs, need, mode, prefer, asOp)
           m == Limit(srcs[i], Sparing(srcs[i].kind))
<1>1. st \in States(D) /\ Sound(st, need)
  BY PlannerSound
<1>2. \A j \in 1..Len(srcs) :
        ~SparesFloors(st.plan) /\ srcs[j].kind \in AllowedKinds(mode, asOp)
          => Served(st.plan, srcs[j], Limit(srcs[j], Sparing(srcs[j].kind)))
  BY PlannerServes
<1>3. st.plan = plan
  OBVIOUS
<1> HIDE DEF st
<1>4. plan \in Seq(Entries(D))
  BY <1>1, <1>3 DEF States
<1>5. ~SparesFloors(plan)
  <2>1. PICK j \in 1..Len(plan) : /\ plan[j].kind = "delegation"
                                  /\ plan[j].amount > BetterPart(plan[j])
    BY <1>4
  <2>2. plan[j] \in Entries(D)
    BY <1>4
  <2>3. PICK s \in D : plan[j].avail = s.avail /\ plan[j].min = s.min
    BY <2>2, EntryFacts
  <2>4. plan[j].amount \in Nat /\ plan[j].avail \in Nat /\ plan[j].min \in Nat
    BY <2>2, <2>3, EntriesSummable DEF Summable, Stocked
  <2>5. plan[j].amount > Above(plan[j].avail, plan[j].min)
        /\ Above(plan[j].avail, plan[j].min) \in Nat
    BY <2>1, <2>4 DEF BetterPart, Above
  <2> QED BY <2>1, <2>4, <2>5 DEF SparesFloors
<1>6. i \in 1..Len(srcs) /\ srcs[i].kind \in AllowedKinds(mode, asOp) /\ srcs[i] \in D
  BY DEF Usable
<1>7. m = BetterPart(srcs[i]) /\ m \in Nat
  <2>1. srcs[i].kind # "operatorStake" /\ srcs[i].avail \in Nat
    BY <1>6 DEF Stocked
  <2>2. Limit(srcs[i], Sparing(srcs[i].kind)) \in 0..srcs[i].avail
    BY <1>6, LimitType
  <2> QED BY <2>1, <2>2 DEF BetterPart, Limit, Sparing
<1>8. Served(plan, srcs[i], m)
  BY <1>2, <1>3, <1>5, <1>6
<1> HIDE DEF m
<1>9. /\ TakenFrom(plan, srcs[i]) \in Nat
      /\ \A j \in 1..Len(plan) : Name(plan[j]) = Name(srcs[i])
           => TakenFrom(plan, srcs[i]) >= plan[j].amount
  BY <1>4, TakenAtLeast
<1>10. m # 0
  BY <1>7, <1>9
<1>11. ~Holds(plan, srcs[i], m)
  <2> SUFFICES ASSUME NEW j \in 1..Len(plan), Name(plan[j]) = Name(srcs[i]),
                      plan[j].amount >= m
               PROVE  FALSE
    BY DEF Holds
  <2>1. plan[j] \in Entries(D)
    BY <1>4
  <2>2. plan[j].amount \in Nat
    BY <2>1, EntriesSummable DEF Summable
  <2>3. TakenFrom(plan, srcs[i]) >= plan[j].amount
    BY <1>9
  <2> QED BY <1>7, <1>9, <2>2, <2>3
<1>12. Refused(plan, srcs[i])
  BY <1>8, <1>10, <1>11 DEF Served
<1> QED BY <1>1, <1>3, <1>6, <1>12, RefusedNotPushed

-----------------------------------------------------------------------------
(* Giving up only on what cannot be paid.                                  *)

\* Each name of the plan is that of a usable source; the sources are at most
\* the usable ones, so that who is refused is one too many.
Backed(plan, srcs, S) ==
  \A j \in 1..Len(plan) : \E i \in S : Name(srcs[i]) = Name(plan[j])

LEMMA NoMoreThanCap ==
  ASSUME NEW plan, Len(plan) \in Nat, Separate(plan), NEW srcs, NEW S, IsFiniteSet(S),
         Backed(plan, srcs, S), NEW u \in S, Name(srcs[u]) \notin Names(plan)
  PROVE  Len(plan) < Cardinality(S)
<1> DEFINE R == S \ {u}
           c == [j \in 1..Len(plan) |-> CHOOSE i \in S : Name(srcs[i]) = Name(plan[j])]
<1>1. \A j \in 1..Len(plan) : c[j] \in S /\ Name(srcs[c[j]]) = Name(plan[j])
  BY DEF Backed
<1>2. \A j \in 1..Len(plan) : c[j] \in R
  BY <1>1 DEF Names
<1>3. c \in [1..Len(plan) -> R]
  BY <1>2
<1> HIDE DEF c
<1>4. \A j, k \in 1..Len(plan) : c[j] = c[k] => j = k
  BY <1>1 DEF Separate
<1>5. c \in Injection(1..Len(plan), R)
  BY <1>3, <1>4 DEF Injection, IsInjective
<1>6. /\ IsFiniteSet(R) /\ Cardinality(R) = Cardinality(S) - 1
      /\ Cardinality(S) \in Nat
  BY FS_RemoveElement, FS_CardinalityType
<1> HIDE DEF R
<1>7. Cardinality(1..Len(plan)) <= Cardinality(R)
  BY <1>5, <1>6, FS_Injection
<1>8. Cardinality(1..Len(plan)) = Len(plan)
  <2>1. Cardinality(1..Len(plan)) = IF 1 > Len(plan) THEN 0 ELSE Len(plan) - 1 + 1
    BY FS_Interval
  <2> QED BY <2>1
<1> QED BY <1>6, <1>7, <1>8

LEMMA NoMoreGatewaysThanCap ==
  ASSUME NEW X, NEW plan \in Seq(X), NEW srcs, NEW S, IsFiniteSet(S),
         Backed(plan, srcs, S), NEW u \in S, srcs[u].kind = "delegation",
         srcs[u].gw \notin PlanGateways(plan)
  PROVE  Cardinality(PlanGateways(plan))
           < Cardinality({i \in S : srcs[i].kind = "delegation"})
<1> DEFINE G == PlanGateways(plan)
           T == {i \in S : srcs[i].kind = "delegation"}
           R == T \ {u}
           c == [x \in G |-> CHOOSE i \in T : srcs[i].gw = x]
<1>1. ASSUME NEW x \in G PROVE \E i \in T : srcs[i].gw = x
  <2>1. G = {plan[j].gw : j \in {k \in 1..Len(plan) : plan[k].kind = "delegation"}}
    BY GatewaysOfPlan
  <2>2. PICK j \in 1..Len(plan) : plan[j].kind = "delegation" /\ plan[j].gw = x
    BY <1>1, <2>1
  <2>3. PICK i \in S : Name(srcs[i]) = Name(plan[j])
    BY DEF Backed
  <2> QED BY <2>2, <2>3 DEF Name
<1>2. \A x \in G : c[x] \in T /\ srcs[c[x]].gw = x
  BY <1>1
<1>3. \A x \in G : c[x] \in R
  BY <1>2
<1>4. c \in [G -> R]
  BY <1>3
<1>5. u \in T /\ IsFiniteSet(T)
  <2>1. T \in SUBSET S
    OBVIOUS
  <2> QED BY <2>1, FS_Subset
<1> HIDE DEF c
<1>6. \A x, y \in G : c[x] = c[y] => x = y
  BY <1>2
<1>7. c \in Injection(G, R)
  BY <1>4, <1>6 DEF Injection, IsInjective
<1> HIDE DEF G, T
<1>8. /\ IsFiniteSet(R) /\ Cardinality(R) = Cardinality(T) - 1
      /\ Cardinality(T) \in Nat
  BY <1>5, FS_RemoveElement, FS_CardinalityType
<1> HIDE DEF R
<1>9. IsFiniteSet(G) /\ Cardinality(G) <= Cardinality(R)
  BY <1>7, <1>8, FS_Injection
<1>10. Cardinality(G) \in Nat /\ Cardinality(R) \in Nat
  BY <1>8, <1>9, FS_CardinalityType
<1>11. Cardinality(G) < Cardinality(T)
  BY <1>8, <1>9, <1>10
<1> QED BY <1>11 DEF G, T

\* A plan that is nowhere less than another amounts to no less.
LEMMA AmountOfMore ==
  ASSUME NEW X, Summable(X), NEW p \in Seq(X), NEW Y, Summable(Y), NEW q \in Seq(Y),
         Len(q) = Len(p), \A k \in 1..Len(p) : p[k].amount <= q[k].amount
  PROVE  AmountOf(p) <= AmountOf(q)
<1>1. PICK f : AmountRun(f, p)
  BY AmountRuns DEF Summable
<1>2. PICK d : AmountRun(d, q)
  BY AmountRuns DEF Summable
<1>3. Len(p) \in Nat /\ \A k \in 1..Len(p) : p[k] \in X /\ q[k] \in Y
  OBVIOUS
<1>4. \A k \in 1..Len(p) : p[k].amount \in Nat /\ q[k].amount \in Nat
  BY <1>3 DEF Summable
<1>5. /\ f \in [0..Len(p) -> Nat] /\ d \in [0..Len(p) -> Nat]
      /\ f[0] = 0 /\ d[0] = 0 /\ f[Len(p)] = AmountOf(p) /\ d[Len(p)] = AmountOf(q)
      /\ \A k \in 1..Len(p) : /\ f[k] = f[k - 1] + p[k].amount
                              /\ d[k] = d[k - 1] + q[k].amount
  BY <1>1, <1>2 DEF AmountRun
<1> DEFINE T == {k \in 0..Len(p) : f[k] <= d[k]}
<1>6. 0 \in T
  BY <1>3, <1>5
<1>7. ASSUME NEW k \in 0..(Len(p) - 1), k \in T PROVE k + 1 \in T
  <2>1. /\ k + 1 \in 1..Len(p) /\ (k + 1) - 1 = k /\ k \in 0..Len(p)
        /\ k + 1 \in 0..Len(p)
    BY <1>3
  <2>2. /\ f[k + 1] = f[k] + p[k + 1].amount /\ d[k + 1] = d[k] + q[k + 1].amount
        /\ f[k] \in Nat /\ d[k] \in Nat /\ f[k] <= d[k]
        /\ p[k + 1].amount \in Nat /\ q[k + 1].amount \in Nat
        /\ p[k + 1].amount <= q[k + 1].amount
    BY <1>4, <1>5, <1>7, <2>1
  <2>3. f[k + 1] <= d[k + 1]
    BY <2>2
  <2> QED BY <2>1, <2>3
<1>8. Len(p) \in T
  <2> HIDE DEF T
  <2>1. \A k \in 0..Len(p) : k \in T
    BY <1>3, <1>6, <1>7, UpToByInduction
  <2> QED BY <1>3, <2>1
<1> QED BY <1>5, <1>8

\* What the plan takes from the sources of S, entry by entry.
Mask(plan, srcs, S) ==
  [j \in 1..Len(plan) |->
     [amount |-> IF \E i \in S : Name(srcs[i]) = Name(plan[j])
                 THEN plan[j].amount ELSE 0]]

Masked == [amount : Nat]

LEMMA MaskType ==
  ASSUME NEW D, Stocked(D), NEW plan \in Seq(Entries(D)), NEW srcs, NEW S
  PROVE  /\ Mask(plan, srcs, S) \in Seq(Masked) /\ Summable(Masked)
         /\ Len(Mask(plan, srcs, S)) = Len(plan)
         /\ AmountOf(Mask(plan, srcs, S)) \in Nat
         /\ AmountOf(Mask(plan, srcs, S)) <= AmountOf(plan)
<1> DEFINE m == Mask(plan, srcs, S)
<1>1. \A j \in 1..Len(plan) : plan[j] \in Entries(D)
  OBVIOUS
<1>2. \A j \in 1..Len(plan) : plan[j].amount \in Nat
  BY <1>1, EntriesSummable DEF Summable
<1>3. m \in [1..Len(plan) -> Masked] /\ Len(plan) \in Nat
  BY <1>2 DEF Mask, Masked
<1>4. \A j \in 1..Len(plan) : m[j].amount <= plan[j].amount
  BY <1>2 DEF Mask
<1> HIDE DEF m
<1>5. m \in Seq(Masked) /\ Len(m) = Len(plan)
  BY <1>3
<1>6. Summable(Masked)
  BY DEF Summable, Masked
<1>7. AmountOf(m) \in Nat
  BY <1>5, <1>6, AmountType
<1>8. AmountOf(m) <= AmountOf(plan)
  BY <1>4, <1>5, <1>6, EntriesSummable, AmountOfMore
<1> QED BY <1>5, <1>6, <1>7, <1>8 DEF m

\* One more source adds what its entry takes.
LEMMA MaskGrows ==
  ASSUME NEW D, Stocked(D), NEW srcs \in Seq(D), Separate(srcs),
         NEW plan \in Seq(Entries(D)), Separate(plan),
         NEW S \in SUBSET (1..Len(srcs)), NEW x \in S, NEW m \in Nat,
         Holds(plan, srcs[x], m)
  PROVE  AmountOf(Mask(plan, srcs, S \ {x})) + m <= AmountOf(Mask(plan, srcs, S))
<1> DEFINE p == Mask(plan, srcs, S \ {x})
           q == Mask(plan, srcs, S)
<1>1. /\ p \in Seq(Masked) /\ q \in Seq(Masked) /\ Summable(Masked)
      /\ Len(p) = Len(plan) /\ Len(q) = Len(plan) /\ AmountOf(p) \in Nat
      /\ AmountOf(q) \in Nat
  BY MaskType
<1>2. PICK j \in 1..Len(plan) : Name(plan[j]) = Name(srcs[x]) /\ plan[j].amount >= m
  BY DEF Holds
<1>3. plan[j].amount \in Nat
  <2>1. plan[j] \in Entries(D)
    OBVIOUS
  <2> QED BY <2>1, EntriesSummable DEF Summable
<1>4. p[j].amount = 0 /\ q[j].amount = plan[j].amount
  <2>1. \A i \in S \ {x} : Name(srcs[i]) # Name(plan[j])
    BY <1>2 DEF Separate
  <2> QED BY <1>2, <2>1 DEF Mask
<1>5. ASSUME NEW k \in 1..Len(plan), k # j PROVE q[k].amount = p[k].amount
  <2>1. Name(plan[k]) # Name(srcs[x])
    BY <1>2, <1>5 DEF Separate
  <2>2. (\E i \in S : Name(srcs[i]) = Name(plan[k]))
          <=> (\E i \in S \ {x} : Name(srcs[i]) = Name(plan[k]))
    BY <2>1
  <2> QED BY <2>2 DEF Mask
<1> HIDE DEF p, q
<1>6. q[j].amount = p[j].amount + plan[j].amount
  BY <1>3, <1>4
<1>7. AmountOf(q) = AmountOf(p) + plan[j].amount
  BY <1>1, <1>3, <1>5, <1>6, AmountOfRaised
<1>8. AmountOf(p) + m <= AmountOf(q)
  BY <1>1, <1>2, <1>3, <1>7
<1> QED BY <1>8 DEF p, q

\* Sources that the plan takes all of cannot pay more than the plan.
LEMMA CanPayAtMost ==
  ASSUME NEW D, Stocked(D), NEW srcs \in Seq(D), Separate(srcs),
         NEW plan \in Seq(Entries(D)), Separate(plan),
         NEW S \in SUBSET (1..Len(srcs)),
         \A i \in S : Drawable(srcs[i]) \in Nat /\ Holds(plan, srcs[i], Drawable(srcs[i]))
  PROVE  CanPay(srcs, S) \in Nat /\ CanPay(srcs, S) <= AmountOf(plan)
<1> DEFINE G == [p \in Nat \X S |-> p[1] + Drawable(srcs[p[2]])]
           c == [s \in (SUBSET S) \ {{}} |-> CHOOSE x \in s : TRUE]
<1>1. IsFiniteSet(S)
  <2>1. IsFiniteSet(1..Len(srcs))
    BY FS_Interval
  <2> QED BY <2>1, FS_Subset
<1>2. G \in [Nat \X S -> Nat]
  <2>1. \A p \in Nat \X S : p[1] \in Nat /\ p[2] \in S
    OBVIOUS
  <2>2. ASSUME NEW p \in Nat \X S PROVE p[1] + Drawable(srcs[p[2]]) \in Nat
    <3>1. p[1] \in Nat /\ Drawable(srcs[p[2]]) \in Nat
      BY <2>1
    <3> QED BY <3>1
  <2> QED BY <2>2
<1>3. /\ c \in [(SUBSET S) \ {{}} -> S] /\ \A s \in (SUBSET S) \ {{}} : c[s] \in s
      /\ \A s \in (SUBSET S) \ {{}} : c[s] = CHOOSE x \in s : TRUE
  OBVIOUS
<1>4. PICK f \in [SUBSET S -> Nat] : Folds(f, S, 0, G, c)
  <2>1. 0 \in Nat
    OBVIOUS
  <2> HIDE DEF G, c
  <2> QED BY <1>1, <1>2, <1>3, <2>1, FoldExists
<1>5. f = [s \in SUBSET S |->
             IF s = {} THEN 0
             ELSE LET x == CHOOSE y \in s : TRUE
                  IN  f[s \ {x}] + Drawable(srcs[x])]
  <2>1. ASSUME NEW s \in SUBSET S
        PROVE  f[s] = IF s = {} THEN 0
                      ELSE LET x == CHOOSE y \in s : TRUE
                           IN  f[s \ {x}] + Drawable(srcs[x])
    <3> DEFINE x == CHOOSE y \in s : TRUE
    <3>1. CASE s = {}
      BY <1>4, <3>1 DEF Folds
    <3>2. CASE s # {}
      <4>0. x \in s /\ x \in S /\ s \in (SUBSET S) \ {{}}
        BY <3>2
      <4>1. x = c[s] /\ x \in s /\ x \in S
        <5> HIDE DEF c
        <5> QED BY <1>3, <4>0
      <4>2. f[s] = G[<<f[s \ {c[s]}], c[s]>>]
        <5> HIDE DEF G, c
        <5> QED BY <1>4, <3>2 DEF Folds
      <4>3. s \ {x} \in SUBSET S
        OBVIOUS
      <4>4. f[s \ {x}] \in Nat
        BY <1>4, <4>3
      <4> HIDE DEF x, c
      <4>5. f[s] = f[s \ {x}] + Drawable(srcs[x])
        BY <4>1, <4>2, <4>4
      <4> QED BY <3>2, <4>5 DEF x
    <3> QED BY <3>1, <3>2
  <2> HIDE DEF G, c
  <2> QED BY <1>4, <2>1
<1> HIDE DEF G, c
<1> DEFINE it == CHOOSE g : g = [s \in SUBSET S |->
                   IF s = {} THEN 0
                   ELSE LET x == CHOOSE y \in s : TRUE
                        IN  g[s \ {x}] + Drawable(srcs[x])]
<1>6. it = [s \in SUBSET S |->
              IF s = {} THEN 0
              ELSE LET x == CHOOSE y \in s : TRUE
                   IN  it[s \ {x}] + Drawable(srcs[x])]
  BY <1>5
<1>7. CanPay(srcs, S) = it[S]
  BY DEF CanPay, FoldSet, MapThenFoldSet
<1> HIDE DEF it
<1>8. \A s \in SUBSET S : /\ IsFiniteSet(s) /\ Cardinality(s) \in Nat
                          /\ AmountOf(Mask(plan, srcs, s)) \in Nat
  BY <1>1, FS_Subset, FS_CardinalityType, MaskType
<1> DEFINE Ok(s) == it[s] \in Nat /\ it[s] <= AmountOf(Mask(plan, srcs, s))
           T == {k \in Nat : \A s \in SUBSET S : Cardinality(s) <= k => Ok(s)}
<1>9. ASSUME NEW s \in SUBSET S, s = {} PROVE Ok(s)
  BY <1>6, <1>8, <1>9
<1>10. 0 \in T
  <2>1. ASSUME NEW s \in SUBSET S, Cardinality(s) <= 0 PROVE Ok(s)
    <3>1. s = {}
      BY <1>8, <2>1, FS_EmptySet
    <3> HIDE DEF Ok
    <3> QED BY <1>9, <3>1
  <2> HIDE DEF Ok
  <2> QED BY <2>1
<1>11. ASSUME NEW k \in T PROVE k + 1 \in T
  <2> HIDE DEF Ok
  <2> SUFFICES ASSUME NEW s \in SUBSET S, Cardinality(s) <= k + 1 PROVE Ok(s)
    OBVIOUS
  <2> USE DEF Ok
  <2>1. CASE s # {}
    <3> DEFINE x == CHOOSE y \in s : TRUE
               r == s \ {x}
    <3>1. x \in s /\ x \in S
      BY <2>1
    <3>2. it[s] = it[r] + Drawable(srcs[x])
      BY <1>6, <2>1
    <3> HIDE DEF x
    <3>3. r \in SUBSET S /\ Cardinality(r) = Cardinality(s) - 1
      BY <1>8, <3>1, FS_RemoveElement
    <3>4. it[r] \in Nat /\ it[r] <= AmountOf(Mask(plan, srcs, r))
      <4>1. Cardinality(r) <= k
        BY <1>8, <3>3
      <4> HIDE DEF r
      <4> QED BY <1>11, <3>3, <4>1
    <3>5. /\ Drawable(srcs[x]) \in Nat /\ Holds(plan, srcs[x], Drawable(srcs[x]))
          /\ s \in SUBSET (1..Len(srcs))
      BY <3>1
    <3>6. AmountOf(Mask(plan, srcs, r)) + Drawable(srcs[x])
            <= AmountOf(Mask(plan, srcs, s))
      BY <3>1, <3>5, MaskGrows
    <3>7. /\ AmountOf(Mask(plan, srcs, r)) \in Nat
          /\ AmountOf(Mask(plan, srcs, s)) \in Nat
      BY <1>8, <3>3
    <3> HIDE DEF r
    <3> QED BY <3>2, <3>4, <3>5, <3>6, <3>7
  <2> QED BY <1>9, <2>1
<1>12. T = Nat
  <2>1. T \in SUBSET Nat
    OBVIOUS
  <2> HIDE DEF T
  <2> QED BY <1>10, <1>11, <2>1, NatByInduction
<1>13. Ok(S)
  <2>1. S \in SUBSET S /\ Cardinality(S) \in T /\ Cardinality(S) <= Cardinality(S)
    BY <1>8, <1>12
  <2> HIDE DEF Ok
  <2> QED BY <2>1
<1>14. /\ AmountOf(Mask(plan, srcs, S)) <= AmountOf(plan)
       /\ AmountOf(Mask(plan, srcs, S)) \in Nat /\ AmountOf(plan) \in Nat
  BY MaskType, EntriesSummable, AmountType
<1> QED BY <1>7, <1>13, <1>14

\* The planner gives up only on an amount that its usable sources could not
\* pay, when there are no more of them than the caps admit.
LEMMA PlanFailsOnlyIfShort ==
  ASSUME NEW D, NEW srcs \in Seq(D), D = ToSet(srcs), Stocked(D), Told(D), Separate(srcs),
         \A s \in D : s.kind # "operatorStake",
         NEW need \in Nat, NEW mode \in Modes, NEW prefer, NEW asOp \in BOOLEAN,
         BuildFundingPlan(srcs, need, mode, prefer, asOp).short > 0,
         WithinCaps(srcs, Usable(srcs, mode, asOp))
  PROVE  ~(CanPay(srcs, Usable(srcs, mode, asOp)) >= need)
<1> DEFINE st   == BuildFundingPlan(srcs, need, mode, prefer, asOp)
           plan == st.plan
           K    == AllowedKinds(mode, asOp)
           S    == Usable(srcs, mode, asOp)
           allowed == {i \in 1..Len(srcs) : srcs[i].kind \in K}
<1>1. st \in States(D) /\ Sound(st, need) /\ Names(plan) \subseteq NamesOfKinds(D, K)
  BY PlannerSound
<1>2. \/ \E s \in D : /\ s.kind = "delegation" /\ Refused(plan, s) /\ s.avail > 0
                      /\ s.kind \in K
      \/ \A i \in allowed : Served(plan, srcs[i], Drawable(srcs[i]))
  BY PlannerServes
<1>3. /\ Len(srcs) \in Nat /\ D = {srcs[i] : i \in 1..Len(srcs)}
      /\ \A i \in 1..Len(srcs) : srcs[i] \in D
  BY OwnElements
<1>4. \A s \in D : s.avail \in Nat /\ Drawable(s) = s.avail
  BY DEF Drawable, Stocked
<1>5. /\ S \in SUBSET (1..Len(srcs)) /\ S \subseteq allowed
      /\ \A i \in S : srcs[i].kind \in K /\ Drawable(srcs[i]) > 0
      /\ \A i \in 1..Len(srcs) : srcs[i].kind \in K /\ Drawable(srcs[i]) > 0 => i \in S
  BY DEF Usable
<1>6. IsFiniteSet(S) /\ Cardinality(S) \in Nat
  <2>1. S \subseteq 1..Len(srcs)
    BY <1>5
  <2> HIDE DEF S
  <2>2. IsFiniteSet(1..Len(srcs))
    BY <1>3, FS_Interval
  <2>3. IsFiniteSet(S)
    BY <2>1, <2>2, FS_Subset
  <2> QED BY <2>3, FS_CardinalityType
<1>7. /\ Cardinality(S) <= MaxFundingSources
      /\ Cardinality({i \in S : srcs[i].kind = "delegation"}) <= MaxDelegationSources
  BY DEF WithinCaps
<1>8. st.short > 0
  OBVIOUS
<1> HIDE DEF S, K, st, allowed
<1>9. plan \in Seq(Entries(D)) /\ Len(plan) \in Nat /\ st.short \in Nat
  BY <1>1 DEF States
<1>10. /\ AmountOf(plan) + st.short = need /\ Separate(plan)
  BY <1>1 DEF Sound
<1> HIDE DEF plan
<1>11. Backed(plan, srcs, S)
  <2> SUFFICES ASSUME NEW j \in 1..Len(plan)
               PROVE  \E i \in S : Name(srcs[i]) = Name(plan[j])
    BY DEF Backed
  <2>1. plan[j] \in Entries(D)
    BY <1>9
  <2>2. PICK s \in D : plan[j].amount \in 1..s.avail /\ Name(plan[j]) = Name(s)
    BY <2>1, EntryFacts
  <2>3. PICK t \in D : t.kind \in K /\ Name(t) = Name(plan[j])
    <3>1. Name(plan[j]) \in Names(plan)
      BY DEF Names
    <3> QED BY <1>1, <3>1 DEF NamesOfKinds
  <2>4. s = t /\ s.avail > 0
    BY <1>4, <2>2, <2>3 DEF Told
  <2>5. PICK i \in 1..Len(srcs) : srcs[i] = s
    BY <1>3
  <2>6. i \in S
    BY <1>4, <1>5, <2>3, <2>4, <2>5
  <2> QED BY <2>2, <2>5, <2>6
<1>12. ASSUME NEW u \in S, Refused(plan, srcs[u]) PROVE FALSE
  <2>1. Full(plan, srcs[u].kind) /\ Name(srcs[u]) \notin Names(plan)
    BY <1>12 DEF Refused
  <2>2. srcs[u] \in D
    BY <1>3, <1>5
  <2>3. Len(plan) < Cardinality(S)
    BY <1>6, <1>9, <1>10, <1>11, <2>1, NoMoreThanCap
  <2>4. ~(Len(plan) >= MaxFundingSources)
    BY <1>6, <1>7, <1>9, <2>3, CapsAssumption
  <2>5. /\ srcs[u].kind = "delegation"
        /\ Cardinality(PlanGateways(plan)) >= MaxDelegationSources
    BY <2>1, <2>4 DEF Full
  <2>6. srcs[u].gw \notin PlanGateways(plan)
    BY <1>9, <2>1, <2>2, <2>5, StakeInPlan
  <2> DEFINE G == {i \in S : srcs[i].kind = "delegation"}
  <2>7. Cardinality(PlanGateways(plan)) < Cardinality(G)
    BY <1>6, <1>9, <1>11, <2>5, <2>6, NoMoreGatewaysThanCap
  <2>8. Cardinality(G) \in Nat /\ Cardinality(PlanGateways(plan)) \in Nat
    <3>1. G \subseteq S
      OBVIOUS
    <3>2. IsFiniteSet(PlanGateways(plan))
      BY <1>1 DEF Sound, plan
    <3> HIDE DEF G
    <3> QED BY <1>6, <3>1, <3>2, FS_Subset, FS_CardinalityType
  <2>9. Cardinality(G) <= MaxDelegationSources
    BY <1>7
  <2> HIDE DEF G
  <2> QED BY <2>5, <2>7, <2>8, <2>9, CapsAssumption
<1>13. ASSUME NEW i \in S
       PROVE  Drawable(srcs[i]) \in Nat /\ Holds(plan, srcs[i], Drawable(srcs[i]))
  <2>1. srcs[i] \in D /\ i \in allowed /\ Drawable(srcs[i]) > 0
    BY <1>3, <1>5
  <2>2. Drawable(srcs[i]) \in Nat
    BY <1>4, <2>1
  <2>3. Served(plan, srcs[i], Drawable(srcs[i]))
    <3>1. ASSUME NEW s \in D, Refused(plan, s), s.avail > 0, s.kind \in K PROVE FALSE
      <4>1. PICK u \in 1..Len(srcs) : srcs[u] = s
        BY <1>3
      <4>2. u \in S
        BY <1>4, <1>5, <3>1, <4>1
      <4> QED BY <1>12, <3>1, <4>1, <4>2
    <3> QED BY <1>2, <2>1, <3>1
  <2> QED BY <1>12, <2>1, <2>2, <2>3 DEF Served
<1>14. CanPay(srcs, S) \in Nat /\ CanPay(srcs, S) <= AmountOf(plan)
  BY <1>5, <1>9, <1>10, <1>13, CanPayAtMost
<1>15. AmountOf(plan) \in Nat
  BY <1>9, EntriesSummable, AmountType
<1>16. ~(CanPay(srcs, S) >= need)
  BY <1>8, <1>9, <1>10, <1>14, <1>15
<1> QED BY <1>16 DEF S

-----------------------------------------------------------------------------
(* What a call has seen and planned, from its discovery to its end.        *)

\* Discovery never finds an operator's own stake.
LEMMA NoOperatorStake ==
  ASSUME h \in HoldingsType
  PROVE  \A s \in ToSet(Discovered) : s.kind # "operatorStake"
<1> DEFINE b == BalanceSource
           w == WithdrawalSources
           d == DelegationSources
           q == b \o w
           u == Discovered
<1>1. /\ Found(b, {"balance"}) /\ Found(w, {"withdrawal"}) /\ Found(d, {"delegation"})
  BY FoundBalance, FoundWithdrawals, FoundDelegations
<1>2. u = q \o d
  BY DEF Discovered
<1> HIDE DEF b, w, d, u
<1>3. Found(q, {"balance"} \cup {"withdrawal"})
  BY <1>1, FoundBoth
<1> HIDE DEF q
<1>4. Found(q \o d, ({"balance"} \cup {"withdrawal"}) \cup {"delegation"})
  BY <1>1, <1>3, FoundBoth
<1>5. \A s \in ToSet(u) : s.kind # "operatorStake"
  BY <1>2, <1>4 DEF Found, FoundOK
<1> QED BY <1>5 DEF u

\* What FloorsLast and FailsOnlyIfShort ask of one call.
FloorsOf(k) == Planned(k) =>
  LET rest == {i \in Usable(k.seen, k.p.mode, k.p.asOp) :
                 TakenFrom(k.plan, k.seen[i]) < BetterPart(k.seen[i])}
  IN  (\E i \in DOMAIN k.plan : /\ k.plan[i].kind = "delegation"
                                /\ k.plan[i].amount > BetterPart(k.plan[i]))
        => \A i \in rest : ~MayPush(k.plan, k.seen[i])

ShortOf(k) == k.pc = "insufficient" =>
  LET all == Usable(k.seen, k.p.mode, k.p.asOp)
  IN  WithinCaps(k.seen, all) => ~(CanPay(k.seen, all) >= k.cost)

Looked(k) == FloorsOf(k) /\ ShortOf(k)

\* They hold of the call when it has just discovered its sources,
LEMMA DiscoveryLooked ==
  ASSUME h \in HoldingsType, NEW k, k.cost \in Nat, k.p \in PurchaseForm,
         k.seen = Discovered,
         LET st == BuildFundingPlan(k.seen, k.cost, k.p.mode, k.p.gw, k.p.asOp)
         IN  /\ k.plan = st.plan
             /\ k.pc = IF st.short > 0 THEN "insufficient" ELSE "planned"
  PROVE  Looked(k)
<1> DEFINE seen == k.seen
           cost == k.cost
           mode == k.p.mode
           gw   == k.p.gw
           asOp == k.p.asOp
           plan == k.plan
           D    == ToSet(seen)
           st   == BuildFundingPlan(seen, cost, mode, gw, asOp)
<1>1. /\ seen \in Seq(D) /\ Stocked(D) /\ Told(D) /\ Separate(seen)
      /\ \A s \in D : s.kind # "operatorStake"
  BY DiscoveredSound, NoOperatorStake DEF Found
<1>2. cost \in Nat /\ mode \in Modes /\ asOp \in BOOLEAN
  BY DEF PurchaseForm
<1>3. plan = st.plan /\ k.pc = IF st.short > 0 THEN "insufficient" ELSE "planned"
  OBVIOUS
<1>4. FloorsOf(k)
  <2> SUFFICES ASSUME \E i \in DOMAIN plan : /\ plan[i].kind = "delegation"
                                             /\ plan[i].amount > BetterPart(plan[i]),
                      NEW i \in Usable(seen, mode, asOp),
                      TakenFrom(plan, seen[i]) < BetterPart(seen[i])
               PROVE  ~MayPush(plan, seen[i])
    BY DEF FloorsOf
  <2>1. plan = BuildFundingPlan(seen, cost, mode, gw, asOp).plan
    BY <1>3
  <2> HIDE DEF seen, cost, mode, gw, asOp, plan, D, st
  <2> QED BY <1>1, <1>2, <2>1, PlanFloorsLast
<1>5. ShortOf(k)
  <2> SUFFICES ASSUME k.pc = "insufficient", WithinCaps(seen, Usable(seen, mode, asOp))
               PROVE  ~(CanPay(seen, Usable(seen, mode, asOp)) >= cost)
    BY DEF ShortOf
  <2>1. BuildFundingPlan(seen, cost, mode, gw, asOp).short > 0
    BY <1>3
  <2>2. D = ToSet(seen)
    OBVIOUS
  <2> HIDE DEF seen, cost, mode, gw, asOp, plan, D, st
  <2> QED BY <1>1, <1>2, <2>1, <2>2, PlanFailsOnlyIfShort
<1> QED BY <1>4, <1>5 DEF Looked

\* and do not change with anything else a call goes through.
SameLook(k, l) ==
  l.pc = k.pc /\ l.p = k.p /\ l.cost = k.cost /\ l.seen = k.seen /\ l.plan = k.plan

LEMMA LookKept ==
  ASSUME NEW k, NEW l, SameLook(k, l), Looked(k) PROVE Looked(l)
BY DEF SameLook, Looked, FloorsOf, ShortOf, Planned

Elsewhere(k) == k.pc \notin {"planned", "insufficient"} \/ (k.pc = "planned" /\ HasSources(k.p))

LEMMA ElsewhereLooked ==
  ASSUME NEW k, Elsewhere(k) PROVE Looked(k)
BY DEF Elsewhere, Looked, FloorsOf, ShortOf, Planned

LEMMA RacingLooked ==
  ASSUME NEW k, NEW v, CallOK(k, v), Looked(k) PROVE Looked(Racing(k))
<1>1. SameLook(k, Racing(k))
  BY DEF Racing, SameLook, CallOK, IsCall, Fields
<1> QED BY <1>1, LookKept

LEMMA EndLooked ==
  ASSUME NEW k, NEW how \in Ended PROVE Looked(End(k, how))
<1>1. End(k, how).pc = how
  BY DEF End, Idle
<1> QED BY <1>1, ElsewhereLooked DEF Elsewhere, Ended

Looks == \A c \in Calls : Looked(call[c])

\* A step of one call, which the others may be raced by.
LEMMA OneLooked ==
  ASSUME IInv, Looks, NEW c \in Calls, Looked(call'[c]),
         \A d \in Calls \ {c} : call'[d] = call[d] \/ call'[d] = Racing(call[d])
  PROVE  Looks'
<1>1. ASSUME NEW d \in Calls, d # c PROVE Looked(call'[d])
  <2>1. Looked(call[d]) /\ CallOK(call[d], h.vaults)
    BY DEF Looks, IInv
  <2> QED BY <1>1, <2>1, RacingLooked
<1> QED BY <1>1 DEF Looks

\* A step that takes a call past its plan, or not yet to it.
LEMMA PastLooked ==
  ASSUME IInv, Looks, NEW c \in Calls, Elsewhere(call'[c]),
         \A d \in Calls \ {c} : call'[d] = call[d] \/ call'[d] = Racing(call[d])
  PROVE  Looks'
BY ElsewhereLooked, OneLooked

LEMMA StopLooked ==
  ASSUME IInv, Looks, NEW c \in Calls, NEW how \in Ended,
         call' = [call EXCEPT ![c] = End(@, how)]
  PROVE  Looks'
<1>1. call'[c] = End(call[c], how) /\ \A d \in Calls \ {c} : call'[d] = call[d]
  BY DEF IInv
<1> QED BY <1>1, EndLooked, OneLooked

LEMMA BeginLooked ==
  ASSUME IInv, Looks, NEW c \in Calls, Begin(c) PROVE Looks'
<1>1. \A d \in Calls \ {c} : call'[d] = call[d]
  BY DEF IInv, Begin, Submit, BeginPurchase
<1>2. CASE \E p \in Requests : Submit(c, p)
  <2>1. call'[c].pc = "flight"
    BY <1>2 DEF Submit, IInv, Idle
  <2> QED BY <1>1, <2>1, PastLooked DEF Elsewhere
<1>3. ASSUME NEW p, BeginPurchase(c, p) PROVE Looks'
  <2>1. call'[c].pc \in {"flight", "refused", "plan", "pick"}
    BY <1>3 DEF BeginPurchase, IInv, Idle, End
  <2> QED BY <1>1, <2>1, PastLooked DEF Elsewhere
<1> QED BY <1>2, <1>3 DEF Begin

LEMMA SendLooked ==
  ASSUME IInv, Looks, NEW c \in Calls, NEW tx, Send(c, tx) PROVE Looks'
<1>1. \A d \in Calls \ {c} : call'[d] = call[d]
  BY DEF IInv, Send
<1>2. IsCall(call[c])
  BY DEF IInv, CallOK
<1>3. call'[c].pc = "flight"
  BY <1>2 DEF IInv, Send, IsCall, Fields
<1> QED BY <1>1, <1>3, PastLooked DEF Elsewhere

LEMMA ResolveLooked ==
  ASSUME IInv, Looks, NEW c \in Calls, ResolveGiven(c) \/ ResolveDiscovered(c)
  PROVE  Looks'
<1> DEFINE k == call[c]
<1>1. CallOK(k, h.vaults) /\ h \in HoldingsType /\ k.pc = "planning"
  BY DEF IInv, ResolveGiven, ResolveDiscovered
<1>2. k.p \in PurchaseForm /\ k.cost \in Nat /\ IsCall(k)
  BY <1>1 DEF CallOK, Planning
<1>3. CASE Stop(c, "refused")
  BY <1>3, StopLooked DEF Stop, Ended
<1>4. CASE ResolveGiven(c) /\ ~Stop(c, "refused")
  <2>1. /\ call' = [call EXCEPT ![c].plan = GivenPlan(k.p), ![c].pc = "planned"]
        /\ HasSources(k.p)
    BY <1>4 DEF ResolveGiven
  <2>2. \A d \in Calls \ {c} : call'[d] = call[d]
    BY <2>1 DEF IInv
  <2>3. call'[c].pc = "planned" /\ call'[c].p = k.p
    <3> DEFINE plan == GivenPlan(k.p)
    <3> HIDE DEF plan
    <3> QED BY <1>2, <2>1 DEF IInv, IsCall, Fields, plan
  <2> QED BY <2>1, <2>2, <2>3, PastLooked DEF Elsewhere
<1>5. CASE ResolveDiscovered(c) /\ ~Stop(c, "refused")
  <2> DEFINE found == Discovered
             st == BuildFundingPlan(found, k.cost, k.p.mode, k.p.gw, k.p.asOp)
             plan == st.plan
             pc == IF st.short > 0 THEN "insufficient" ELSE "planned"
             l == call'[c]
  <2>1. call' = [call EXCEPT ![c].seen = found, ![c].plan = plan, ![c].pc = pc]
    BY <1>5 DEF ResolveDiscovered
  <2> HIDE DEF found, plan, pc
  <2>2. \A d \in Calls \ {c} : call'[d] = call[d]
    BY <2>1 DEF IInv
  <2>3. /\ l.pc = pc /\ l.p = k.p /\ l.cost = k.cost /\ l.seen = found
        /\ l.plan = plan
    BY <1>2, <2>1 DEF IInv, IsCall, Fields
  <2> HIDE DEF k, l
  <2>4. Looked(l)
    <3>1. l.cost \in Nat /\ l.p \in PurchaseForm /\ l.seen = Discovered
      BY <1>2, <2>3 DEF found
    <3>2. st = BuildFundingPlan(l.seen, l.cost, l.p.mode, l.p.gw, l.p.asOp)
      BY <2>3
    <3>3. l.plan = st.plan /\ l.pc = IF st.short > 0 THEN "insufficient" ELSE "planned"
      BY <2>3 DEF plan, pc
    <3> HIDE DEF st
    <3> QED BY <1>1, <3>1, <3>2, <3>3, DiscoveryLooked
  <2> QED BY <2>2, <2>4, OneLooked DEF l
<1> QED BY <1>3, <1>4, <1>5

LEMMA PurchaseStepLooked ==
  ASSUME IInv, Looks, NEW c \in Calls, PurchaseStep(c) PROVE Looks'
<1>1. CASE Quote(c)
  <2>1. \A d \in Calls \ {c} : call'[d] = call[d]
    BY <1>1 DEF IInv, Quote
  <2>2. IsCall(call[c])
    BY DEF IInv, CallOK
  <2>3. call'[c].pc \in {"picking", "planning"}
    <3> DEFINE cost == h.price + (IF call[c].pc = "pick" THEN h.premium ELSE 0)
    <3>1. call' = [call EXCEPT ![c].cost = cost,
                               ![c].pc = IF @ = "pick" THEN "picking" ELSE "planning"]
      BY <1>1 DEF Quote
    <3> HIDE DEF cost
    <3> QED BY <2>2, <3>1 DEF IInv, IsCall, Fields
  <2> QED BY <2>1, <2>3, PastLooked DEF Elsewhere
<1>2. CASE ThrowInsufficient(c)
  BY <1>2, StopLooked DEF ThrowInsufficient, Stop, Ended
<1>3. CASE Materialize(c)
  BY <1>3, SendLooked, StopLooked DEF Materialize, Stop, Ended
<1>4. CASE PickSource(c)
  BY <1>4, SendLooked, StopLooked DEF PickSource, Stop, Ended
<1> QED BY <1>1, <1>2, <1>3, <1>4, ResolveLooked DEF PurchaseStep

LEMMA OutcomeLooked ==
  ASSUME IInv, Looks, NEW c \in Calls, Outcome(c) PROVE Looks'
<1>0. IsCall(call[c])
  BY DEF IInv, CallOK
<1>1. CASE Land(c) \/ LandLate(c)
  <2>1. PICK new : /\ call' = ChangesFor(c, new)
                   /\ new = AfterLanding(call[c]) \/ new = End(call[c], "failed")
    BY <1>1 DEF Land, LandLate
  <2>2. call'[c] = new /\ \A d \in Calls \ {c} : call'[d] = Racing(call[d])
    BY <2>1 DEF ChangesFor
  <2>3. new.pc = "confirmed" \/ \E how \in Ended : new = End(call[c], how)
    <3> DEFINE k == call[c]
    <3>1. [k EXCEPT !.pc = "confirmed", !.made = k.tx[1].id].pc = "confirmed"
      BY <1>0 DEF IsCall, Fields
    <3> HIDE DEF k
    <3>2. AfterLanding(k).pc = "confirmed" \/ AfterLanding(k) = End(k, "ok")
      BY <3>1 DEF AfterLanding
    <3> QED BY <2>1, <3>2 DEF Ended, k
  <2>4. Looked(new)
    BY <2>3, EndLooked, ElsewhereLooked DEF Elsewhere
  <2> QED BY <2>2, <2>4, OneLooked
<1>2. CASE SendSecond(c)
  <2>1. \A d \in Calls \ {c} : call'[d] = call[d]
    BY <1>2 DEF SendSecond, IInv
  <2>2. call'[c].pc = "flight"
    <3> DEFINE tx == SecondTx(call[c])
    <3>1. call' = [call EXCEPT ![c].pc = "flight", ![c].tx = tx]
      BY <1>2 DEF SendSecond
    <3> HIDE DEF tx
    <3> QED BY <1>0, <3>1 DEF IInv, IsCall, Fields
  <2> QED BY <2>1, <2>2, PastLooked DEF Elsewhere
<1>3. CASE LoseConfirmation(c)
  <2>1. /\ \A d \in Calls \ {c} : call'[d] = call[d]
        /\ call'[c].pc = "late"
    BY <1>0, <1>3 DEF LoseConfirmation, IInv, IsCall, Fields
  <2> QED BY <2>1, PastLooked DEF Elsewhere
<1>4. CASE Reject(c)
  BY <1>4, StopLooked DEF Reject, Ended
<1>5. CASE Expire(c)
  BY <1>5, StopLooked DEF Expire, Ended
<1> QED BY <1>1, <1>2, <1>3, <1>4, <1>5 DEF Outcome

LEMMA NextLooks == IInv /\ Looks /\ [Next]_vars => Looks'
<1> SUFFICES ASSUME IInv, Looks, [Next]_vars PROVE Looks'
  OBVIOUS
<1>1. CASE UNCHANGED vars
  BY <1>1 DEF vars, Looks
<1>2. CASE Network
  <2>1. ASSUME NEW d \in Calls PROVE Looked(call'[d])
    <3>1. call'[d] = Racing(call[d]) /\ CallOK(call[d], h.vaults) /\ Looked(call[d])
      BY <1>2 DEF Network, IInv, Looks
    <3> QED BY <3>1, RacingLooked
  <2> QED BY <2>1 DEF Looks
<1> QED BY <1>1, <1>2, BeginLooked, PurchaseStepLooked, OutcomeLooked DEF Next

LEMMA InitLooks == Init => Looks
<1> SUFFICES ASSUME Init, NEW c \in Calls PROVE Looked(call[c])
  BY DEF Looks
<1>1. call[c].pc = "idle"
  BY DEF Init, Idle
<1> QED BY <1>1, ElsewhereLooked DEF Elsewhere

LEMMA AlwaysLooks == Spec => []Looks
BY InitLooks, NextLooks, AlwaysIInv, PTL DEF Spec

LEMMA FloorsOfLooks == Looks => FloorsLast
BY DEF Looks, Looked, FloorsOf, FloorsLast

(* A floor is broken only when nothing better is left: in every plan made  *)
(* from discovered sources, for every owner, price and pair of caps.       *)
THEOREM Floors == Spec => []FloorsLast
BY AlwaysLooks, FloorsOfLooks, PTL

LEMMA ShortOfLooks == Looks => FailsOnlyIfShort
BY DEF Looks, Looked, ShortOf, FailsOnlyIfShort

(* A purchase is given up for lack of funds only when what the owner was   *)
(* seen to have could not pay for it, or was more than the caps admit.     *)
THEOREM GivesUp == Spec => []FailsOnlyIfShort
BY AlwaysLooks, ShortOfLooks, PTL

=============================================================================
