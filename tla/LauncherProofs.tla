--------------------------- MODULE LauncherProofs ---------------------------
(***************************************************************************)
(* Machine-checked proofs about the two launchers, for every menu file, every *)
(* index of applications and everything that is typed: what they act on is    *)
(* what they show.                                                           *)
(***************************************************************************)
EXTENDS MCPrograms, SequenceTheorems, FiniteSetTheorems, WellFoundedInduction, TLAPS

-----------------------------------------------------------------------------
\* Recursion over numbers and over the places of a list.

LEMMA LeastNat ==
  ASSUME NEW S \in SUBSET Nat, S # {}
  PROVE  \E m \in S : \A i \in S : m <= i
<1>1. PICK m \in S : \A i \in S : ~(<<i, m>> \in OpToRel(<, Nat))
  BY NatLessThanWellFounded, WFMin, Zenon
<1>2. \A i \in S : ~(i < m)
  BY <1>1 DEF OpToRel
<1>3. \A i \in S : m <= i
  BY <1>2
<1> QED BY <1>3

LEMMA EveryNat ==
  ASSUME NEW P, 0 \in P, \A k \in Nat : k \in P => k + 1 \in P
  PROVE  Nat \subseteq P
<1> SUFFICES ASSUME Nat \ P # {} PROVE FALSE
  OBVIOUS
<1>1. PICK m \in Nat \ P : \A i \in Nat \ P : m <= i
  BY LeastNat
<1>2. m - 1 \in Nat
  BY <1>1
<1> QED BY <1>1, <1>2

LEMMA OnPairs ==
  ASSUME NEW A, NEW B, NEW C, NEW f, f = [p \in A \X B |-> f[p]],
         \A a \in A, b \in B : f[<<a, b>>] \in C
  PROVE  f \in [A \X B -> C]
<1>1. ASSUME NEW p \in A \X B PROVE f[p] \in C
  <2>1. PICK a \in A, b \in B : p = <<a, b>>
    OBVIOUS
  <2> QED BY <2>1
<1> QED BY <1>1

\* A function on 0..n in which each value comes from the one before it.
Iterates(f, base, step, n) == f[0] = base /\ \A d \in 1..n : f[d] = step[<<f[d - 1], d>>]

LEMMA IterateExists ==
  ASSUME NEW n \in Nat, NEW Acc, NEW base \in Acc, NEW step \in [Acc \X (1..n) -> Acc]
  PROVE  \E f \in [0..n -> Acc] : Iterates(f, base, step, n)
<1> DEFINE Has(k) == \E f \in [0..k -> Acc] : Iterates(f, base, step, k)
           P == {k \in Nat : k <= n => Has(k)}
<1>1. 0 \in P
  <2> DEFINE f == [d \in 0..0 |-> base]
  <2>1. f \in [0..0 -> Acc] /\ f[0] = base
    OBVIOUS
  <2>2. Iterates(f, base, step, 0)
    BY <2>1 DEF Iterates
  <2> QED BY <2>1, <2>2
<1>2. ASSUME NEW k \in Nat, k \in P PROVE k + 1 \in P
  <2> SUFFICES ASSUME k + 1 <= n PROVE Has(k + 1)
    OBVIOUS
  <2>1. PICK f \in [0..k -> Acc] : Iterates(f, base, step, k)
    BY <1>2
  <2> DEFINE g == [d \in 0..(k + 1) |-> IF d = k + 1 THEN step[<<f[k], k + 1>>] ELSE f[d]]
  <2>2. step[<<f[k], k + 1>>] \in Acc
    OBVIOUS
  <2>3. g \in [0..(k + 1) -> Acc]
    BY <2>2
  <2>4. g[0] = base /\ \A d \in 1..(k + 1) : g[d] = step[<<g[d - 1], d>>]
    <3>1. \A d \in 0..k : g[d] = f[d]
      OBVIOUS
    <3>2. g[k + 1] = step[<<f[k], k + 1>>]
      OBVIOUS
    <3> HIDE DEF g
    <3>3. ASSUME NEW d \in 1..(k + 1) PROVE g[d] = step[<<g[d - 1], d>>]
      <4>1. CASE d = k + 1
        <5>1. k \in 0..k /\ d - 1 = k
          BY <4>1
        <5> QED BY <4>1, <5>1, <3>1, <3>2
      <4>2. CASE d # k + 1
        <5>1. d \in 1..k /\ d - 1 \in 0..k /\ d \in 0..k
          BY <4>2
        <5> QED BY <5>1, <3>1, <2>1 DEF Iterates
      <4> QED BY <4>1, <4>2
    <3> QED BY <3>1, <3>3, <2>1 DEF Iterates
  <2>5. Iterates(g, base, step, k + 1)
    BY <2>4 DEF Iterates
  <2> HIDE DEF g
  <2> QED BY <2>3, <2>5
<1>3. n \in P
  <2> HIDE DEF P
  <2> QED BY <1>1, <1>2, EveryNat
<1> QED BY <1>3

\* A function on the sets of places in which the value for a set comes from the set without
\* its last place.
Folds(F, base, step, n) ==
  F[{}] = base /\ \A S \in SUBSET (1..n) : S # {} => F[S] = step[<<F[S \ {Max(S)}], Max(S)>>]

LEMMA LastIs ==
  ASSUME NEW k \in Nat, NEW S \in SUBSET (1..(k + 1)), k + 1 \in S
  PROVE  Max(S) = k + 1
<1>1. \A x \in S : k + 1 >= x
  OBVIOUS
<1>2. ASSUME NEW x \in S, \A y \in S : x >= y PROVE x = k + 1
  BY <1>2
<1> QED BY <1>1, <1>2 DEF Max

\* A set of places without its last one.
LEMMA WithoutLast ==
  ASSUME NEW k \in Nat, NEW S \in SUBSET (1..(k + 1)), S \notin SUBSET (1..k)
  PROVE  Max(S) = k + 1 /\ S \ {Max(S)} \in SUBSET (1..k)
<1>1. k + 1 \in S
  <2>1. (1..(k + 1)) \ {k + 1} = 1..k
    OBVIOUS
  <2> QED BY <2>1
<1>2. Max(S) = k + 1
  BY <1>1, LastIs
<1>3. (1..(k + 1)) \ {k + 1} = 1..k
  OBVIOUS
<1>4. S \ {k + 1} \subseteq 1..k
  BY <1>3
<1> QED BY <1>2, <1>4

\* The places up to i.
LEMMA Prefix ==
  ASSUME NEW i, i \in Nat, i # 0
  PROVE  Max(1..i) = i /\ (1..i) \ {Max(1..i)} = 1..(i - 1) /\ (1..i) # {}
<1>1. i - 1 \in Nat /\ (i - 1) + 1 = i /\ i \in 1..i
  OBVIOUS
<1>2. \A k \in Nat : Max(1..(k + 1)) = k + 1
  BY LastIs
<1>3. Max(1..i) = i
  BY <1>1, <1>2
<1>4. (1..i) \ {i} = 1..(i - 1)
  OBVIOUS
<1> QED BY <1>1, <1>3, <1>4

LEMMA FoldExists ==
  ASSUME NEW n \in Nat, NEW Acc, NEW base \in Acc, NEW step \in [Acc \X (1..n) -> Acc]
  PROVE  \E F \in [SUBSET (1..n) -> Acc] : Folds(F, base, step, n)
<1> DEFINE Has(k) == \E F \in [SUBSET (1..k) -> Acc] : Folds(F, base, step, k)
           P == {k \in Nat : k <= n => Has(k)}
<1>1. 0 \in P
  <2> DEFINE F == [S \in SUBSET (1..0) |-> base]
  <2>1. \A S \in SUBSET (1..0) : S = {}
    OBVIOUS
  <2>2. F \in [SUBSET (1..0) -> Acc] /\ F[{}] = base
    OBVIOUS
  <2>3. Folds(F, base, step, 0)
    BY <2>1, <2>2 DEF Folds
  <2> QED BY <2>2, <2>3
<1>2. ASSUME NEW k \in Nat, k \in P PROVE k + 1 \in P
  <2> HIDE DEF Has
  <2>0. k <= n => Has(k)
    BY <1>2, Zenon
  <2> SUFFICES k + 1 <= n => Has(k + 1)
    <3>1. k + 1 \in Nat
      OBVIOUS
    <3> QED BY <3>1, Zenon
  <2> HAVE k + 1 <= n
  <2>1. PICK F \in [SUBSET (1..k) -> Acc] : Folds(F, base, step, k)
    <3>1. k <= n
      OBVIOUS
    <3>2. Has(k)
      BY <2>0, <3>1, Zenon
    <3> QED BY <3>2, Zenon DEF Has
  <2> DEFINE Low == SUBSET (1..k)
             High == SUBSET (1..(k + 1))
             G == [S \in High |-> IF S \in Low THEN F[S] ELSE step[<<F[S \ {Max(S)}], Max(S)>>]]
  <2>2. ASSUME NEW S \in High, S \notin Low
        PROVE  Max(S) = k + 1 /\ S \ {Max(S)} \in Low
    BY <2>2, WithoutLast
  <2>3. {} \in Low /\ Low \subseteq High
    OBVIOUS
  <2>4. ASSUME NEW S \in Low, S # {} PROVE S \ {Max(S)} \in Low
    BY <2>4
  <2>5. F \in [Low -> Acc] /\ k + 1 \in 1..n
    BY <2>1
  <2>6. F[{}] = base /\ \A S \in Low : S # {} => F[S] = step[<<F[S \ {Max(S)}], Max(S)>>]
    BY <2>1 DEF Folds
  <2> HIDE DEF Low, High
  <2>7. \A S \in High : S \notin Low => step[<<F[S \ {Max(S)}], Max(S)>>] \in Acc
    BY <2>2, <2>5
  <2>8. G \in [High -> Acc]
    BY <2>5, <2>7
  <2>9. \A S \in Low : G[S] = F[S]
    BY <2>3
  <2>10. \A S \in High : S \notin Low => G[S] = step[<<F[S \ {Max(S)}], Max(S)>>]
    OBVIOUS
  <2> HIDE DEF G
  <2>11. ASSUME NEW S \in High, S # {} PROVE G[S] = step[<<G[S \ {Max(S)}], Max(S)>>]
    <3>1. CASE S \in Low
      BY <3>1, <2>11, <2>4, <2>6, <2>9
    <3>2. CASE S \notin Low
      BY <3>2, <2>2, <2>9, <2>10
    <3> QED BY <3>1, <3>2
  <2>12. G[{}] = base
    BY <2>3, <2>6, <2>9
  <2>13. G \in [SUBSET (1..(k + 1)) -> Acc] /\ Folds(G, base, step, k + 1)
    BY <2>8, <2>11, <2>12 DEF High, Folds
  <2> QED BY <2>13 DEF Has
<1>3. n \in P
  <2> HIDE DEF P
  <2> QED BY <1>1, <1>2, EveryNat
<1>4. Has(n)
  <2> HIDE DEF Has
  <2> QED BY <1>3
<1> QED BY <1>4

LEMMA MaxIn ==
  ASSUME NEW n \in Nat, NEW S \in SUBSET (1..n), S # {}
  PROVE  Max(S) \in S /\ Max(S) \in 1..n /\ S \ {Max(S)} \in SUBSET (1..n)
<1> DEFINE Over == {k \in Nat : S \subseteq 1..k}
<1>1. Over \in SUBSET Nat /\ Over # {}
  OBVIOUS
<1>2. PICK m \in Over : \A k \in Over : m <= k
  <2> HIDE DEF Over
  <2> QED BY <1>1, LeastNat
<1>3. m # 0
  <2> SUFFICES ASSUME m = 0 PROVE FALSE
    OBVIOUS
  <2>1. S \subseteq 1..m
    BY <1>2
  <2>2. 1..0 = {}
    OBVIOUS
  <2> QED BY <2>1, <2>2
<1>4. m - 1 \in Nat /\ (m - 1) + 1 = m /\ m - 1 \notin Over
  BY <1>2, <1>3
<1>5. \A k \in Nat : S \in SUBSET (1..(k + 1)) /\ S \notin SUBSET (1..k) => Max(S) = k + 1
  BY WithoutLast
<1>6. Max(S) = m
  BY <1>2, <1>4, <1>5
<1>7. m \in S
  <2>1. (1..m) \ {m} = 1..(m - 1)
    BY <1>4
  <2> QED BY <1>2, <1>4, <2>1
<1> QED BY <1>6, <1>7

-----------------------------------------------------------------------------
\* The list operators.

OnlyStep(F, s, S, P) ==
  IF P = {} THEN <<>>
  ELSE IF s[Max(P)] \in S THEN Append(F[P \ {Max(P)}], s[Max(P)]) ELSE F[P \ {Max(P)}]

LEMMA OnlyExists ==
  ASSUME NEW T, NEW s \in Seq(T), NEW S
  PROVE  \E F : F = [P \in SUBSET DOMAIN s |-> OnlyStep(F, s, S, P)]
<1> DEFINE n == Len(s)
           step == [p \in Seq(T) \X (1..n) |-> IF s[p[2]] \in S THEN Append(p[1], s[p[2]]) ELSE p[1]]
<1>1. n \in Nat /\ DOMAIN s = 1..n /\ \A i \in 1..n : s[i] \in T
  BY LenProperties, ElementOfSeq
<1>2. ASSUME NEW a \in Seq(T), NEW i \in 1..n
      PROVE  /\ step[<<a, i>>] = IF s[i] \in S THEN Append(a, s[i]) ELSE a
             /\ step[<<a, i>>] \in Seq(T)
  <2>1. step[<<a, i>>] = IF s[i] \in S THEN Append(a, s[i]) ELSE a
    OBVIOUS
  <2>2. Append(a, s[i]) \in Seq(T)
    BY <1>1, AppendProperties
  <2> HIDE DEF step
  <2> QED BY <2>1, <2>2
<1>3. step = [p \in Seq(T) \X (1..n) |-> step[p]]
  OBVIOUS
<1>4. step \in [Seq(T) \X (1..n) -> Seq(T)]
  <2> HIDE DEF step, n
  <2> QED BY <1>2, <1>3, OnPairs
<1>5. <<>> \in Seq(T)
  OBVIOUS
<1> HIDE DEF step, n
<1>6. PICK F \in [SUBSET (1..n) -> Seq(T)] : Folds(F, <<>>, step, n)
  BY <1>1, <1>4, <1>5, FoldExists
<1>7. ASSUME NEW P \in SUBSET (1..n) PROVE F[P] = OnlyStep(F, s, S, P)
  <2>1. CASE P = {}
    BY <2>1, <1>6 DEF Folds, OnlyStep
  <2>2. CASE P # {}
    <3>1. Max(P) \in 1..n /\ P \ {Max(P)} \in SUBSET (1..n)
      BY <2>2, <1>1, MaxIn
    <3>2. F[P \ {Max(P)}] \in Seq(T)
      BY <3>1
    <3>3. F[P] = step[<<F[P \ {Max(P)}], Max(P)>>]
      BY <2>2, <1>6 DEF Folds
    <3> QED BY <2>2, <3>1, <3>2, <3>3, <1>2 DEF OnlyStep
  <2> QED BY <2>1, <2>2
<1>8. F = [P \in SUBSET (1..n) |-> F[P]]
  OBVIOUS
<1> QED BY <1>1, <1>7, <1>8

\* The loop keeps elements of the list that pass the test, and only them.
LEMMA OnlyIn ==
  ASSUME NEW T, NEW s \in Seq(T), NEW S
  PROVE  Only(s, S) \in Seq(T \cap S)
<1> DEFINE n == Len(s)
           F == CHOOSE F : F = [P \in SUBSET DOMAIN s |-> OnlyStep(F, s, S, P)]
           In == {i \in Nat : i <= n => F[1..i] \in Seq(T \cap S)}
<1>1. n \in Nat /\ DOMAIN s = 1..n /\ \A i \in 1..n : s[i] \in T
  BY LenProperties, ElementOfSeq
<1>2. F = [P \in SUBSET DOMAIN s |-> OnlyStep(F, s, S, P)]
  BY OnlyExists
<1>3. Only(s, S) = F[DOMAIN s]
  BY DEF Only, FoldLeft, MapThenFoldSet, OnlyStep
<1> HIDE DEF F, n
<1>4. \A P \in SUBSET (1..n) : F[P] = OnlyStep(F, s, S, P)
  BY <1>1, <1>2
<1>5. 0 \in In
  <2>1. 1..0 = {} /\ {} \in SUBSET (1..n)
    OBVIOUS
  <2>2. F[1..0] = <<>>
    BY <2>1, <1>4 DEF OnlyStep
  <2>3. <<>> \in Seq(T \cap S)
    OBVIOUS
  <2> QED BY <2>2, <2>3
<1>6. ASSUME NEW k \in Nat, k \in In PROVE k + 1 \in In
  <2> SUFFICES ASSUME k + 1 <= n PROVE F[1..(k + 1)] \in Seq(T \cap S)
    OBVIOUS
  <2>1. F[1..k] \in Seq(T \cap S)
    BY <1>1, <1>6
  <2>2. k + 1 \in 1..n /\ 1..(k + 1) \in SUBSET (1..n) /\ (k + 1) - 1 = k
    BY <1>1
  <2>3. Max(1..(k + 1)) = k + 1 /\ (1..(k + 1)) \ {Max(1..(k + 1))} = 1..k /\ 1..(k + 1) # {}
    <3>1. k + 1 \in Nat /\ k + 1 # 0
      OBVIOUS
    <3> QED BY <2>2, <3>1, Prefix
  <2>4. F[1..(k + 1)] = IF s[k + 1] \in S THEN Append(F[1..k], s[k + 1]) ELSE F[1..k]
    BY <2>2, <2>3, <1>4 DEF OnlyStep
  <2>5. s[k + 1] \in S => Append(F[1..k], s[k + 1]) \in Seq(T \cap S)
    BY <2>1, <2>2, <1>1, AppendProperties
  <2> QED BY <2>1, <2>4, <2>5
<1>7. n \in In
  <2> HIDE DEF In
  <2> QED BY <1>1, <1>5, <1>6, EveryNat
<1> QED BY <1>1, <1>3, <1>7

\* Contents of lists, one after the other.
LEMMA FlattenIn ==
  ASSUME NEW T, NEW seqs \in Seq(Seq(T))
  PROVE  FlattenSeq(seqs) \in Seq(T)
<1> DEFINE n == Len(seqs)
           Body(f) == [i \in 1..Len(seqs) |-> IF i = 1 THEN seqs[i] ELSE f[i - 1] \o seqs[i]]
           step == [p \in Seq(T) \X (1..n) |-> p[1] \o seqs[p[2]]]
           f == CHOOSE f : f = Body(f)
           In == {i \in Nat : i \in 1..n => f[i] \in Seq(T)}
<1>1. n \in Nat /\ \A i \in 1..n : seqs[i] \in Seq(T)
  BY LenProperties, ElementOfSeq
<1>2. \E g : g = Body(g)
  <2>1. ASSUME NEW a \in Seq(T), NEW i \in 1..n
        PROVE  step[<<a, i>>] = a \o seqs[i] /\ step[<<a, i>>] \in Seq(T)
    BY <1>1, ConcatProperties
  <2>2. step = [p \in Seq(T) \X (1..n) |-> step[p]]
    OBVIOUS
  <2>0. <<>> \in Seq(T)
    OBVIOUS
  <2> HIDE DEF step
  <2>3. step \in [Seq(T) \X (1..n) -> Seq(T)]
    <3> HIDE DEF n
    <3> QED BY <2>1, <2>2, OnPairs
  <2>4. PICK h \in [0..n -> Seq(T)] : Iterates(h, <<>>, step, n)
    <3> HIDE DEF n
    <3> QED BY <1>1, <2>0, <2>3, IterateExists
  <2> DEFINE g == [i \in 1..n |-> h[i]]
  <2>5. ASSUME NEW i \in 1..n PROVE h[i] = IF i = 1 THEN seqs[i] ELSE g[i - 1] \o seqs[i]
    <3>0. i - 1 \in 0..n
      BY <1>1
    <3>1. i - 1 \in 0..n /\ h[i - 1] \in Seq(T) /\ h[0] = <<>>
      <4> HIDE DEF n, step, g, In, f
      <4> QED BY <3>0, <2>4 DEF Iterates
    <3>2. h[i] = h[i - 1] \o seqs[i]
      BY <3>1, <2>1, <2>4 DEF Iterates
    <3>3. CASE i = 1
      <4>1. seqs[i] \in Seq(T) /\ h[i - 1] = <<>>
        BY <3>1, <3>3, <1>1
      <4>2. <<>> \o seqs[i] = seqs[i]
        BY <4>1, ConcatEmptySeq
      <4> QED BY <4>1, <4>2, <3>2, <3>3
    <3>4. CASE i # 1
      <4>1. i - 1 \in 1..n
        BY <3>4, <1>1
      <4> QED BY <4>1, <3>2, <3>4
    <3> QED BY <3>3, <3>4
  <2>6. g = Body(g)
    BY <2>5
  <2> QED BY <2>6
<1>3. f = Body(f)
  <2> HIDE DEF Body
  <2> QED BY <1>2
<1>4. CASE n = 0
  <2>1. FlattenSeq(seqs) = seqs
    BY <1>4 DEF FlattenSeq
  <2>2. seqs = <<>>
    BY <1>4, EmptySeq
  <2> QED BY <2>1, <2>2
<1>5. CASE n # 0
  <2>1. FlattenSeq(seqs) = f[n]
    BY <1>5 DEF FlattenSeq
  <2>2. \A i \in 1..n : f[i] = IF i = 1 THEN seqs[i] ELSE f[i - 1] \o seqs[i]
    BY <1>3
  <2> HIDE DEF f, n
  <2>3. 0 \in In
    OBVIOUS
  <2>4. ASSUME NEW k \in Nat, k \in In PROVE k + 1 \in In
    <3> SUFFICES ASSUME k + 1 \in 1..n PROVE f[k + 1] \in Seq(T)
      OBVIOUS
    <3>1. CASE k = 0
      BY <3>1, <2>2, <1>1
    <3>2. CASE k # 0
      <4>1. k \in 1..n /\ (k + 1) - 1 = k /\ k + 1 # 1
        BY <3>2, <1>1
      <4>2. f[k] \in Seq(T)
        BY <4>1, <2>4
      <4>3. f[k + 1] = f[k] \o seqs[k + 1]
        BY <4>1, <2>2
      <4> QED BY <4>2, <4>3, <1>1, ConcatProperties
    <3> QED BY <3>1, <3>2
  <2>5. n \in In
    <3> HIDE DEF In
    <3> QED BY <1>1, <2>3, <2>4, EveryNat
  <2> QED BY <1>1, <1>5, <2>1, <2>5
<1> QED BY <1>4, <1>5

\* A sort is a list, whatever it sorts.
LEMMA SortedIsList ==
  ASSUME NEW s, NEW before, IsFiniteSet(DOMAIN before)
  PROVE  Sorted(s, before) \in Seq(Range(Sorted(s, before)))
<1> DEFINE n == Cardinality(DOMAIN before)
<1>1. n \in Nat
  BY FS_CardinalityType
<1>2. Sorted(s, before) = [i \in 1..n |-> Sorted(s, before)[i]]
  BY DEF Sorted
<1> HIDE DEF n
<1>3. \A i \in 1..n : Sorted(s, before)[i] \in Range(Sorted(s, before))
  BY <1>2 DEF Range
<1> QED BY <1>1, <1>2, <1>3

\* before[j] are the places before j in a strict total order of the places in H.
Orders(before, H) ==
  /\ before \in [H -> SUBSET H]
  /\ \A j \in H : j \notin before[j]
  /\ \A i, j \in H : i # j => i \in before[j] \/ j \in before[i]
  /\ \A i, j \in H : i \in before[j] => before[i] \subseteq before[j]

\* The sort has the elements of all the places and no others.
LEMMA SortedRange ==
  ASSUME NEW s, NEW before, NEW H, IsFiniteSet(H), Orders(before, H)
  PROVE  Range(Sorted(s, before)) = {s[j] : j \in H}
<1> DEFINE n == Cardinality(H)
           rank == [j \in H |-> Cardinality(before[j]) + 1]
<1>1. n \in Nat
  BY FS_CardinalityType
<1>2. DOMAIN before = H
  BY DEF Orders
<1>3. ASSUME NEW i \in H, NEW j \in H, i \in before[j]
      PROVE  Cardinality(before[i]) < Cardinality(before[j])
  <2>1. IsFiniteSet(before[j]) /\ before[i] \in SUBSET before[j] /\ before[i] # before[j]
    <3>1. before[j] \in SUBSET H /\ before[i] \subseteq before[j] /\ i \notin before[i]
      BY <1>3 DEF Orders
    <3> QED BY <3>1, <1>3, FS_Subset
  <2>2. IsFiniteSet(before[i]) /\ Cardinality(before[i]) <= Cardinality(before[j])
        /\ Cardinality(before[i]) # Cardinality(before[j])
    BY <2>1, FS_Subset
  <2>3. Cardinality(before[i]) \in Nat /\ Cardinality(before[j]) \in Nat
    BY <2>1, <2>2, FS_CardinalityType
  <2> QED BY <2>2, <2>3
<1>4. ASSUME NEW j \in H PROVE rank[j] \in 1..n
  <2>1. before[j] \in SUBSET H /\ before[j] # H
    BY DEF Orders
  <2>2. IsFiniteSet(before[j]) /\ Cardinality(before[j]) <= n /\ Cardinality(before[j]) # n
    BY <2>1, FS_Subset
  <2>3. Cardinality(before[j]) \in Nat
    BY <2>2, FS_CardinalityType
  <2> QED BY <1>1, <2>2, <2>3
<1>5. ASSUME NEW i \in H, NEW j \in H, rank[i] = rank[j] PROVE i = j
  <2>1. Cardinality(before[i]) \in Nat /\ Cardinality(before[j]) \in Nat
    <3>1. before[i] \in SUBSET H /\ before[j] \in SUBSET H
      BY DEF Orders
    <3> QED BY <3>1, FS_Subset, FS_CardinalityType
  <2>2. i \in before[j] \/ j \in before[i] => rank[i] # rank[j]
    BY <2>1, <1>3
  <2> QED BY <1>5, <2>2 DEF Orders
<1>6. rank \in Surjection(H, 1..n)
  <2>1. rank \in [H -> 1..n]
    BY <1>4
  <2>2. rank \in Injection(H, 1..n)
    <3> HIDE DEF rank, n
    <3> QED BY <2>1, <1>5 DEF Injection, IsInjective
  <2>3. IsFiniteSet(1..n) /\ Cardinality(1..n) = n
    BY <1>1, FS_Interval
  <2> HIDE DEF rank
  <2> QED BY <2>2, <2>3, FS_Injection
<1>7. \A i \in 1..n : \E j \in H : rank[j] = i
  <2> HIDE DEF rank, n
  <2> QED BY <1>6 DEF Surjection
<1>8. ASSUME NEW j \in H PROVE Sorted(s, before)[rank[j]] = s[j]
  <2> DEFINE i == rank[j]
             c == CHOOSE k \in H : i = Cardinality(before[k]) + 1
  <2>1. i \in 1..n /\ i = Cardinality(before[j]) + 1
    BY <1>4
  <2>2. Sorted(s, before)[i] = s[c]
    BY <1>2, <2>1 DEF Sorted
  <2> HIDE DEF i
  <2>3. c \in H /\ i = Cardinality(before[c]) + 1
    BY <2>1
  <2> HIDE DEF c
  <2>4. rank[c] = rank[j]
    BY <2>1, <2>3
  <2>5. c = j
    BY <1>5, <2>3, <2>4
  <2> QED BY <2>2, <2>5 DEF i
<1>9. DOMAIN Sorted(s, before) = 1..n
  BY <1>2 DEF Sorted
<1>10. \A i \in 1..n : Sorted(s, before)[i] \in {s[j] : j \in H}
  <2> HIDE DEF rank, n
  <2> QED BY <1>7, <1>8
<1>11. \A j \in H : \E i \in 1..n : Sorted(s, before)[i] = s[j]
  <2> HIDE DEF rank, n
  <2> QED BY <1>4, <1>8
<1> HIDE DEF n
<1> QED BY <1>9, <1>10, <1>11 DEF Range

-----------------------------------------------------------------------------
\* The search of the menu finds a query wherever it occurs.

NoMark      == [at |-> 0, score |-> 0]
Marks(text) == [at : 0..Len(text), score : Int]

\* The letters among the first k of a query, and how they lie in a text.
Letters(q, k) == {i \in DOMAIN q : i <= k /\ q[i] # Blank}
Lies(e, q, k, text) ==
  /\ e \in [Letters(q, k) -> DOMAIN text]
  /\ \A i \in Letters(q, k) : text[e[i]] = q[i]
  /\ \A i, j \in Letters(q, k) : i < j => e[i] < e[j]

\* The letter is found at its first place after the last one.
TakesNext(t, s, c, text) ==
  /\ t \in Marks(text) /\ t.score >= 0 /\ t.score >= s.score + 10
  /\ t.at \in s.at + 1..Len(text) /\ text[t.at] = c
  /\ \A i \in s.at + 1..t.at - 1 : text[i] # c

IsFirst(m, text, a, n, c) ==
  m \in a + 1..n /\ text[m] = c /\ \A j \in a + 1..m - 1 : text[j] # c

LEMMA FirstPlace ==
  ASSUME NEW text, NEW n \in Nat, NEW a \in Nat, NEW c, NEW i \in a + 1..n, text[i] = c
  PROVE  \E m : IsFirst(m, text, a, n, c)
<1> DEFINE Places == {j \in a + 1..n : text[j] = c}
<1>1. Places \in SUBSET Nat /\ i \in Places
  OBVIOUS
<1>2. PICK m \in Places : \A j \in Places : m <= j
  <2> HIDE DEF Places
  <2> QED BY <1>1, LeastNat
<1>3. ASSUME NEW j \in a + 1..m - 1 PROVE text[j] # c
  <2>1. j \in a + 1..n /\ ~(m <= j)
    OBVIOUS
  <2> QED BY <2>1, <1>2
<1> QED BY <1>2, <1>3 DEF IsFirst

LEMMA TakesFirst ==
  ASSUME NEW C, NEW text \in Seq(C), NEW s \in Marks(text), NEW c, s.score >= 0, c # Blank,
         NEW i \in s.at + 1..Len(text), text[i] = c
  PROVE  TakesNext(Takes(text, s, c), s, c, text)
<1> DEFINE a == s.at
           z == s.score
           n == Len(text)
           Near(at) == IF at > 1 /\ at = a + 1 THEN 15 ELSE 0
           Word(at) == IF IsWordBoundary(text, at) THEN 20 ELSE 0
           Very(at) == IF at = 1 THEN 40 ELSE 0
           Gain(at) == [at |-> at, score |-> z + 10 + Near(at) + Word(at) + Very(at)]
           Good(t) == text[t.at] = c /\ \A j \in a + 1..t.at - 1 : text[j] # c
           t == CHOOSE t \in {Gain(at) : at \in a + 1..n} : Good(t)
<1>1. a \in 0..n /\ z \in Int /\ z >= 0 /\ n \in Nat /\ i \in a + 1..n
  BY LenProperties DEF Marks
<1>2. Takes(text, s, c) = t
  <2>1. ~(z < 0)
    <3> HIDE DEF z
    <3> QED BY <1>1
  <2>2. ~(z < 0 \/ c = Blank)
    BY <2>1
  <2>3. ~(\A j \in a + 1..n : text[j] # c)
    <3> HIDE DEF a, n
    <3> QED BY <1>1
  <2> QED BY <2>2, <2>3, Zenon DEF Takes
<1> HIDE DEF a, z, n
<1>3. PICK m \in a + 1..n : text[m] = c /\ \A j \in a + 1..m - 1 : text[j] # c
  <2>1. a \in Nat /\ text[i] = c
    BY <1>1
  <2>2. \E m : IsFirst(m, text, a, n, c)
    BY <1>1, <2>1, FirstPlace
  <2> QED BY <2>2 DEF IsFirst
<1>4. Gain(m) \in {Gain(at) : at \in a + 1..n} /\ Good(Gain(m))
  BY <1>3
<1>5. t \in {Gain(at) : at \in a + 1..n} /\ Good(t)
  <2> HIDE DEF Gain, Good
  <2> QED BY <1>4
<1> HIDE DEF t
<1>6. PICK at \in a + 1..n : t = Gain(at)
  BY <1>5
<1>7. Near(at) \in Nat /\ Word(at) \in Nat /\ Very(at) \in Nat
  OBVIOUS
<1> HIDE DEF Near, Word, Very
<1>8. z + 10 + Near(at) + Word(at) + Very(at) \in Int
      /\ z + 10 + Near(at) + Word(at) + Very(at) >= 0
      /\ z + 10 + Near(at) + Word(at) + Very(at) >= z + 10
  BY <1>1, <1>7
<1>9. at \in 0..n
  BY <1>1
<1>10. /\ t.at = at /\ t.score \in Int /\ t.score >= 0 /\ t.score >= z + 10
       /\ t \in [at : 0..n, score : Int]
  BY <1>6, <1>8, <1>9
<1>11. t.at \in s.at + 1..Len(text)
  BY <1>10 DEF a, n
<1>12. text[t.at] = c /\ \A j \in s.at + 1..t.at - 1 : text[j] # c
  BY <1>5 DEF a
<1> HIDE DEF Gain, Good
<1> QED BY <1>2, <1>10, <1>11, <1>12 DEF TakesNext, Marks, n, z

LEMMA TakesMark ==
  ASSUME NEW C, NEW text \in Seq(C), NEW s \in Marks(text), NEW c
  PROVE  Takes(text, s, c) \in Marks(text)
<1>1. s.at \in 0..Len(text) /\ s.score \in Int
  BY DEF Marks
<1>2. CASE s.score < 0 \/ c = Blank
  BY <1>2 DEF Takes
<1>3. CASE ~(s.score < 0 \/ c = Blank) /\ \A i \in s.at + 1..Len(text) : text[i] # c
  BY <1>3 DEF Takes, Marks
<1>4. CASE ~(s.score < 0 \/ c = Blank) /\ \E i \in s.at + 1..Len(text) : text[i] = c
  BY <1>1, <1>4, TakesFirst DEF TakesNext
<1> QED BY <1>2, <1>3, <1>4

MatchStep(F, q, text, P) ==
  IF P = {} THEN NoMark ELSE Takes(text, F[P \ {Max(P)}], q[Max(P)])

LEMMA MatchExists ==
  ASSUME NEW C, NEW text \in Seq(C), NEW D, NEW q \in Seq(D)
  PROVE  \E F : F = [P \in SUBSET DOMAIN q |-> MatchStep(F, q, text, P)]
<1> DEFINE n == Len(q)
           Acc == Marks(text)
           step == [p \in Acc \X (1..n) |-> Takes(text, p[1], q[p[2]])]
<1>1. n \in Nat /\ DOMAIN q = 1..n /\ NoMark \in Acc
  <2>1. Len(text) \in Nat
    BY LenProperties
  <2> QED BY <2>1, LenProperties DEF NoMark, Marks
<1>2. ASSUME NEW a \in Acc, NEW i \in 1..n
      PROVE  step[<<a, i>>] = Takes(text, a, q[i]) /\ step[<<a, i>>] \in Acc
  <2>1. step[<<a, i>>] = Takes(text, a, q[i])
    OBVIOUS
  <2> HIDE DEF step
  <2> QED BY <2>1, TakesMark
<1>3. step = [p \in Acc \X (1..n) |-> step[p]]
  OBVIOUS
<1> HIDE DEF step, n, Acc
<1>4. step \in [Acc \X (1..n) -> Acc]
  BY <1>2, <1>3, OnPairs
<1>5. PICK F \in [SUBSET (1..n) -> Acc] : Folds(F, NoMark, step, n)
  BY <1>1, <1>4, FoldExists
<1>6. ASSUME NEW P \in SUBSET (1..n) PROVE F[P] = MatchStep(F, q, text, P)
  <2>1. CASE P = {}
    BY <2>1, <1>5 DEF Folds, MatchStep
  <2>2. CASE P # {}
    <3>1. Max(P) \in 1..n /\ P \ {Max(P)} \in SUBSET (1..n)
      BY <2>2, <1>1, MaxIn
    <3>2. F[P \ {Max(P)}] \in Acc
      BY <3>1
    <3>3. F[P] = step[<<F[P \ {Max(P)}], Max(P)>>]
      BY <2>2, <1>5 DEF Folds
    <3> QED BY <2>2, <3>1, <3>2, <3>3, <1>2 DEF MatchStep
  <2> QED BY <2>1, <2>2
<1>7. F = [P \in SUBSET (1..n) |-> F[P]]
  OBVIOUS
<1> QED BY <1>1, <1>6, <1>7

\* F has what is found after each prefix of the query.
IsMatch(F, q, text) ==
  /\ Matched(q, text) = F[1..Len(q)] /\ F[1..0] = NoMark
  /\ \A i \in 1..Len(q) : F[1..i] = Takes(text, F[1..(i - 1)], q[i])

LEMMA MatchIs ==
  ASSUME NEW C, NEW text \in Seq(C), NEW D, NEW q \in Seq(D)
  PROVE  \E F : IsMatch(F, q, text)
<1> DEFINE n == Len(q)
           F == CHOOSE F : F = [P \in SUBSET DOMAIN q |-> MatchStep(F, q, text, P)]
<1>1. n \in Nat /\ DOMAIN q = 1..n
  BY LenProperties
<1>2. F = [P \in SUBSET DOMAIN q |-> MatchStep(F, q, text, P)]
  BY MatchExists
<1>3. Matched(q, text) = F[DOMAIN q]
  BY DEF Matched, FoldLeft, MapThenFoldSet, MatchStep, NoMark
<1> HIDE DEF F, n
<1>4. \A P \in SUBSET (1..n) : F[P] = MatchStep(F, q, text, P)
  BY <1>1, <1>2
<1>5. F[1..0] = NoMark
  <2>1. 1..0 = {} /\ {} \in SUBSET (1..n)
    OBVIOUS
  <2> QED BY <2>1, <1>4 DEF MatchStep
<1>6. ASSUME NEW i \in 1..n PROVE F[1..i] = Takes(text, F[1..(i - 1)], q[i])
  <2>1. 1..i \in SUBSET (1..n) /\ i \in Nat /\ i # 0
    BY <1>1
  <2>2. Max(1..i) = i /\ (1..i) \ {Max(1..i)} = 1..(i - 1) /\ 1..i # {}
    BY <2>1, Prefix
  <2> QED BY <2>1, <2>2, <1>4 DEF MatchStep
<1> QED BY <1>1, <1>3, <1>5, <1>6 DEF IsMatch, n

\* What the greedy search has after k letters: a negative score when they do not lie in the
\* text, else the earliest place at which the last of them can lie.
Reaches(e, q, k, place) == place = 0 \/ \E i \in Letters(q, k) : e[i] >= place
Earliest(q, k, text, place) ==
  /\ \E e : Lies(e, q, k, text) /\ \A i \in Letters(q, k) : e[i] <= place
  /\ \A e : Lies(e, q, k, text) => Reaches(e, q, k, place)
Greedy(s, q, k, text) ==
  /\ s \in Marks(text)
  /\ s.score < 0 => \A e : ~Lies(e, q, k, text)
  /\ s.score >= 0 => Earliest(q, k, text, s.at)

LEMMA LettersGrow ==
  ASSUME NEW D, NEW q \in Seq(D), NEW k \in Nat, k + 1 <= Len(q)
  PROVE  /\ q[k + 1] = Blank => Letters(q, k + 1) = Letters(q, k)
         /\ q[k + 1] # Blank => Letters(q, k + 1) = Letters(q, k) \cup {k + 1}
         /\ \A i \in Letters(q, k) : i \in Nat /\ i < k + 1
         /\ k + 1 \notin Letters(q, k)
<1>1. DOMAIN q = 1..Len(q) /\ Len(q) \in Nat
  BY LenProperties
<1>2. \A i \in DOMAIN q : i \in Nat /\ (i <= k + 1 <=> i <= k \/ i = k + 1)
  BY <1>1
<1>3. k + 1 \in DOMAIN q /\ ~(k + 1 <= k) /\ \A i \in Nat : i <= k => i < k + 1
  BY <1>1
<1> QED BY <1>2, <1>3 DEF Letters

\* What lies in the text lies there without its last letter.
LEMMA LiesBefore ==
  ASSUME NEW D, NEW q \in Seq(D), NEW k \in Nat, k + 1 <= Len(q), NEW text,
         NEW e, Lies(e, q, k + 1, text)
  PROVE  /\ Lies([i \in Letters(q, k) |-> e[i]], q, k, text)
         /\ \A place : Reaches([i \in Letters(q, k) |-> e[i]], q, k, place)
                         => place = 0 \/ \E i \in Letters(q, k) : e[i] >= place
<1> DEFINE f == [i \in Letters(q, k) |-> e[i]]
<1>1. Letters(q, k) \subseteq Letters(q, k + 1)
  BY LettersGrow
<1>2. \A i \in Letters(q, k) : f[i] = e[i] /\ e[i] \in DOMAIN text
  BY <1>1 DEF Lies
<1>3. f \in [Letters(q, k) -> DOMAIN text]
  BY <1>2
<1> HIDE DEF f
<1>4. Lies(f, q, k, text)
  BY <1>1, <1>2, <1>3 DEF Lies
<1>5. \A place : Reaches(f, q, k, place) => place = 0 \/ \E i \in Letters(q, k) : e[i] >= place
  BY <1>2 DEF Reaches
<1> QED BY <1>4, <1>5 DEF f

LEMMA GreedyStep ==
  ASSUME NEW C, NEW text \in Seq(C), NEW D, NEW q \in Seq(D), NEW k \in Nat, k + 1 <= Len(q),
         NEW s, Greedy(s, q, k, text)
  PROVE  Greedy(Takes(text, s, q[k + 1]), q, k + 1, text)
<1> DEFINE c == q[k + 1]
           t == Takes(text, s, c)
           L == Letters(q, k)
           M == Letters(q, k + 1)
<1> SUFFICES Greedy(t, q, k + 1, text)
  OBVIOUS
<1>1. s \in Marks(text) /\ s.at \in 0..Len(text) /\ s.score \in Int
  BY DEF Greedy, Marks
<1>2. DOMAIN text = 1..Len(text) /\ Len(text) \in Nat
  BY LenProperties
<1>3. \A i \in L : i \in Nat /\ i < k + 1 /\ i # k + 1
  BY LettersGrow
<1>4. t \in Marks(text)
  BY <1>1, TakesMark
<1>5. CASE c = Blank
  <2>1. t = s /\ M = L
    BY <1>5, LettersGrow DEF Takes
  <2>2. \A e : Lies(e, q, k + 1, text) <=> Lies(e, q, k, text)
    BY <2>1 DEF Lies
  <2>3. \A e, place : Reaches(e, q, k + 1, place) <=> Reaches(e, q, k, place)
    BY <2>1 DEF Reaches
  <2>4. Earliest(q, k, text, s.at) => Earliest(q, k + 1, text, s.at)
    BY <2>1, <2>2, <2>3 DEF Earliest
  <2> HIDE DEF t
  <2> QED BY <2>1, <2>2, <2>4 DEF Greedy
<1>6. CASE c # Blank /\ s.score < 0
  <2>1. t = s
    BY <1>6 DEF Takes
  <2>2. \A e : ~Lies(e, q, k + 1, text)
    <3>1. \A e : ~Lies(e, q, k, text)
      BY <1>6 DEF Greedy
    <3> QED BY <3>1, LiesBefore
  <2>3. ~(t.score >= 0)
    BY <1>1, <1>6, <2>1
  <2> HIDE DEF t
  <2> QED BY <1>4, <2>2, <2>3 DEF Greedy
<1>7. CASE c # Blank /\ s.score >= 0
  <2>1. M = L \cup {k + 1}
    BY <1>7, LettersGrow
  <2>2. Earliest(q, k, text, s.at)
    BY <1>7 DEF Greedy
  \* The next letter lies after the earliest place of the last one.
  <2>3. ASSUME NEW e, Lies(e, q, k + 1, text)
        PROVE  e[k + 1] \in s.at + 1..Len(text) /\ text[e[k + 1]] = c
    <3> DEFINE f == [i \in L |-> e[i]]
    <3>1. e[k + 1] \in DOMAIN text /\ text[e[k + 1]] = c
      BY <2>1, <2>3 DEF Lies
    <3>2. Lies(f, q, k, text) /\ (Reaches(f, q, k, s.at) => s.at = 0 \/ \E i \in L : e[i] >= s.at)
      BY <2>3, LiesBefore
    <3> HIDE DEF f
    <3>3. s.at = 0 \/ \E i \in L : e[i] >= s.at
      BY <2>2, <3>2 DEF Earliest
    <3>4. \A i \in L : e[i] \in DOMAIN text /\ e[i] < e[k + 1]
      BY <1>3, <2>1, <2>3 DEF Lies
    <3>5. e[k + 1] > s.at
      <4>1. CASE s.at = 0
        BY <4>1, <3>1, <1>2
      <4>2. CASE \E i \in L : e[i] >= s.at
        BY <4>2, <3>1, <3>4, <1>1, <1>2
      <4> QED BY <3>3, <4>1, <4>2
    <3> QED BY <3>1, <3>5, <1>1, <1>2
  <2>4. CASE \A i \in s.at + 1..Len(text) : text[i] # c
    <3>1. t = [s EXCEPT !.score = -1]
      <4>1. ~(s.score < 0)
        BY <1>1, <1>7
      <4> QED BY <4>1, <1>7, <2>4, Zenon DEF Takes
    <3>2. t.score = -1
      BY <3>1, <1>1 DEF Marks
    <3>3. \A e : ~Lies(e, q, k + 1, text)
      BY <2>3, <2>4
    <3> HIDE DEF t
    <3>4. ~(t.score >= 0)
      BY <3>2
    <3> QED BY <1>4, <3>3, <3>4 DEF Greedy
  <2>5. CASE \E i \in s.at + 1..Len(text) : text[i] = c
    <3>1. TakesNext(t, s, c, text)
      BY <1>1, <1>7, <2>5, TakesFirst
    <3> HIDE DEF t
    <3>2. /\ t.score >= 0 /\ ~(t.score < 0) /\ t.at \in s.at + 1..Len(text) /\ text[t.at] = c
          /\ \A i \in s.at + 1..t.at - 1 : text[i] # c
      <4>1. t.score \in Int
        BY <1>4 DEF Marks
      <4> QED BY <3>1, <4>1 DEF TakesNext
    <3>3. PICK e : Lies(e, q, k, text) /\ \A i \in L : e[i] <= s.at
      BY <2>2 DEF Earliest
    <3> DEFINE g == [i \in M |-> IF i = k + 1 THEN t.at ELSE e[i]]
    <3>4. g[k + 1] = t.at /\ \A i \in L : g[i] = e[i] /\ e[i] \in DOMAIN text /\ text[e[i]] = q[i]
      BY <1>3, <2>1, <3>3 DEF Lies
    <3>5. t.at \in DOMAIN text
      BY <1>1, <1>2, <3>2
    <3>6. g \in [M -> DOMAIN text]
      BY <2>1, <3>4, <3>5
    <3> HIDE DEF g
    <3>7. \A i \in M : text[g[i]] = q[i] /\ g[i] <= t.at
      <4>1. text[g[k + 1]] = c /\ g[k + 1] <= t.at
        BY <1>2, <3>2, <3>4, <3>5
      <4>2. ASSUME NEW i \in L PROVE text[g[i]] = q[i] /\ g[i] <= t.at
        <5>1. e[i] <= s.at /\ e[i] \in Nat /\ s.at < t.at /\ t.at \in Nat /\ s.at \in Nat
          BY <1>1, <1>2, <3>2, <3>3, <3>4
        <5> QED BY <5>1, <3>4
      <4> QED BY <2>1, <4>1, <4>2
    <3>8. \A i, j \in M : i < j => g[i] < g[j]
      <4>1. ASSUME NEW i \in L, NEW j \in L, i < j PROVE g[i] < g[j]
        BY <4>1, <3>3, <3>4 DEF Lies
      <4>2. ASSUME NEW i \in L PROVE g[i] < g[k + 1] /\ ~(k + 1 < i)
        <5>1. e[i] <= s.at /\ e[i] \in Nat /\ s.at < t.at /\ t.at \in Nat /\ s.at \in Nat
          BY <1>1, <1>2, <3>2, <3>3, <3>4
        <5> QED BY <5>1, <3>4, <1>3
      <4>3. ~(k + 1 < k + 1)
        OBVIOUS
      <4> QED BY <2>1, <4>1, <4>2, <4>3
    <3>9. Lies(g, q, k + 1, text)
      BY <3>6, <3>7, <3>8 DEF Lies
    <3>10. ASSUME NEW h, Lies(h, q, k + 1, text) PROVE Reaches(h, q, k + 1, t.at)
      <4>1. h[k + 1] \in s.at + 1..Len(text) /\ text[h[k + 1]] = c
        BY <2>3, <3>10
      <4>2. h[k + 1] >= t.at
        BY <4>1, <3>2, <1>1, <1>2
      <4> QED BY <2>1, <4>2 DEF Reaches
    <3>11. Earliest(q, k + 1, text, t.at)
      BY <3>7, <3>9, <3>10 DEF Earliest
    <3> QED BY <1>4, <3>2, <3>11 DEF Greedy
  <2> QED BY <2>4, <2>5
<1>8. s.score < 0 \/ s.score >= 0
  BY <1>1
<1> QED BY <1>5, <1>6, <1>7, <1>8

\* The greedy search finds a query exactly where it occurs.
LEMMA MatchFinds ==
  ASSUME NEW C, NEW text \in Seq(C), NEW D, NEW q \in Seq(D)
  PROVE  /\ Matched(q, text) \in Marks(text)
         /\ Matched(q, text).score >= 0 <=> Occurs(q, text)
<1> DEFINE n == Len(q)
           s == Matched(q, text)
<1>1. PICK F : IsMatch(F, q, text)
  BY MatchIs
<1> DEFINE In == {i \in Nat : i <= n => Greedy(F[1..i], q, i, text)}
<1>2. n \in Nat /\ DOMAIN q = 1..n
  BY LenProperties
<1>3. Greedy(F[1..0], q, 0, text)
  <2>1. F[1..0] = NoMark /\ NoMark \in Marks(text) /\ NoMark.score = 0 /\ NoMark.at = 0
    <3>1. Len(text) \in Nat
      BY LenProperties
    <3> QED BY <3>1, <1>1 DEF IsMatch, NoMark, Marks
  <2>2. Letters(q, 0) = {}
    BY <1>2 DEF Letters
  <2> DEFINE e == [i \in {} |-> 0]
  <2>3. Lies(e, q, 0, text)
    <3>1. e \in [{} -> DOMAIN text]
      OBVIOUS
    <3> QED BY <3>1, <2>2 DEF Lies
  <2>4. Earliest(q, 0, text, 0)
    <3> HIDE DEF e
    <3> QED BY <2>2, <2>3 DEF Earliest, Reaches
  <2> QED BY <2>1, <2>4 DEF Greedy
<1>4. 0 \in In
  <2> HIDE DEF n
  <2> QED BY <1>3
<1>5. ASSUME NEW k \in Nat, k \in In PROVE k + 1 \in In
  <2> SUFFICES ASSUME k + 1 <= n PROVE Greedy(F[1..(k + 1)], q, k + 1, text)
    OBVIOUS
  <2>1. Greedy(F[1..k], q, k, text)
    BY <1>2, <1>5
  <2>2. F[1..(k + 1)] = Takes(text, F[1..k], q[k + 1])
    <3>1. k + 1 \in 1..n /\ (k + 1) - 1 = k
      BY <1>2
    <3> QED BY <1>1, <3>1 DEF IsMatch
  <2> QED BY <2>1, <2>2, GreedyStep
<1>6. n \in In
  <2> HIDE DEF In
  <2> QED BY <1>2, <1>4, <1>5, EveryNat
<1>7. Greedy(s, q, n, text)
  BY <1>1, <1>2, <1>6 DEF IsMatch
<1>8. Letters(q, n) = {i \in DOMAIN q : q[i] # Blank}
  BY <1>2 DEF Letters
<1>9. Occurs(q, text) <=> \E e : Lies(e, q, n, text)
  BY <1>8 DEF Occurs, Lies
<1> HIDE DEF s, n
<1>10. s.score \in Int
  BY <1>7 DEF Greedy, Marks
<1> QED BY <1>7, <1>9, <1>10 DEF Greedy, Earliest, s

\* Each letter that is found is worth 10.
Worths(s, q, k, text) ==
  /\ s \in Marks(text) /\ IsFiniteSet(Letters(q, k))
  /\ s.score >= 0 => s.score >= 10 * Cardinality(Letters(q, k))

LEMMA MatchScores ==
  ASSUME NEW C, NEW text \in Seq(C), NEW D, NEW q \in Seq(D), Matched(q, text).score >= 0
  PROVE  Matched(q, text).score >= 10 * Cardinality({i \in DOMAIN q : q[i] # Blank})
<1> DEFINE n == Len(q)
<1>1. PICK F : IsMatch(F, q, text)
  BY MatchIs
<1> DEFINE In == {i \in Nat : i <= n => Worths(F[1..i], q, i, text)}
<1>2. n \in Nat /\ DOMAIN q = 1..n
  BY LenProperties
<1>3. Worths(F[1..0], q, 0, text)
  <2>1. F[1..0] = NoMark /\ NoMark \in Marks(text) /\ NoMark.score = 0
    <3>1. Len(text) \in Nat
      BY LenProperties
    <3> QED BY <3>1, <1>1 DEF IsMatch, NoMark, Marks
  <2>2. Letters(q, 0) = {}
    BY <1>2 DEF Letters
  <2>3. IsFiniteSet({}) /\ Cardinality({}) = 0
    BY FS_EmptySet
  <2>4. NoMark.score >= 10 * 0
    BY <2>1
  <2> QED BY <2>1, <2>2, <2>3, <2>4 DEF Worths
<1>4. 0 \in In
  <2> HIDE DEF n
  <2> QED BY <1>3
<1>5. ASSUME NEW k \in Nat, k \in In PROVE k + 1 \in In
  <2> SUFFICES ASSUME k + 1 <= n PROVE Worths(F[1..(k + 1)], q, k + 1, text)
    OBVIOUS
  <2> DEFINE s == F[1..k]
             c == q[k + 1]
             t == Takes(text, s, c)
             L == Letters(q, k)
  <2>1. Worths(s, q, k, text)
    BY <1>2, <1>5
  <2>2. F[1..(k + 1)] = t
    <3>1. k + 1 \in 1..n /\ (k + 1) - 1 = k
      BY <1>2
    <3> QED BY <1>1, <3>1 DEF IsMatch
  <2>3. t \in Marks(text)
    BY <2>1, TakesMark DEF Worths
  <2>4. s.score \in Int /\ t.score \in Int /\ Cardinality(L) \in Nat
    <3>1. Cardinality(L) \in Nat
      BY <2>1, FS_CardinalityType DEF Worths
    <3> QED BY <3>1, <2>1, <2>3 DEF Marks, Worths
  <2>5. CASE c = Blank
    <3>1. t = s /\ Letters(q, k + 1) = L
      BY <2>5, LettersGrow DEF Takes
    <3> HIDE DEF t, s, L
    <3> QED BY <3>1, <2>1, <2>2 DEF Worths, L
  <2>6. CASE c # Blank
    <3>1. Letters(q, k + 1) = L \cup {k + 1} /\ k + 1 \notin L
      BY <2>6, LettersGrow
    <3>2. IsFiniteSet(L \cup {k + 1}) /\ Cardinality(L \cup {k + 1}) = Cardinality(L) + 1
      <4>1. IsFiniteSet(L) /\ k + 1 \notin L
        BY <2>1, <3>1 DEF Worths
      <4> HIDE DEF L
      <4> QED BY <4>1, FS_AddElement
    <3>3. t.score < 0 \/ (s.score >= 0 /\ t.score >= s.score + 10)
      <4>1. CASE s.score < 0
        BY <4>1 DEF Takes
      <4>2. CASE ~(s.score < 0) /\ \A i \in s.at + 1..Len(text) : text[i] # c
        <5>1. t = [s EXCEPT !.score = -1]
          BY <4>2, <2>6, Zenon DEF Takes
        <5>2. t.score = -1
          BY <5>1, <2>1 DEF Marks, Worths
        <5> HIDE DEF t
        <5> QED BY <5>2
      <4>3. CASE ~(s.score < 0) /\ \E i \in s.at + 1..Len(text) : text[i] = c
        <5>1. s.score >= 0
          BY <4>3, <2>4
        <5>2. TakesNext(t, s, c, text)
          <6>1. s \in Marks(text)
            BY <2>1 DEF Worths
          <6> QED BY <4>3, <5>1, <6>1, <2>6, TakesFirst
        <5> QED BY <5>1, <5>2 DEF TakesNext
      <4> QED BY <4>1, <4>2, <4>3
    <3> HIDE DEF t, s, L
    <3>4. s.score >= 0 => s.score >= 10 * Cardinality(L)
      BY <2>1 DEF L, Worths
    <3>5. t.score >= 0 => t.score >= 10 * (Cardinality(L) + 1)
      BY <3>3, <3>4, <2>4
    <3> QED BY <2>2, <2>3, <3>1, <3>2, <3>5 DEF Worths
  <2> QED BY <2>5, <2>6
<1>6. n \in In
  <2> HIDE DEF In
  <2> QED BY <1>2, <1>4, <1>5, EveryNat
<1>7. Worths(Matched(q, text), q, n, text)
  BY <1>1, <1>2, <1>6 DEF IsMatch
<1>8. Letters(q, n) = {i \in DOMAIN q : q[i] # Blank}
  BY <1>2 DEF Letters
<1> QED BY <1>7, <1>8 DEF Worths

LEMMA MinOfTwo ==
  ASSUME NEW a \in Int, NEW b \in Int
  PROVE  Min({a, b}) \in Int /\ Min({a, b}) <= a /\ Min({a, b}) <= b
<1>1. \E x \in {a, b} : \A y \in {a, b} : x =< y
  <2>1. a <= b \/ b <= a
    OBVIOUS
  <2> QED BY <2>1
<1>2. Min({a, b}) \in {a, b} /\ \A y \in {a, b} : Min({a, b}) =< y
  BY <1>1 DEF Min
<1> QED BY <1>2

LEMMA MaxOfThree ==
  ASSUME NEW a \in Int, NEW b \in Int, NEW c \in Int
  PROVE  Max({a, b, c}) \in Int /\ (Max({a, b, c}) >= 0 <=> a >= 0 \/ b >= 0 \/ c >= 0)
<1>1. \E x \in {a, b, c} : \A y \in {a, b, c} : x >= y
  <2>1. CASE a >= b /\ a >= c
    BY <2>1
  <2>2. CASE b >= a /\ b >= c
    BY <2>2
  <2>3. CASE c >= a /\ c >= b
    BY <2>3
  <2> QED BY <2>1, <2>2, <2>3
<1>2. Max({a, b, c}) \in {a, b, c} /\ \A y \in {a, b, c} : Max({a, b, c}) >= y
  BY <1>1 DEF Max
<1> QED BY <1>2

LEMMA FuzzyFinds ==
  ASSUME NEW C, NEW text \in Seq(C), NEW D, NEW q \in Seq(D), q # <<>>
  PROVE  FuzzyScore(q, text) \in Int /\ (FuzzyScore(q, text) >= 0 <=> Occurs(q, text))
<1> DEFINE z == Matched(q, text).score
           m == Min({z - 1, Len(text) \div 4})
<1>1. z \in Int /\ (z >= 0 <=> Occurs(q, text))
  BY MatchFinds DEF Marks
<1>2. FuzzyScore(q, text) = IF z < 0 THEN -1 ELSE z - m
  BY DEF FuzzyScore, Shortened
<1>3. m \in Int /\ m <= z - 1
  <2>1. z - 1 \in Int /\ Len(text) \div 4 \in Int
    <3>1. Len(text) \in Nat
      BY LenProperties
    <3> QED BY <1>1, <3>1
  <2> HIDE DEF z
  <2> QED BY <2>1, MinOfTwo
<1> HIDE DEF z, m
<1>4. CASE z < 0
  BY <1>1, <1>2, <1>4
<1>5. CASE z >= 0
  BY <1>1, <1>2, <1>3, <1>5
<1> QED BY <1>1, <1>4, <1>5

\* What is worth 10 in a text scores 10.
LEMMA WorthScores ==
  ASSUME NEW C, NEW text \in Seq(C), NEW D, NEW q \in Seq(D), q # <<>>,
         Occurs(q, text), Worth(q, text) >= 10
  PROVE  FuzzyScore(q, text) >= 10
<1> DEFINE z == Matched(q, text).score
           l == Len(text) \div 4
           L == {i \in DOMAIN q : q[i] # Blank}
           w == 10 * Cardinality(L)
<1>1. z \in Int /\ z >= 0
  BY MatchFinds DEF Marks
<1>2. z >= w
  BY <1>1, MatchScores
<1>3. l \in Int /\ w \in Int
  <2>1. IsFiniteSet(L)
    <3>1. Len(q) \in Nat /\ DOMAIN q = 1..Len(q)
      BY LenProperties
    <3>2. L \in SUBSET (1..Len(q)) /\ IsFiniteSet(1..Len(q))
      BY <3>1, FS_Interval
    <3> HIDE DEF L
    <3> QED BY <3>2, FS_Subset
  <2>2. Cardinality(L) \in Nat
    <3> HIDE DEF L
    <3> QED BY <2>1, FS_CardinalityType
  <2>3. Len(text) \in Nat
    BY LenProperties
  <2> HIDE DEF L
  <2> QED BY <2>2, <2>3
<1>4. w - l >= 10
  BY DEF Worth
<1>5. FuzzyScore(q, text) = IF z < 0 THEN -1 ELSE z - Min({z - 1, l})
  BY DEF FuzzyScore, Shortened
<1> HIDE DEF z, l, w
<1>6. Min({z - 1, l}) \in Int /\ Min({z - 1, l}) <= l
  <2>1. z - 1 \in Int
    BY <1>1
  <2> QED BY <2>1, <1>3, MinOfTwo
<1> QED BY <1>1, <1>2, <1>3, <1>4, <1>5, <1>6

\* What occurs in a text occurs in a text that ends with it.
LEMMA OccursLater ==
  ASSUME NEW C, NEW p \in Seq(C), NEW text \in Seq(C), NEW q, Occurs(q, text)
  PROVE  Occurs(q, p \o text)
<1> DEFINE L == {i \in DOMAIN q : q[i] # Blank}
           n == Len(p)
<1>1. PICK e \in [L -> DOMAIN text] :
        (\A i \in L : text[e[i]] = q[i]) /\ (\A i, j \in L : i < j => e[i] < e[j])
  BY DEF Occurs
<1>2. /\ n \in Nat /\ Len(text) \in Nat /\ DOMAIN text = 1..Len(text)
      /\ DOMAIN (p \o text) = 1..(n + Len(text))
      /\ \A i \in 1..Len(text) : (p \o text)[n + i] = text[i]
  <2>1. p \o text \in Seq(C) /\ Len(p \o text) = n + Len(text)
        /\ \A i \in 1..n + Len(text) : (p \o text)[i] = IF i <= n THEN p[i] ELSE text[i - n]
    BY ConcatProperties
  <2>2. n \in Nat /\ Len(text) \in Nat /\ DOMAIN text = 1..Len(text)
        /\ DOMAIN (p \o text) = 1..Len(p \o text)
    BY <2>1, LenProperties
  <2>3. ASSUME NEW i \in 1..Len(text) PROVE (p \o text)[n + i] = text[i]
    <3>1. n + i \in 1..n + Len(text) /\ ~(n + i <= n) /\ (n + i) - n = i
      BY <2>2
    <3> QED BY <2>1, <3>1
  <2> QED BY <2>1, <2>2, <2>3
<1> HIDE DEF L, n
<1> DEFINE f == [i \in L |-> n + e[i]]
<1>3. \A i \in L : f[i] = n + e[i] /\ e[i] \in 1..Len(text) /\ f[i] \in 1..(n + Len(text))
  BY <1>1, <1>2
<1>4. f \in [L -> DOMAIN (p \o text)]
  BY <1>2, <1>3
<1>5. \A i \in L : (p \o text)[f[i]] = q[i]
  BY <1>1, <1>2, <1>3
<1>6. \A i, j \in L : i < j => f[i] < f[j]
  BY <1>1, <1>2, <1>3
<1> HIDE DEF f
<1> QED BY <1>4, <1>5, <1>6 DEF Occurs, L

-----------------------------------------------------------------------------
\* The tree of the menu, and what is collected from it.

Chars    == (UNION {Range(tree[n].title) \cup Range(tree[n].hint) : n \in DOMAIN tree}) \cup Range(CrumbSep)
Commands == [node : {n \in DOMAIN tree : ~IsGroup(n)}, crumb : Seq(Chars)]
Contents == [DOMAIN tree -> Seq(DOMAIN tree)]

LEMMA TextsOfTree ==
  ASSUME IsTree(tree)
  PROVE  /\ CrumbSep \in Seq(Chars)
         /\ \A n \in DOMAIN tree : tree[n].title \in Seq(Chars) /\ tree[n].hint \in Seq(Chars)
<1>1. \A x, y, z : <<x, y, z>> \in Seq({x, y, z})
  OBVIOUS
<1>2. \E x, y, z : CrumbSep = <<x, y, z>>
  BY Zenon DEF CrumbSep
<1>3. CrumbSep \in Seq(Range(CrumbSep))
  <2>1. PICK x, y, z : CrumbSep = <<x, y, z>>
    BY <1>2
  <2> QED BY <1>1, <2>1, SeqOfRange
<1>4. Range(CrumbSep) \subseteq Chars
  BY DEF Chars
<1>5. ASSUME NEW n \in DOMAIN tree
      PROVE  tree[n].title \in Seq(Chars) /\ tree[n].hint \in Seq(Chars)
  <2>1. Range(tree[n].title) \subseteq Chars /\ Range(tree[n].hint) \subseteq Chars
    BY DEF Chars
  <2>2. tree[n].title \in Seq(Range(tree[n].title)) /\ tree[n].hint \in Seq(Range(tree[n].hint))
    BY DEF IsTree, IsText
  <2> QED BY <2>1, <2>2, SeqMonotonic
<1> QED BY <1>3, <1>4, <1>5, SeqMonotonic

\* A hit counts when the query occurs in the full title, or well in the hint.
LEMMA BestFinds ==
  ASSUME IsTree(tree), NEW f \in Commands, NEW D, NEW q \in Seq(D), q # <<>>
  PROVE  /\ Best(q, f) \in Int
         /\ Best(q, f) >= 0 <=> Occurs(q, FullTitle(f)) \/ FuzzyScore(q, tree[f.node].hint) >= 10
<1> DEFINE title == tree[f.node].title
           hint  == tree[f.node].hint
           full  == FullTitle(f)
           x == FuzzyScore(q, title)
           y == FuzzyScore(q, full)
           z == FuzzyScore(q, hint)
<1>1. f.node \in DOMAIN tree /\ f.crumb \in Seq(Chars)
  BY DEF Commands
<1>2. title \in Seq(Chars) /\ hint \in Seq(Chars) /\ CrumbSep \in Seq(Chars)
  BY <1>1, TextsOfTree
<1>3. full = title \/ \E p \in Seq(Chars) : full = p \o title
  <2>1. f.crumb \o CrumbSep \in Seq(Chars)
    BY <1>1, <1>2, ConcatProperties
  <2>2. full = title \/ full = (f.crumb \o CrumbSep) \o title
    BY DEF FullTitle
  <2> HIDE DEF full, title
  <2> QED BY <2>1, <2>2
<1>4. Best(q, f) = Max({Plus(x, 30, -1), y, Plus(z, -10, -1)})
  BY DEF Best
<1> HIDE DEF title, hint, full
<1>5. full \in Seq(Chars) /\ (Occurs(q, title) => Occurs(q, full))
  BY <1>2, <1>3, ConcatProperties, OccursLater
<1>6. /\ x \in Int /\ (x >= 0 <=> Occurs(q, title))
      /\ y \in Int /\ (y >= 0 <=> Occurs(q, full))
      /\ z \in Int
  BY <1>2, <1>5, FuzzyFinds
<1> HIDE DEF x, y, z
<1>7. /\ Plus(x, 30, -1) \in Int /\ (Plus(x, 30, -1) >= 0 <=> x >= 0)
      /\ Plus(z, -10, -1) \in Int /\ (Plus(z, -10, -1) >= 0 <=> z >= 10)
  BY <1>6 DEF Plus
<1>8. /\ Best(q, f) \in Int
      /\ Best(q, f) >= 0 <=> Plus(x, 30, -1) >= 0 \/ y >= 0 \/ Plus(z, -10, -1) >= 0
  BY <1>4, <1>6, <1>7, MaxOfThree
<1>9. Best(q, f) >= 0 <=> Occurs(q, full) \/ z >= 10
  BY <1>5, <1>6, <1>7, <1>8
<1> QED BY <1>8, <1>9 DEF full, z, hint

LEMMA HeldType ==
  ASSUME IsTree(tree), NEW below, NEW listed
  PROVE  Held(below, listed) \in Contents
<1>1. ASSUME NEW g \in DOMAIN tree
      PROVE  \A S : Only(tree[g].kids, S) \o ResolveProvider(g, listed) \in Seq(DOMAIN tree)
  <2>1. tree[g].kids \in Seq(DOMAIN tree) /\ Themes \in Seq(DOMAIN tree)
    BY DEF IsTree
  <2>2. ResolveProvider(g, listed) \in Seq(DOMAIN tree)
    <3>1. ResolveProvider(g, listed) = Themes \/ ResolveProvider(g, listed) = <<>>
      BY DEF ResolveProvider
    <3>2. <<>> \in Seq(DOMAIN tree)
      OBVIOUS
    <3> QED BY <2>1, <3>1, <3>2
  <2>3. ASSUME NEW S PROVE Only(tree[g].kids, S) \in Seq(DOMAIN tree)
    <3>1. Only(tree[g].kids, S) \in Seq((DOMAIN tree) \cap S)
      BY <2>1, OnlyIn
    <3> QED BY <3>1, SeqMonotonic
  <2> QED BY <2>2, <2>3, ConcatProperties
<1> DEFINE Shows(g) == {n \in Range(tree[g].kids) : IsAvailable(n) /\ (IsGroup(n) => below[n] # <<>>)}
<1>2. Held(below, listed) =
        [g \in DOMAIN tree |-> Only(tree[g].kids, Shows(g)) \o ResolveProvider(g, listed)]
  BY Zenon DEF Held
<1> HIDE DEF Shows
<1> QED BY <1>1, <1>2 DEF Contents

NoContents == [g \in DOMAIN tree |-> <<>>]

LEMMA ExpandType ==
  ASSUME IsTree(tree), NEW listed
  PROVE  Expand(listed) \in Contents
<1> DEFINE Body(f) == [d \in 0..MaxDepth + 1 |-> IF d = 0 THEN NoContents ELSE Held(f[d - 1], listed)]
           at == CHOOSE f : f = Body(f)
           step == [p \in Contents \X (1..7) |-> Held(p[1], listed)]
<1>1. MaxDepth + 1 = 7
  BY DEF MaxDepth
<1>2. Expand(listed) = at[MaxDepth + 1]
  BY Zenon DEF Expand, NoContents
<1>3. \E f : f = Body(f)
  <2>1. ASSUME NEW a \in Contents, NEW i \in 1..7
        PROVE  step[<<a, i>>] = Held(a, listed) /\ step[<<a, i>>] \in Contents
    BY HeldType
  <2>2. step = [p \in Contents \X (1..7) |-> step[p]]
    OBVIOUS
  <2>3. NoContents \in Contents
    <3>1. <<>> \in Seq(DOMAIN tree)
      OBVIOUS
    <3> QED BY <3>1 DEF NoContents, Contents
  <2> HIDE DEF step
  <2>4. step \in [Contents \X (1..7) -> Contents]
    BY <2>1, <2>2, OnPairs
  <2>5. PICK f \in [0..7 -> Contents] : Iterates(f, NoContents, step, 7)
    BY <2>3, <2>4, IterateExists
  <2>6. ASSUME NEW d \in 0..7 PROVE f[d] = IF d = 0 THEN NoContents ELSE Held(f[d - 1], listed)
    <3>1. CASE d = 0
      BY <3>1, <2>5 DEF Iterates
    <3>2. CASE d # 0
      <4>1. d \in 1..7 /\ d - 1 \in 0..7
        BY <3>2
      <4>2. f[d - 1] \in Contents /\ f[d] = step[<<f[d - 1], d>>]
        BY <4>1, <2>5 DEF Iterates
      <4> QED BY <3>2, <4>1, <4>2, <2>1
    <3> QED BY <3>1, <3>2
  <2>7. f = [d \in 0..7 |-> f[d]]
    OBVIOUS
  <2>8. f = Body(f)
    BY <1>1, <2>6, <2>7
  <2> QED BY <2>8
<1>4. at = Body(at)
  <2> HIDE DEF Body
  <2> QED BY <1>3
<1>5. at[7] = Held(at[6], listed)
  <2>1. 7 \in 0..7 /\ 7 # 0 /\ 7 - 1 = 6
    OBVIOUS
  <2> HIDE DEF at
  <2> QED BY <1>1, <1>4, <2>1
<1> HIDE DEF at
<1> QED BY <1>1, <1>2, <1>5, HeldType

LEMMA LevelLeavesType ==
  ASSUME IsTree(tree), NEW expanded \in Contents, NEW below \in [DOMAIN tree -> Seq(Commands)]
  PROVE  LevelLeaves(expanded, below) \in [DOMAIN tree -> Seq(Commands)]
<1>1. ASSUME NEW n \in DOMAIN tree, NEW found \in Seq(Commands)
      PROVE  Under(n, found) \in Seq(Commands)
  <2>1. Len(found) \in Nat /\ DOMAIN found = 1..Len(found)
    BY LenProperties
  <2> DEFINE crumb(i) == IF found[i].crumb = <<>> THEN tree[n].title
                         ELSE tree[n].title \o CrumbSep \o found[i].crumb
  <2>2. ASSUME NEW i \in 1..Len(found)
        PROVE  [node |-> found[i].node, crumb |-> crumb(i)] \in Commands
    <3>1. found[i] \in Commands
      BY <2>1, ElementOfSeq
    <3>2. found[i].node \in {m \in DOMAIN tree : ~IsGroup(m)} /\ found[i].crumb \in Seq(Chars)
      BY <3>1 DEF Commands
    <3>3. tree[n].title \in Seq(Chars) /\ tree[n].title \o CrumbSep \in Seq(Chars)
      BY TextsOfTree, ConcatProperties
    <3>4. tree[n].title \o CrumbSep \o found[i].crumb \in Seq(Chars)
      BY <3>2, <3>3, ConcatProperties
    <3>5. crumb(i) \in Seq(Chars)
      BY <3>3, <3>4
    <3> HIDE DEF crumb
    <3> QED BY <3>2, <3>5 DEF Commands
  <2>3. Under(n, found) = [i \in 1..Len(found) |-> [node |-> found[i].node, crumb |-> crumb(i)]]
    BY <2>1 DEF Under
  <2> HIDE DEF crumb
  <2> QED BY <2>1, <2>2, <2>3
<1>2. ASSUME NEW n \in DOMAIN tree
      PROVE  (IF IsGroup(n) THEN Under(n, below[n]) ELSE <<[node |-> n, crumb |-> <<>>]>>) \in Seq(Commands)
  <2>1. CASE IsGroup(n)
    BY <2>1, <1>1
  <2>2. CASE ~IsGroup(n)
    <3> DEFINE r == [node |-> n, crumb |-> <<>>]
    <3>1. <<>> \in Seq(Chars)
      OBVIOUS
    <3>2. r \in Commands
      BY <2>2, <3>1 DEF Commands
    <3> HIDE DEF r
    <3>3. <<r>> \in Seq(Commands)
      BY <3>2
    <3> QED BY <2>2, <3>3 DEF r
  <2> QED BY <2>1, <2>2
<1> DEFINE Part(n) == IF IsGroup(n) THEN Under(n, below[n]) ELSE <<[node |-> n, crumb |-> <<>>]>>
<1>3. LevelLeaves(expanded, below) =
        [g \in DOMAIN tree |-> FlattenSeq([i \in DOMAIN expanded[g] |-> Part(expanded[g][i])])]
  BY Zenon DEF LevelLeaves
<1>4. \A n \in DOMAIN tree : Part(n) \in Seq(Commands)
  BY <1>2
<1> HIDE DEF Part
<1>5. ASSUME NEW g \in DOMAIN tree
      PROVE  FlattenSeq([i \in DOMAIN expanded[g] |-> Part(expanded[g][i])]) \in Seq(Commands)
  <2> DEFINE s == expanded[g]
             parts == [i \in DOMAIN s |-> Part(s[i])]
  <2>1. s \in Seq(DOMAIN tree)
    BY DEF Contents
  <2> HIDE DEF s
  <2>2. Len(s) \in Nat /\ DOMAIN s = 1..Len(s) /\ \A i \in 1..Len(s) : s[i] \in DOMAIN tree
    BY <2>1, LenProperties, ElementOfSeq
  <2>3. parts \in Seq(Seq(Commands))
    BY <2>2, <1>4
  <2> HIDE DEF parts
  <2>4. FlattenSeq(parts) \in Seq(Commands)
    BY <2>3, FlattenIn
  <2> QED BY <2>4 DEF parts, s
<1> QED BY <1>3, <1>5

LEMMA LeavesType ==
  ASSUME IsTree(tree), NEW expanded \in Contents
  PROVE  CollectLeaves(expanded) \in Seq(Commands)
<1> DEFINE Acc == [DOMAIN tree -> Seq(Commands)]
           Body(f) == [d \in 0..MaxDepth + 1 |->
                         IF d = 0 THEN NoContents ELSE LevelLeaves(expanded, f[d - 1])]
           at == CHOOSE f : f = Body(f)
           step == [p \in Acc \X (1..7) |-> LevelLeaves(expanded, p[1])]
           In == {i \in Nat : i \in 0..7 => at[i] \in Acc}
<1>1. MaxDepth + 1 = 7
  BY DEF MaxDepth
<1>2. CollectLeaves(expanded) = at[MaxDepth + 1]["root"]
  BY Zenon DEF CollectLeaves, NoContents
<1>3. NoContents \in Acc
  <2>1. <<>> \in Seq(Commands)
    OBVIOUS
  <2> QED BY <2>1 DEF NoContents
<1>4. \E f : f = Body(f)
  <2>1. ASSUME NEW a \in Acc, NEW i \in 1..7
        PROVE  step[<<a, i>>] = LevelLeaves(expanded, a) /\ step[<<a, i>>] \in Acc
    BY LevelLeavesType
  <2>2. step = [p \in Acc \X (1..7) |-> step[p]]
    OBVIOUS
  <2> HIDE DEF step, Acc
  <2>3. step \in [Acc \X (1..7) -> Acc]
    BY <2>1, <2>2, OnPairs
  <2>4. PICK f \in [0..7 -> Acc] : Iterates(f, NoContents, step, 7)
    BY <1>3, <2>3, IterateExists
  <2>5. ASSUME NEW d \in 0..7
        PROVE  f[d] = IF d = 0 THEN NoContents ELSE LevelLeaves(expanded, f[d - 1])
    <3>1. CASE d = 0
      BY <3>1, <2>4 DEF Iterates
    <3>2. CASE d # 0
      <4>1. d \in 1..7 /\ d - 1 \in 0..7
        BY <3>2
      <4>2. f[d - 1] \in Acc /\ f[d] = step[<<f[d - 1], d>>]
        BY <4>1, <2>4 DEF Iterates
      <4> QED BY <3>2, <4>1, <4>2, <2>1
    <3> QED BY <3>1, <3>2
  <2>6. f = [d \in 0..7 |-> f[d]]
    OBVIOUS
  <2>7. f = Body(f)
    BY <1>1, <2>5, <2>6
  <2> QED BY <2>7
<1>5. at = Body(at)
  <2> HIDE DEF Body
  <2> QED BY <1>4
<1> HIDE DEF at
<1>6. \A d \in 0..7 : at[d] = IF d = 0 THEN NoContents ELSE LevelLeaves(expanded, at[d - 1])
  BY <1>1, <1>5
<1>7. 0 \in In
  BY <1>3, <1>6
<1>8. ASSUME NEW k \in Nat, k \in In PROVE k + 1 \in In
  <2> SUFFICES ASSUME k + 1 \in 0..7 PROVE at[k + 1] \in Acc
    OBVIOUS
  <2>1. k \in 0..7 /\ (k + 1) - 1 = k /\ k + 1 # 0
    OBVIOUS
  <2>2. at[k] \in Acc
    BY <2>1, <1>8
  <2>3. at[k + 1] = LevelLeaves(expanded, at[k])
    BY <2>1, <1>6
  <2> QED BY <2>2, <2>3, LevelLeavesType
<1>9. 7 \in In
  <2> HIDE DEF In
  <2>1. 7 \in Nat
    OBVIOUS
  <2> QED BY <2>1, <1>7, <1>8, EveryNat
<1>10. at[7] \in Acc
  BY <1>9
<1>11. "root" \in DOMAIN tree
  BY DEF IsTree
<1> QED BY <1>1, <1>2, <1>10, <1>11

\* The search shows the commands that match and no others.
LEMMA RankedFinds ==
  ASSUME NEW T, NEW flat \in Seq(T), NEW score \in [DOMAIN flat -> Int]
  PROVE  /\ Ranked(flat, score) \in Seq(Range(Ranked(flat, score)))
         /\ Range(Ranked(flat, score)) = {flat[i].node : i \in {i \in DOMAIN flat : score[i] >= 0}}
<1> DEFINE hits == {i \in DOMAIN flat : score[i] >= 0}
           before == [j \in hits |-> {i \in hits : score[i] > score[j] \/ (score[i] = score[j] /\ i < j)}]
           nodes == [i \in DOMAIN flat |-> flat[i].node]
<1>1. Len(flat) \in Nat /\ DOMAIN flat = 1..Len(flat)
  BY LenProperties
<1>2. IsFiniteSet(hits)
  <2>1. IsFiniteSet(1..Len(flat))
    BY <1>1, FS_Interval
  <2>2. hits \in SUBSET (1..Len(flat))
    BY <1>1
  <2> HIDE DEF hits
  <2> QED BY <2>1, <2>2, FS_Subset
<1>3. \A i \in hits : i \in Nat /\ score[i] \in Int /\ i \in DOMAIN flat
  BY <1>1
<1>4. Ranked(flat, score) = Sorted(nodes, before)
  BY Zenon DEF Ranked
<1>5. Orders(before, hits)
  <2> HIDE DEF hits
  <2>1. before \in [hits -> SUBSET hits]
    OBVIOUS
  <2>2. \A j \in hits : before[j] = {i \in hits : score[i] > score[j] \/ (score[i] = score[j] /\ i < j)}
    OBVIOUS
  <2> HIDE DEF before
  <2>3. \A j \in hits : j \notin before[j]
    BY <2>2, <1>3
  <2>4. \A i, j \in hits : i # j => i \in before[j] \/ j \in before[i]
    BY <2>2, <1>3
  <2>5. \A i, j \in hits : i \in before[j] => before[i] \subseteq before[j]
    BY <2>2, <1>3
  <2> QED BY <2>1, <2>3, <2>4, <2>5 DEF Orders
<1>6. DOMAIN before = hits /\ \A i \in hits : nodes[i] = flat[i].node
  OBVIOUS
<1> HIDE DEF before, nodes
<1>7. Ranked(flat, score) \in Seq(Range(Ranked(flat, score)))
  BY <1>2, <1>4, <1>6, SortedIsList
<1>8. Range(Ranked(flat, score)) = {nodes[i] : i \in hits}
  BY <1>2, <1>4, <1>5, SortedRange
<1>9. {nodes[i] : i \in hits} = {flat[i].node : i \in hits}
  BY <1>6
<1> QED BY <1>7, <1>8, <1>9 DEF hits

-----------------------------------------------------------------------------
\* The menu.  A menu m is sound when its levels are a walk and what it shows is the level
\* that is open or, during a search, what the search is to find in the list of commands.

Level == [node : DOMAIN tree, kids : Seq(DOMAIN tree)]

Walks(m) ==
  /\ m.query \in Seq(Range(m.query))
  /\ m.flat = NoCache \/ m.flat \in Seq(Commands)
  /\ m.stack \in Seq(Level) /\ m.stack # <<>> /\ m.stack[1].node = "root"
  /\ \A i \in 2..Len(m.stack) : m.stack[i].node \in Range(m.stack[i - 1].kids)

HitsOf(m) == {f \in Range(m.flat) : \/ Occurs(m.query, FullTitle(f))
                                    \/ FuzzyScore(m.query, tree[f.node].hint) >= 10}

Shows(m) ==
  /\ m.visible \in Seq(Range(m.visible))
  /\ Trimmed(m.query) = <<>> => m.visible = Last(m.stack).kids
  /\ Trimmed(m.query) # <<>> =>
       m.flat \in Seq(Commands) /\ Range(m.visible) = {f.node : f \in HitsOf(m)}

IsMenu(m) == m \in [query : {m.query}, flat : {m.flat}, visible : {m.visible}, stack : {m.stack}]

MenuInv == IsTree(tree) /\ IsMenu(menu) /\ Walks(menu) /\ Shows(menu)

LEMMA LastLevel ==
  ASSUME NEW m, Walks(m)
  PROVE  /\ Len(m.stack) \in Nat /\ Len(m.stack) # 0 /\ DOMAIN m.stack = 1..Len(m.stack)
         /\ Last(m.stack) = m.stack[Len(m.stack)] /\ Last(m.stack) \in Level
<1> DEFINE s == m.stack
<1>1. s \in Seq(Level) /\ s # <<>>
  BY DEF Walks
<1> HIDE DEF s
<1>2. Len(s) \in Nat /\ DOMAIN s = 1..Len(s) /\ Len(s) # 0
  BY <1>1, LenProperties, EmptySeq
<1>3. s[Len(s)] \in Level
  BY <1>1, <1>2, ElementOfSeq
<1> QED BY <1>2, <1>3 DEF Last, s

\* Whatever was typed and opened, rebuild() makes the menu sound.
LEMMA RebuildShows ==
  ASSUME IsTree(tree), NEW m, IsMenu(m), Walks(m), NEW listed
  PROVE  /\ IsMenu(Rebuild(m, listed)) /\ Walks(Rebuild(m, listed)) /\ Shows(Rebuild(m, listed))
<1> DEFINE r == Rebuild(m, listed)
<1>1. CASE Trimmed(m.query) = <<>>
  <2>1. r = [m EXCEPT !.visible = Last(m.stack).kids]
    BY <1>1 DEF Rebuild
  <2> HIDE DEF r
  <2>2. r.query = m.query /\ r.flat = m.flat /\ r.stack = m.stack /\ r.visible = Last(m.stack).kids
        /\ IsMenu(r)
    BY <2>1 DEF IsMenu
  <2>3. Walks(r)
    BY <2>2 DEF Walks
  <2>4. Last(m.stack) \in Level
    BY LastLevel
  <2>5. Last(m.stack).kids \in Seq(DOMAIN tree)
    BY <2>4 DEF Level
  <2>6. Last(m.stack).kids \in Seq(Range(Last(m.stack).kids))
    BY <2>5, SeqOfRange
  <2>7. Shows(r)
    BY <1>1, <2>2, <2>6 DEF Shows
  <2> QED BY <2>2, <2>3, <2>7 DEF r
<1>2. CASE Trimmed(m.query) # <<>>
  <2> DEFINE q == m.query
             flat == IF m.flat = NoCache THEN CollectLeaves(Expand(listed)) ELSE m.flat
             score == [i \in DOMAIN flat |-> Best(q, flat[i])]
             hits == {i \in DOMAIN flat : score[i] >= 0}
  <2>1. Trimmed(q) = q /\ q # <<>> /\ q \in Seq(Range(q))
    BY <1>2 DEF Trimmed, Walks
  <2>2. flat \in Seq(Commands)
    <3>1. m.flat = NoCache \/ m.flat \in Seq(Commands)
      BY DEF Walks
    <3>2. CollectLeaves(Expand(listed)) \in Seq(Commands)
      BY ExpandType, LeavesType
    <3> QED BY <3>1, <3>2
  <2>3. r = [m EXCEPT !.flat = flat, !.visible = Ranked(flat, score)]
    BY <1>2, <2>1 DEF Rebuild, ShowHits
  <2> HIDE DEF r, flat
  <2>4. DOMAIN flat = 1..Len(flat) /\ \A i \in DOMAIN flat : flat[i] \in Commands
    BY <2>2, LenProperties, ElementOfSeq
  <2>5. \A i \in DOMAIN flat :
          /\ score[i] = Best(q, flat[i]) /\ score[i] \in Int
          /\ score[i] >= 0 <=> \/ Occurs(q, FullTitle(flat[i]))
                               \/ FuzzyScore(q, tree[flat[i].node].hint) >= 10
    <3> HIDE DEF q
    <3> QED BY <2>1, <2>4, BestFinds
  <2>6. score \in [DOMAIN flat -> Int]
    BY <2>5
  <2> HIDE DEF score
  <2>7. /\ Ranked(flat, score) \in Seq(Range(Ranked(flat, score)))
        /\ Range(Ranked(flat, score)) = {flat[i].node : i \in hits}
    BY <2>2, <2>6, RankedFinds
  <2>8. /\ r.query = q /\ r.flat = flat /\ r.stack = m.stack /\ r.visible = Ranked(flat, score)
        /\ IsMenu(r)
    BY <2>3 DEF IsMenu
  <2>9. Walks(r)
    BY <2>2, <2>8 DEF Walks
  <2>10. {flat[i].node : i \in hits} = {f.node : f \in HitsOf(r)}
    <3> DEFINE Good(f) == Occurs(q, FullTitle(f)) \/ FuzzyScore(q, tree[f.node].hint) >= 10
    <3>1. HitsOf(r) = {f \in Range(flat) : Good(f)}
      BY <2>8 DEF HitsOf
    <3>2. \A i \in DOMAIN flat : i \in hits <=> Good(flat[i])
      BY <2>5
    <3> HIDE DEF Good, hits
    <3>3. hits \subseteq DOMAIN flat
      BY DEF hits
    <3>4. \A i \in hits : flat[i] \in HitsOf(r)
      BY <3>1, <3>2, <3>3 DEF Range
    <3>5. \A f \in HitsOf(r) : \E i \in hits : f = flat[i]
      BY <3>1, <3>2 DEF Range
    <3> QED BY <3>4, <3>5
  <2>11. Shows(r)
    BY <1>2, <2>2, <2>7, <2>8, <2>10 DEF Shows
  <2> QED BY <2>8, <2>9, <2>11 DEF r
<1> QED BY <1>1, <1>2

LEMMA ResetShows ==
  ASSUME IsTree(tree), NEW listed
  PROVE  IsMenu(Reset(listed)) /\ Walks(Reset(listed)) /\ Shows(Reset(listed))
<1> DEFINE level == [node |-> "root", kids |-> Expand(listed)["root"]]
           m == [query |-> <<>>, flat |-> NoCache, visible |-> <<>>, stack |-> <<level>>]
<1>1. level \in Level
  <2>1. "root" \in DOMAIN tree
    BY DEF IsTree
  <2>2. Expand(listed)["root"] \in Seq(DOMAIN tree)
    BY <2>1, ExpandType DEF Contents
  <2> QED BY <2>1, <2>2 DEF Level
<1>2. level.node = "root"
  OBVIOUS
<1> HIDE DEF level
<1>3. <<level>> \in Seq(Level) /\ Len(<<level>>) = 1 /\ <<level>>[1] = level /\ <<level>> # <<>>
  BY <1>1
<1>4. m.query = <<>> /\ m.flat = NoCache /\ m.stack = <<level>> /\ IsMenu(m)
  BY DEF IsMenu
<1>5. Reset(listed) = Rebuild(m, listed)
  BY DEF Reset, level
<1> HIDE DEF m
<1>6. <<>> \in Seq(Range(<<>>))
  OBVIOUS
<1>7. \A i \in 2..Len(m.stack) : FALSE
  BY <1>3, <1>4
<1>8. Walks(m)
  BY <1>2, <1>3, <1>4, <1>6, <1>7 DEF Walks
<1> QED BY <1>4, <1>5, <1>8, RebuildShows

LEMMA MenuStarts ==
  ASSUME MenuInit
  PROVE  MenuInv
<1>1. PICK user \in UserMenus : tree = LoadDefault(user)
  BY DEF MenuInit
<1>2. IsTree(tree)
  <2>1. ParseMenu(user) => user # <<>>
    BY Zenon DEF ParseMenu
  <2>2. tree = user \/ tree = Builtin
    BY <1>1 DEF LoadDefault
  <2>3. tree = user => ParseMenu(user) \/ tree = Builtin
    BY <1>1 DEF LoadDefault
  <2> QED BY <2>1, <2>2, <2>3, MenuTrees
<1> QED BY <1>2, ResetShows DEF MenuInit, MenuInv

\* A sound menu stays sound in the same tree.
LEMMA SoundIn ==
  ASSUME IsTree(tree), NEW m, IsMenu(m), Walks(m), Shows(m), tree' = tree, menu' = m
  PROVE  MenuInv'
BY DEF MenuInv, IsTree, IsText, IsMenu, Walks, Shows, HitsOf, FullTitle, Commands, Chars, Level, IsGroup

LEMMA RebuiltSound ==
  ASSUME IsTree(tree), tree' = tree, NEW m, IsMenu(m), Walks(m), NEW listed,
         menu' = Rebuild(m, listed)
  PROVE  MenuInv'
BY RebuildShows, SoundIn

\* What is typed, and the levels left by Back, are still a menu.
LEMMA QueryWalks ==
  ASSUME NEW m, IsMenu(m), Walks(m), NEW q, q \in Seq(Range(q))
  PROVE  IsMenu([m EXCEPT !.query = q]) /\ Walks([m EXCEPT !.query = q])
<1> DEFINE r == [m EXCEPT !.query = q]
<1>1. r.query = q /\ r.flat = m.flat /\ r.stack = m.stack /\ r.visible = m.visible /\ IsMenu(r)
  BY DEF IsMenu
<1> HIDE DEF r
<1>2. Walks(r)
  BY <1>1 DEF Walks
<1> QED BY <1>1, <1>2 DEF r

LEMMA FrontWalks ==
  ASSUME NEW m, IsMenu(m), Walks(m), Len(m.stack) > 1
  PROVE  IsMenu([m EXCEPT !.stack = Front(m.stack)]) /\ Walks([m EXCEPT !.stack = Front(m.stack)])
<1> DEFINE r == [m EXCEPT !.stack = Front(m.stack)]
           s == m.stack
           f == Front(m.stack)
           n == Len(s)
<1>1. s \in Seq(Level) /\ n \in Nat /\ n > 1 /\ \A i \in 1..n : s[i] \in Level
  BY LenProperties, ElementOfSeq DEF Walks
<1>2. f \in Seq(Level) /\ Len(f) = n - 1 /\ \A i \in 1..n - 1 : f[i] = s[i]
  <2>1. f = SubSeq(s, 1, n - 1)
    BY DEF Front
  <2>2. \A i \in 1..n - 1 : s[i] \in Level
    BY <1>1
  <2> HIDE DEF f, s, n
  <2>3. 1 \in Int /\ n - 1 \in Int /\ 1 <= n - 1 /\ (n - 1) - 1 + 1 = n - 1
        /\ \A i \in 1..n - 1 : (1 + i) - 1 = i
    BY <1>1
  <2> QED BY <2>1, <2>2, <2>3, SubSeqProperties
<1>3. r.query = m.query /\ r.flat = m.flat /\ r.stack = f /\ r.visible = m.visible /\ IsMenu(r)
  BY DEF IsMenu
<1>4. s[1].node = "root" /\ \A i \in 2..n : s[i].node \in Range(s[i - 1].kids)
  BY DEF Walks
<1> HIDE DEF r, f, s, n
<1>5. f # <<>> /\ f[1].node = "root"
  <2>1. Len(f) # 0 /\ 1 \in 1..n - 1
    BY <1>1, <1>2
  <2> QED BY <1>2, <1>4, <2>1
<1>6. \A i \in 2..Len(f) : f[i].node \in Range(f[i - 1].kids)
  <2>1. \A i \in 2..Len(f) : i \in 1..n - 1 /\ i - 1 \in 1..n - 1 /\ i \in 2..n
    BY <1>1, <1>2
  <2> QED BY <1>2, <1>4, <2>1
<1>7. Walks(r)
  BY <1>2, <1>3, <1>5, <1>6 DEF Walks
<1> QED BY <1>3, <1>7 DEF r, f, s

\* One level down, to an entry of the level that is open.
LEMMA DeeperWalks ==
  ASSUME NEW m, IsMenu(m), Walks(m), NEW g \in DOMAIN tree, g \in Range(Last(m.stack).kids),
         NEW kids \in Seq(DOMAIN tree)
  PROVE  /\ IsMenu([m EXCEPT !.stack = Append(m.stack, [node |-> g, kids |-> kids]), !.query = <<>>])
         /\ Walks([m EXCEPT !.stack = Append(m.stack, [node |-> g, kids |-> kids]), !.query = <<>>])
<1> DEFINE new == [node |-> g, kids |-> kids]
           s == m.stack
           t == Append(s, new)
           n == Len(s)
           r == [m EXCEPT !.stack = t, !.query = <<>>]
<1>1. s \in Seq(Level) /\ n \in Nat /\ n # 0 /\ Last(s) = s[n]
  BY LastLevel DEF Walks
<1>2. new \in Level /\ new.node = g
  BY DEF Level
<1>3. s[1].node = "root" /\ \A i \in 2..n : s[i].node \in Range(s[i - 1].kids)
  BY DEF Walks
<1>4. r.query = <<>> /\ r.flat = m.flat /\ r.stack = t /\ r.visible = m.visible /\ IsMenu(r)
  BY DEF IsMenu
<1>5. g \in Range(s[n].kids)
  BY <1>1
<1> HIDE DEF r, s, new, n
<1>6. t \in Seq(Level) /\ Len(t) = n + 1 /\ t[n + 1] = new /\ \A i \in 1..n : t[i] = s[i]
  BY <1>1, <1>2, AppendProperties DEF n
<1> HIDE DEF t
<1>7. t # <<>> /\ t[1].node = "root"
  <2>1. Len(t) # 0 /\ 1 \in 1..n
    BY <1>1, <1>6
  <2> QED BY <1>3, <1>6, <2>1
<1>8. ASSUME NEW i \in 2..Len(t) PROVE t[i].node \in Range(t[i - 1].kids)
  <2>1. CASE i = n + 1
    <3>1. i - 1 = n /\ n \in 1..n
      BY <1>1, <1>6, <2>1
    <3> QED BY <1>2, <1>5, <1>6, <2>1, <3>1
  <2>2. CASE i # n + 1
    <3>1. i \in 2..n /\ i \in 1..n /\ i - 1 \in 1..n
      BY <1>1, <1>6, <2>2
    <3> QED BY <1>3, <1>6, <3>1
  <2> QED BY <2>1, <2>2
<1>9. <<>> \in Seq(Range(<<>>))
  OBVIOUS
<1>10. Walks(r)
  BY <1>4, <1>6, <1>7, <1>8, <1>9 DEF Walks
<1> QED BY <1>4, <1>10 DEF r, t, s, new

LEMMA MenuKeeps ==
  ASSUME MenuInv, [MenuNext]_menuVars
  PROVE  MenuInv'
<1>1. IsTree(tree) /\ IsMenu(menu) /\ Walks(menu) /\ Shows(menu)
  BY DEF MenuInv
<1>2. ASSUME tree' = tree, menu' = menu PROVE MenuInv'
  BY <1>1, <1>2, SoundIn
<1>3. CASE OpenMenu
  <2>1. PICK listed \in BOOLEAN : menu' = Reset(listed)
    BY <1>3 DEF OpenMenu
  <2>2. tree' = tree
    BY <1>3 DEF OpenMenu
  <2> QED BY <1>1, <2>1, <2>2, ResetShows, SoundIn
<1>4. ASSUME NEW q \in Phrases, SetQuery(q) PROVE MenuInv'
  <2>1. PICK listed \in BOOLEAN : menu' = Rebuild([menu EXCEPT !.query = q], listed)
    BY <1>4 DEF SetQuery, Shown
  <2>2. tree' = tree /\ q \in Seq(Range(q))
    BY <1>4, MenuTexts DEF SetQuery, IsText
  <2>3. IsMenu([menu EXCEPT !.query = q]) /\ Walks([menu EXCEPT !.query = q])
    BY <1>1, <2>2, QueryWalks
  <2> QED BY <1>1, <2>1, <2>2, <2>3, RebuiltSound
<1>5. CASE Back
  <2>1. tree' = tree
    BY <1>5 DEF Back
  <2>2. CASE menu.query # <<>>
    <3>1. menu' = Rebuild([menu EXCEPT !.query = <<>>], TRUE)
      BY <1>5, <2>2 DEF Back, Shown
    <3>2. <<>> \in Seq(Range(<<>>))
      OBVIOUS
    <3>3. IsMenu([menu EXCEPT !.query = <<>>]) /\ Walks([menu EXCEPT !.query = <<>>])
      BY <1>1, <3>2, QueryWalks
    <3> QED BY <1>1, <2>1, <3>1, <3>3, RebuiltSound
  <2>3. CASE menu.query = <<>> /\ Len(menu.stack) > 1
    <3>1. menu' = Rebuild([menu EXCEPT !.stack = Front(menu.stack)], TRUE)
      BY <1>5, <2>3 DEF Back, Shown
    <3>2. IsMenu([menu EXCEPT !.stack = Front(menu.stack)])
          /\ Walks([menu EXCEPT !.stack = Front(menu.stack)])
      BY <1>1, <2>3, FrontWalks
    <3> QED BY <1>1, <2>1, <3>1, <3>2, RebuiltSound
  <2>4. CASE menu.query = <<>> /\ ~(Len(menu.stack) > 1)
    <3>1. menu' = menu
      BY <1>5, <2>4 DEF Back
    <3> QED BY <1>2, <2>1, <3>1
  <2> QED BY <2>2, <2>3, <2>4
<1>6. ASSUME NEW row, EnterGroup(row) PROVE MenuInv'
  <2> DEFINE g == menu.visible[row + 1]
  <2>1. PICK listed \in BOOLEAN :
          menu' = Rebuild([menu EXCEPT !.stack = Append(menu.stack, [node |-> g, kids |-> Expand(listed)[g]]),
                                       !.query = <<>>], listed)
    BY <1>6 DEF EnterGroup, Shown
  <2>2. tree' = tree /\ IsGroup(g) /\ row \in 0..Len(menu.visible) - 1
    BY <1>6 DEF EnterGroup, RowIsThere
  <2>3. g \in Range(menu.visible)
    <3>1. menu.visible \in Seq(Range(menu.visible))
      BY <1>1 DEF Shows
    <3>2. Len(menu.visible) \in Nat
      BY <3>1, LenProperties
    <3>3. row + 1 \in 1..Len(menu.visible)
      BY <2>2, <3>2
    <3> QED BY <3>1, <3>3, ElementOfSeq
  \* A search shows no groups.
  <2>4. Trimmed(menu.query) = <<>>
    <3> SUFFICES ASSUME Trimmed(menu.query) # <<>> PROVE FALSE
      OBVIOUS
    <3>1. menu.flat \in Seq(Commands) /\ Range(menu.visible) = {f.node : f \in HitsOf(menu)}
      BY <1>1 DEF Shows
    <3> HIDE DEF g
    <3>2. PICK f \in HitsOf(menu) : g = f.node
      BY <2>3, <3>1
    <3>3. f \in Commands
      BY <3>1, <3>2, RangeOfSeq DEF HitsOf
    <3> QED BY <2>2, <3>2, <3>3 DEF Commands
  <2>5. g \in Range(Last(menu.stack).kids) /\ Last(menu.stack) \in Level
    BY <1>1, <2>3, <2>4, LastLevel DEF Shows
  <2>6. g \in DOMAIN tree
    <3>1. Last(menu.stack).kids \in Seq(DOMAIN tree)
      BY <2>5 DEF Level
    <3> HIDE DEF g
    <3> QED BY <2>5, <3>1, RangeOfSeq
  <2> HIDE DEF g
  <2> DEFINE kids == Expand(listed)[g]
             m == [menu EXCEPT !.stack = Append(menu.stack, [node |-> g, kids |-> kids]), !.query = <<>>]
  <2>7. kids \in Seq(DOMAIN tree)
    BY <1>1, <2>6, ExpandType DEF Contents
  <2>8. menu' = Rebuild(m, listed)
    BY <2>1
  <2> HIDE DEF kids
  <2>9. IsMenu(m) /\ Walks(m)
    BY <1>1, <2>5, <2>6, <2>7, DeeperWalks
  <2> HIDE DEF m
  <2> QED BY <1>1, <2>2, <2>8, <2>9, RebuiltSound
<1>7. CASE \/ CloseMenu \/ ToggleLayout \/ Installs
           \/ RunLeaf(menuWindow.selected)
           \/ \E d : MoveSelection(d)
           \/ \E row : HoverRow(row)
           \/ \E n : Starts(n)
  <2>1. tree' = tree /\ menu' = menu
    BY <1>7 DEF CloseMenu, ToggleLayout, Installs, RunLeaf, MoveSelection, HoverRow, Starts
  <2> QED BY <1>2, <2>1
<1>8. CASE UNCHANGED menuVars
  BY <1>2, <1>8 DEF menuVars
<1> QED BY <1>3, <1>4, <1>5, <1>6, <1>7, <1>8 DEF MenuNext

LEMMA MenuAgrees == MenuInv => LevelsAreAWalk /\ SearchFinds /\ LevelIsShown
<1> SUFFICES ASSUME MenuInv PROVE LevelsAreAWalk /\ SearchFinds /\ LevelIsShown
  OBVIOUS
<1>1. LevelsAreAWalk /\ LevelIsShown
  BY DEF MenuInv, Walks, Shows, LevelsAreAWalk, LevelIsShown
<1>2. SearchFinds
  <2> DEFINE q == menu.query
             Hint(f) == tree[f.node].hint
             In(f)   == Occurs(q, FullTitle(f))
  <2> SUFFICES ASSUME Trimmed(q) # <<>>
      PROVE  /\ Range(menu.visible) \subseteq {f.node : f \in {f \in Range(menu.flat) : In(f) \/ Occurs(q, Hint(f))}}
             /\ \A f \in Range(menu.flat) :
                  In(f) \/ (Occurs(q, Hint(f)) /\ Worth(q, Hint(f)) >= 10) => f.node \in Range(menu.visible)
    BY DEF SearchFinds
  <2>1. /\ menu.flat \in Seq(Commands) /\ Range(menu.visible) = {f.node : f \in HitsOf(menu)}
        /\ q \in Seq(Range(q)) /\ IsTree(tree)
    BY DEF MenuInv, Shows, Walks
  <2>2. HitsOf(menu) = {f \in Range(menu.flat) : In(f) \/ FuzzyScore(q, Hint(f)) >= 10}
    BY DEF HitsOf
  <2>3. q # <<>>
    BY DEF Trimmed
  <2>4. ASSUME NEW f \in Range(menu.flat)
        PROVE  /\ FuzzyScore(q, Hint(f)) >= 10 => Occurs(q, Hint(f))
               /\ Occurs(q, Hint(f)) /\ Worth(q, Hint(f)) >= 10 => FuzzyScore(q, Hint(f)) >= 10
    <3>1. f \in Commands
      BY <2>1, RangeOfSeq
    <3>2. Hint(f) \in Seq(Chars)
      BY <2>1, <3>1, TextsOfTree DEF Commands
    <3> HIDE DEF Hint, q
    <3>3. FuzzyScore(q, Hint(f)) \in Int /\ (FuzzyScore(q, Hint(f)) >= 0 <=> Occurs(q, Hint(f)))
      BY <2>1, <2>3, <3>2, FuzzyFinds
    <3>4. Occurs(q, Hint(f)) /\ Worth(q, Hint(f)) >= 10 => FuzzyScore(q, Hint(f)) >= 10
      BY <2>1, <2>3, <3>2, WorthScores
    <3> QED BY <3>3, <3>4
  <2> HIDE DEF Hint, In, q
  <2> QED BY <2>1, <2>2, <2>4
<1> QED BY <1>1, <1>2

-----------------------------------------------------------------------------
\* Spotlight: lists of rows.

IsRows(s) == s \in Seq(Range(s))

LEMMA RowsAre ==
  ASSUME NEW S, NEW s \in Seq(S)
  PROVE  /\ IsRows(s) /\ Range(s) \subseteq S
         /\ Len(s) \in Nat /\ DOMAIN s = 1..Len(s) /\ \A i \in 1..Len(s) : s[i] \in S
BY SeqOfRange, RangeOfSeq, LenProperties, ElementOfSeq DEF IsRows

LEMMA RowsJoin ==
  ASSUME NEW a, NEW b, IsRows(a), IsRows(b)
  PROVE  IsRows(a \o b) /\ Range(a \o b) = Range(a) \cup Range(b)
<1> DEFINE S == Range(a) \cup Range(b)
<1>1. a \in Seq(S) /\ b \in Seq(S)
  <2>1. Range(a) \subseteq S /\ Range(b) \subseteq S
    OBVIOUS
  <2> HIDE DEF S
  <2> QED BY <2>1, SeqMonotonic DEF IsRows
<1> HIDE DEF S
<1>2. a \o b \in Seq(S) /\ Range(a \o b) = Range(a) \cup Range(b)
  BY <1>1, ConcatProperties, RangeConcatenation
<1> QED BY <1>2, RowsAre

\* The first entries of a list.
LEMMA FirstRows ==
  ASSUME NEW s, IsRows(s), NEW k \in Nat
  PROVE  SubSeq(s, 1, Min({k, Len(s)})) \in Seq(Range(s))
<1> DEFINE n == Min({k, Len(s)})
<1>1. Len(s) \in Nat /\ \A i \in 1..Len(s) : s[i] \in Range(s)
  BY RowsAre DEF IsRows
<1>2. n \in Int /\ n <= Len(s)
  BY <1>1, MinOfTwo
<1> HIDE DEF n
<1>3. \A i \in 1..n : s[i] \in Range(s)
  BY <1>1, <1>2
<1>4. 1 \in Int
  OBVIOUS
<1>5. SubSeq(s, 1, n) \in Seq(Range(s))
  BY <1>2, <1>3, <1>4, SubSeqProperties
<1> QED BY <1>5 DEF n

\* The index: each file is passed over or appended.
ScanStep(F, P) ==
  IF P = {} THEN <<>> ELSE ParseDesktopFile(F[P \ {Max(P)}], Desktops[Max(P)])

LEMMA ScanExists == \E F : F = [P \in SUBSET DOMAIN Desktops |-> ScanStep(F, P)]
<1> DEFINE n == Len(Desktops)
           Acc == Seq(Range(Desktops))
           step == [p \in Acc \X (1..n) |-> ParseDesktopFile(p[1], Desktops[p[2]])]
<1>1. n \in Nat /\ DOMAIN Desktops = 1..n /\ \A i \in 1..n : Desktops[i] \in Range(Desktops)
  BY SpotLists, RowsAre
<1>2. ASSUME NEW a \in Acc, NEW i \in 1..n
      PROVE  step[<<a, i>>] = ParseDesktopFile(a, Desktops[i]) /\ step[<<a, i>>] \in Acc
  <2>1. step[<<a, i>>] = ParseDesktopFile(a, Desktops[i])
    OBVIOUS
  <2>2. ParseDesktopFile(a, Desktops[i]) = a \/ ParseDesktopFile(a, Desktops[i]) = Append(a, Desktops[i])
    BY DEF ParseDesktopFile
  <2>3. Append(a, Desktops[i]) \in Acc
    BY <1>1, AppendProperties
  <2> HIDE DEF step
  <2> QED BY <2>1, <2>2, <2>3
<1>3. step = [p \in Acc \X (1..n) |-> step[p]] /\ <<>> \in Acc
  <2>1. <<>> \in Acc
    OBVIOUS
  <2> QED BY <2>1
<1> HIDE DEF step, n, Acc
<1>4. step \in [Acc \X (1..n) -> Acc]
  BY <1>2, <1>3, OnPairs
<1>5. PICK F \in [SUBSET (1..n) -> Acc] : Folds(F, <<>>, step, n)
  BY <1>1, <1>3, <1>4, FoldExists
<1>6. ASSUME NEW P \in SUBSET (1..n) PROVE F[P] = ScanStep(F, P)
  <2>1. CASE P = {}
    BY <2>1, <1>5 DEF Folds, ScanStep
  <2>2. CASE P # {}
    <3>1. Max(P) \in 1..n /\ P \ {Max(P)} \in SUBSET (1..n)
      BY <2>2, <1>1, MaxIn
    <3>2. F[P \ {Max(P)}] \in Acc
      BY <3>1
    <3>3. F[P] = step[<<F[P \ {Max(P)}], Max(P)>>]
      BY <2>2, <1>5 DEF Folds
    <3> QED BY <2>2, <3>1, <3>2, <3>3, <1>2 DEF ScanStep
  <2> QED BY <2>1, <2>2
<1>7. F = [P \in SUBSET (1..n) |-> F[P]]
  OBVIOUS
<1> QED BY <1>1, <1>6, <1>7

LEMMA ScanRows == IsRows(ScanApps)
<1> DEFINE n == Len(Desktops)
           F == CHOOSE F : F = [P \in SUBSET DOMAIN Desktops |-> ScanStep(F, P)]
           all == FoldLeft(ParseDesktopFile, <<>>, Desktops)
           Before(a, b) == \/ AppPriority(a) < AppPriority(b)
                           \/ AppPriority(a) = AppPriority(b) /\ a.name < b.name
           before == [j \in DOMAIN all |-> {i \in DOMAIN all : Before(all[i], all[j])}]
           In == {i \in Nat : i <= n => F[1..i] \in Seq(Range(Desktops))}
<1>1. n \in Nat /\ DOMAIN Desktops = 1..n /\ \A i \in 1..n : Desktops[i] \in Range(Desktops)
  BY SpotLists, RowsAre
<1>2. F = [P \in SUBSET DOMAIN Desktops |-> ScanStep(F, P)]
  BY ScanExists
<1>3. all = F[DOMAIN Desktops]
  BY DEF FoldLeft, MapThenFoldSet, ScanStep
<1>4. ScanApps = Sorted(all, before)
  BY Zenon DEF ScanApps
<1> HIDE DEF F, n, all
<1>5. \A P \in SUBSET (1..n) : F[P] = ScanStep(F, P)
  BY <1>1, <1>2
<1>6. 0 \in In
  <2>1. 1..0 = {} /\ {} \in SUBSET (1..n)
    OBVIOUS
  <2>2. F[1..0] = <<>>
    BY <2>1, <1>5 DEF ScanStep
  <2>3. <<>> \in Seq(Range(Desktops))
    OBVIOUS
  <2> QED BY <2>2, <2>3
<1>7. ASSUME NEW k \in Nat, k \in In PROVE k + 1 \in In
  <2> SUFFICES ASSUME k + 1 <= n PROVE F[1..(k + 1)] \in Seq(Range(Desktops))
    OBVIOUS
  <2>1. F[1..k] \in Seq(Range(Desktops))
    BY <1>1, <1>7
  <2>2. k + 1 \in 1..n /\ 1..(k + 1) \in SUBSET (1..n) /\ (k + 1) - 1 = k
    BY <1>1
  <2>3. Max(1..(k + 1)) = k + 1 /\ (1..(k + 1)) \ {Max(1..(k + 1))} = 1..k /\ 1..(k + 1) # {}
    <3>1. k + 1 \in Nat /\ k + 1 # 0
      OBVIOUS
    <3> QED BY <2>2, <3>1, Prefix
  <2>4. F[1..(k + 1)] = ParseDesktopFile(F[1..k], Desktops[k + 1])
    BY <2>2, <2>3, <1>5 DEF ScanStep
  <2>5. F[1..(k + 1)] = F[1..k] \/ F[1..(k + 1)] = Append(F[1..k], Desktops[k + 1])
    BY <2>4 DEF ParseDesktopFile
  <2>6. Append(F[1..k], Desktops[k + 1]) \in Seq(Range(Desktops))
    BY <2>1, <2>2, <1>1, AppendProperties
  <2> QED BY <2>1, <2>5, <2>6
<1>8. n \in In
  <2> HIDE DEF In
  <2> QED BY <1>1, <1>6, <1>7, EveryNat
<1>9. all \in Seq(Range(Desktops))
  BY <1>1, <1>3, <1>8
<1>10. DOMAIN before = 1..Len(all) /\ Len(all) \in Nat
  BY <1>9, LenProperties
<1> HIDE DEF before
<1>11. IsFiniteSet(DOMAIN before)
  BY <1>10, FS_Interval
<1> QED BY <1>4, <1>11, SortedIsList DEF IsRows

LEMMA SearchRows ==
  ASSUME IsRows(apps), NEW text
  PROVE  IsRows(Search(text))
<1> DEFINE hits == {i \in DOMAIN apps : Score(apps[i], text) > 0}
           Before(a, b) == \/ Score(a, text) > Score(b, text)
                           \/ Score(a, text) = Score(b, text) /\ a.name < b.name
           before == [j \in hits |-> {i \in hits : Before(apps[i], apps[j])}]
           all == IF text = "" THEN apps ELSE Sorted(apps, before)
<1>1. Search(text) = SubSeq(all, 1, Min({SearchLimit, Len(all)}))
  BY Zenon DEF Search
<1>2. IsFiniteSet(hits)
  <2>1. IsFiniteSet(1..Len(apps)) /\ DOMAIN apps = 1..Len(apps)
    <3>1. Len(apps) \in Nat /\ DOMAIN apps = 1..Len(apps)
      BY RowsAre DEF IsRows
    <3> QED BY <3>1, FS_Interval
  <2>2. hits \in SUBSET DOMAIN apps
    OBVIOUS
  <2> HIDE DEF hits
  <2> QED BY <2>1, <2>2, FS_Subset
<1>3. DOMAIN before = hits
  OBVIOUS
<1> HIDE DEF hits, before
<1>4. IsRows(all)
  BY <1>2, <1>3, SortedIsList DEF IsRows
<1> HIDE DEF all
<1>5. SearchLimit \in Nat
  BY DEF SearchLimit
<1>6. Search(text) \in Seq(Range(all))
  BY <1>1, <1>4, <1>5, FirstRows
<1> QED BY <1>6, SeqOfRange DEF IsRows

\* The members of Spotlight, and what some of them are.
SpotOf(q, r, i, c, b, v, g, o) ==
  [query |-> q, rows |-> r, selected |-> i, calc |-> c, clipboard |-> b, view |-> v,
   category |-> g, open |-> o]

IsSpot(s) ==
  /\ s = SpotOf(s.query, s.rows, s.selected, s.calc, s.clipboard, s.view, s.category, s.open)
  /\ s.query \in Queries \cup {NoQuery} /\ s.selected \in Int
  /\ s.calc \in BOOLEAN /\ s.clipboard \in BOOLEAN

LEMMA SpotIs ==
  ASSUME NEW q \in Queries \cup {NoQuery}, NEW r, NEW i \in Int, NEW c \in BOOLEAN,
         NEW b \in BOOLEAN, NEW v, NEW g, NEW o, NEW s, s = SpotOf(q, r, i, c, b, v, g, o)
  PROVE  /\ IsSpot(s) /\ s.query = q /\ s.rows = r /\ s.selected = i /\ s.calc = c
         /\ s.clipboard = b /\ s.view = v /\ s.category = g /\ s.open = o
<1> DEFINE Q == Queries \cup {NoQuery}
<1>1. q \in Q
  OBVIOUS
<1> HIDE DEF Q
<1>2. /\ s.query = q /\ s.rows = r /\ s.selected = i /\ s.calc = c
      /\ s.clipboard = b /\ s.view = v /\ s.category = g /\ s.open = o
  BY DEF SpotOf
<1>3. s = SpotOf(s.query, s.rows, s.selected, s.calc, s.clipboard, s.view, s.category, s.open)
  BY <1>2
<1>4. s.query \in Q /\ s.selected \in Int /\ s.calc \in BOOLEAN /\ s.clipboard \in BOOLEAN
  BY <1>1, <1>2
<1> QED BY <1>2, <1>3, <1>4 DEF IsSpot, Q

\* RowsFit, of the rows and the members they are for.
RowsFitIn(rows, inClipboard, query, calc, category) ==
  LET types == {r.type : r \in Range(rows)}
  IN IF inClipboard THEN types \subseteq {"clipboard"}
     ELSE /\ "clipboard" \notin types
          /\ "web" \in types <=> (query.text # "" /\ ~calc)
          /\ \A r \in Range(rows) :
               /\ r.type \in {"web", "command"} => r.of = query.text
               /\ r.type = "app" => category \in {"ALL", "APPS", r.group}
               /\ r.type = "system" => category \in {"ALL", "SYSTEM"}
          /\ calc = query.calc

Fits(s) ==
  /\ s.rows # <<>> => s.selected \in 0..Len(s.rows) - 1
  /\ RowsFitIn(s.rows, InClipboard(s), s.query, s.calc, s.category)

SpotInv == IsRows(apps) /\ clips \in Clips /\ IsSpot(spot) /\ IsRows(spot.rows) /\ Fits(spot)

LEMMA QueryType == \A q \in Queries \cup {NoQuery} : q.clip \in BOOLEAN /\ q.calc \in BOOLEAN
<1>1. \A q \in Queries : {q.clip, q.command, q.calc} \subseteq BOOLEAN
  BY SpotQueries
<1>2. \A q \in Queries : q.clip \in BOOLEAN /\ q.calc \in BOOLEAN
  BY <1>1
<1>3. NoQuery.clip = FALSE /\ NoQuery.calc = FALSE
  BY DEF NoQuery
<1> QED BY <1>2, <1>3

\* What is listed in each kind of row.
LEMMA ClipRowsAre ==
  ASSUME NEW s, NEW recent, IsRows(recent)
  PROVE  IsRows(ClipRows(s, recent)) /\ \A r \in Range(ClipRows(s, recent)) : r.type = "clipboard"
<1> DEFINE filter == IF s.query.clip THEN s.query.filter ELSE s.query.text
           few == SubSeq(recent, 1, Min({ClipLimit, Len(recent)}))
           S == {c \in Range(recent) : filter = "" \/ filter \in c.hits}
           kept == Only(few, S)
           row(c) == [type |-> "clipboard", of |-> c.text, group |-> "CLIPBOARD"]
<1>1. ClipRows(s, recent) = [i \in DOMAIN kept |-> row(kept[i])]
  BY Zenon DEF ClipRows
<1>2. few \in Seq(Range(recent))
  BY FirstRows DEF ClipLimit
<1> HIDE DEF few, S
<1>3. kept \in Seq(Range(recent) \cap S)
  BY <1>2, OnlyIn
<1> HIDE DEF kept
<1>4. Len(kept) \in Nat /\ DOMAIN kept = 1..Len(kept)
  BY <1>3, LenProperties
<1>5. \A i \in DOMAIN kept : row(kept[i]).type = "clipboard"
  OBVIOUS
<1> HIDE DEF row
<1>6. IsRows([i \in DOMAIN kept |-> row(kept[i])])
  BY <1>4 DEF IsRows, Range
<1> QED BY <1>1, <1>5, <1>6 DEF Range

LEMMA CommandRowsAre ==
  ASSUME NEW s
  PROVE  /\ IsRows(CommandRows(s))
         /\ \A r \in Range(CommandRows(s)) : r.type = "command" /\ r.of = s.query.text
<1> DEFINE row == [type |-> "command", of |-> s.query.text, group |-> "COMMAND"]
<1>1. row.type = "command" /\ row.of = s.query.text
  OBVIOUS
<1>2. CommandRows(s) = <<row>> \/ CommandRows(s) = <<>>
  BY DEF CommandRows
<1> HIDE DEF row
<1>3. IsRows(<<row>>) /\ Range(<<row>>) = {row}
  BY DEF IsRows, Range
<1>4. IsRows(<<>>) /\ Range(<<>>) = {}
  BY DEF IsRows, Range
<1> QED BY <1>1, <1>2, <1>3, <1>4

LEMMA AppRowsAre ==
  ASSUME NEW s, IsRows(apps)
  PROVE  /\ IsRows(AppRows(s))
         /\ \A r \in Range(AppRows(s)) : r.type = "app" /\ s.category \in {"ALL", "APPS", r.group}
<1> DEFINE found == IF s.category = "SYSTEM" /\ s.query.text = "" THEN <<>> ELSE Search(s.query.text)
           S == {a \in Range(found) : s.category \in {"ALL", "APPS", ClassifyAppGroup(a)}}
           kept == Only(found, S)
           row(a) == [type |-> "app", of |-> a.name, group |-> ClassifyAppGroup(a)]
<1>1. AppRows(s) = [i \in DOMAIN kept |-> row(kept[i])]
  BY Zenon DEF AppRows
<1>2. IsRows(found)
  <2>1. IsRows(<<>>)
    BY DEF IsRows
  <2>2. IsRows(Search(s.query.text))
    BY SearchRows
  <2> QED BY <2>1, <2>2
<1>3. \A a \in S : s.category \in {"ALL", "APPS", ClassifyAppGroup(a)}
  OBVIOUS
<1> HIDE DEF found, S
<1>4. kept \in Seq(Range(found) \cap S)
  BY <1>2, OnlyIn DEF IsRows
<1> HIDE DEF kept
<1>5. Len(kept) \in Nat /\ DOMAIN kept = 1..Len(kept) /\ \A i \in DOMAIN kept : kept[i] \in S
  BY <1>4, LenProperties, ElementOfSeq
<1>6. \A a : row(a).type = "app" /\ row(a).group = ClassifyAppGroup(a)
  OBVIOUS
<1> HIDE DEF row
<1>7. IsRows([i \in DOMAIN kept |-> row(kept[i])])
  BY <1>5 DEF IsRows, Range
<1> QED BY <1>1, <1>3, <1>5, <1>6, <1>7 DEF Range

LEMMA ActionRowsAre ==
  ASSUME NEW s
  PROVE  /\ IsRows(ActionRows(s))
         /\ \A r \in Range(ActionRows(s)) : r.type = "system" /\ s.category \in {"ALL", "SYSTEM"}
<1> DEFINE S == {a \in Range(Actions) : s.query.text \in a.hits}
           kept == IF s.category \notin {"ALL", "SYSTEM"} THEN <<>>
                   ELSE IF s.query.text # "" THEN Only(Actions, S)
                   ELSE IF s.category = "SYSTEM" THEN Actions
                   ELSE SubSeq(Actions, 1, Min({6, Len(Actions)}))
           row(a) == [type |-> "system", of |-> a.what, group |-> "SYSTEM"]
<1>1. ActionRows(s) = [i \in DOMAIN kept |-> row(kept[i])]
  BY Zenon DEF ActionRows
<1>2. kept # <<>> => s.category \in {"ALL", "SYSTEM"}
  OBVIOUS
<1>3. IsRows(kept)
  <2>1. IsRows(Actions) /\ IsRows(<<>>)
    BY SpotLists DEF IsRows
  <2>2. Only(Actions, S) \in Seq(Range(Actions) \cap S)
    BY <2>1, OnlyIn DEF IsRows
  <2>3. IsRows(Only(Actions, S))
    BY <2>2, RowsAre
  <2>4. SubSeq(Actions, 1, Min({6, Len(Actions)})) \in Seq(Range(Actions))
    BY <2>1, FirstRows
  <2>5. IsRows(SubSeq(Actions, 1, Min({6, Len(Actions)})))
    BY <2>4, RowsAre
  <2> HIDE DEF S
  <2> QED BY <2>1, <2>3, <2>5
<1> HIDE DEF kept
<1>4. Len(kept) \in Nat /\ DOMAIN kept = 1..Len(kept)
  BY <1>3, RowsAre DEF IsRows
<1>5. \A i \in DOMAIN kept : row(kept[i]).type = "system" /\ kept # <<>>
  BY <1>4
<1> HIDE DEF row
<1>6. IsRows([i \in DOMAIN kept |-> row(kept[i])])
  BY <1>4 DEF IsRows, Range
<1> QED BY <1>1, <1>2, <1>5, <1>6 DEF Range

LEMMA WebRowsAre ==
  ASSUME NEW s
  PROVE  /\ IsRows(WebRows(s))
         /\ \A r \in Range(WebRows(s)) : r.type = "web" /\ r.of = s.query.text
         /\ (\E r \in Range(WebRows(s)) : TRUE) <=> (s.query.text # "" /\ ~s.query.calc)
<1> DEFINE row == [type |-> "web", of |-> s.query.text, group |-> "WEB"]
<1>1. row.type = "web" /\ row.of = s.query.text
  OBVIOUS
<1>2. WebRows(s) = IF s.query.text # "" /\ ~s.query.calc THEN <<row>> ELSE <<>>
  BY DEF WebRows
<1> HIDE DEF row
<1>3. IsRows(<<row>>) /\ Range(<<row>>) = {row}
  BY DEF IsRows, Range
<1>4. IsRows(<<>>) /\ Range(<<>>) = {}
  BY DEF IsRows, Range
<1>5. CASE s.query.text # "" /\ ~s.query.calc
  BY <1>1, <1>2, <1>3, <1>5
<1>6. CASE ~(s.query.text # "" /\ ~s.query.calc)
  BY <1>2, <1>4, <1>6
<1> QED BY <1>5, <1>6

\* Whatever was typed and chosen, updateResults() makes the rows fit.
LEMMA UpdateFits ==
  ASSUME IsRows(apps), NEW s, IsSpot(s), NEW recent, IsRows(recent)
  PROVE  /\ IsSpot(UpdateResults(s, recent)) /\ IsRows(UpdateResults(s, recent).rows)
         /\ Fits(UpdateResults(s, recent))
<1> DEFINE rows == IF InClipboard(s) THEN ClipRows(s, recent)
                   ELSE CommandRows(s) \o AppRows(s) \o ActionRows(s) \o WebRows(s)
           u == UpdateResults(s, recent)
           types == {r.type : r \in Range(rows)}
<1>1. /\ u.query = s.query /\ u.rows = rows /\ u.selected = 0 /\ u.calc = s.query.calc
      /\ u.clipboard = s.clipboard /\ u.category = s.category /\ IsSpot(u)
  <2> DEFINE c == s.query.calc
             Q == Queries \cup {NoQuery}
  <2>1. u = [s EXCEPT !.calc = c, !.selected = 0, !.rows = rows]
    BY Zenon DEF UpdateResults
  <2>2. s.query \in Q /\ s.clipboard \in BOOLEAN
    BY DEF IsSpot
  <2>3. c \in BOOLEAN
    BY <2>2, QueryType
  <2> HIDE DEF u, rows, c, Q
  <2>4. s = SpotOf(s.query, s.rows, s.selected, s.calc, s.clipboard, s.view, s.category, s.open)
    BY DEF IsSpot
  <2>5. u = SpotOf(s.query, rows, 0, c, s.clipboard, s.view, s.category, s.open)
    BY <2>1, <2>4 DEF SpotOf
  <2>6. 0 \in Int
    OBVIOUS
  <2>7. /\ u.query = s.query /\ u.rows = rows /\ u.selected = 0 /\ u.calc = c
        /\ u.clipboard = s.clipboard /\ u.category = s.category /\ IsSpot(u)
    <3>1. s.query \in Queries \cup {NoQuery}
      BY DEF IsSpot
    <3> QED BY <2>2, <2>3, <2>5, <2>6, <3>1, SpotIs
  <2> QED BY <2>7 DEF c
<1>2. InClipboard(u) = InClipboard(s)
  BY <1>1 DEF InClipboard
<1>3. IsRows(rows)
  <2>1. IsRows(CommandRows(s) \o AppRows(s))
    BY CommandRowsAre, AppRowsAre, RowsJoin
  <2>2. IsRows(CommandRows(s) \o AppRows(s) \o ActionRows(s))
    BY <2>1, ActionRowsAre, RowsJoin
  <2>3. IsRows(CommandRows(s) \o AppRows(s) \o ActionRows(s) \o WebRows(s))
    BY <2>2, WebRowsAre, RowsJoin
  <2> QED BY <2>3, ClipRowsAre
<1>4. rows # <<>> => 0 \in 0..Len(rows) - 1
  <2>1. Len(rows) \in Nat /\ (Len(rows) = 0 => rows = <<>>)
    BY <1>3, RowsAre, EmptySeq DEF IsRows
  <2> QED BY <2>1
<1>5. CASE InClipboard(s)
  <2>1. types \subseteq {"clipboard"}
    BY <1>5, ClipRowsAre
  <2> HIDE DEF rows, u
  <2> QED BY <1>1, <1>2, <1>3, <1>4, <1>5, <2>1 DEF Fits, RowsFitIn, u
<1>6. CASE ~InClipboard(s)
  <2> DEFINE a == Range(CommandRows(s))
             b == Range(AppRows(s))
             c == Range(ActionRows(s))
             d == Range(WebRows(s))
  <2>1. Range(rows) = a \cup b \cup c \cup d
    <3>1. IsRows(CommandRows(s) \o AppRows(s)) /\ Range(CommandRows(s) \o AppRows(s)) = a \cup b
      BY CommandRowsAre, AppRowsAre, RowsJoin
    <3>2. /\ IsRows(CommandRows(s) \o AppRows(s) \o ActionRows(s))
          /\ Range(CommandRows(s) \o AppRows(s) \o ActionRows(s)) = a \cup b \cup c
      BY <3>1, ActionRowsAre, RowsJoin
    <3>3. Range(CommandRows(s) \o AppRows(s) \o ActionRows(s) \o WebRows(s)) = a \cup b \cup c \cup d
      BY <3>2, WebRowsAre, RowsJoin
    <3> QED BY <3>3, <1>6
  <2>2. \A r \in a : r.type = "command" /\ r.of = s.query.text
    BY CommandRowsAre
  <2>3. \A r \in b : r.type = "app" /\ s.category \in {"ALL", "APPS", r.group}
    BY AppRowsAre
  <2>4. \A r \in c : r.type = "system" /\ s.category \in {"ALL", "SYSTEM"}
    BY ActionRowsAre
  <2>5. /\ \A r \in d : r.type = "web" /\ r.of = s.query.text
        /\ (\E r \in d : TRUE) <=> (s.query.text # "" /\ ~s.query.calc)
    BY WebRowsAre
  <2> HIDE DEF a, b, c, d, rows, u
  <2>6. "clipboard" \notin types
    BY <2>1, <2>2, <2>3, <2>4, <2>5
  <2>7. "web" \in types <=> \E r \in d : TRUE
    BY <2>1, <2>2, <2>3, <2>4, <2>5
  <2>8. \A r \in Range(rows) :
          /\ r.type \in {"web", "command"} => r.of = s.query.text
          /\ r.type = "app" => s.category \in {"ALL", "APPS", r.group}
          /\ r.type = "system" => s.category \in {"ALL", "SYSTEM"}
    BY <2>1, <2>2, <2>3, <2>4, <2>5
  <2>9. Fits(u)
    BY <1>1, <1>2, <1>4, <1>6, <2>5, <2>6, <2>7, <2>8 DEF Fits, RowsFitIn
  <2> QED BY <1>1, <1>3, <2>9 DEF u
<1> QED BY <1>5, <1>6

LEMMA FitsIn ==
  ASSUME IsRows(apps'), clips' \in Clips, NEW s, IsSpot(s), IsRows(s.rows), Fits(s), spot' = s
  PROVE  SpotInv'
BY DEF SpotInv, IsRows, IsSpot, Fits, InClipboard

\* What the members begin as.
LEMMA FreshSpot ==
  ASSUME NEW view, NEW s,
         s = [query |-> NoQuery, rows |-> <<>>, selected |-> 0, calc |-> FALSE,
              clipboard |-> FALSE, view |-> view, category |-> "ALL", open |-> FALSE]
  PROVE  IsSpot(s) /\ IsRows(<<>>)
<1>1. s = SpotOf(NoQuery, <<>>, 0, FALSE, FALSE, view, "ALL", FALSE)
  BY Zenon DEF SpotOf
<1>2. \A u : u = SpotOf(NoQuery, <<>>, 0, FALSE, FALSE, view, "ALL", FALSE) => IsSpot(u)
  <2> SUFFICES ASSUME NEW u, NEW c \in BOOLEAN, u = SpotOf(NoQuery, <<>>, 0, c, c, view, "ALL", c)
               PROVE  IsSpot(u)
    BY Zenon
  <2>1. NoQuery \in Queries \cup {NoQuery} /\ 0 \in Int
    OBVIOUS
  <2> QED BY <2>1, SpotIs
<1>3. IsSpot(s)
  BY Zenon, <1>1, <1>2
<1>4. IsRows(<<>>)
  BY DEF IsRows
<1> QED BY <1>3, <1>4

LEMMA SpotStarts ==
  ASSUME SpotInit
  PROVE  SpotInv
<1> DEFINE s == [query |-> NoQuery, rows |-> <<>>, selected |-> 0, calc |-> FALSE,
                 clipboard |-> FALSE, view |-> "grid", category |-> "ALL", open |-> FALSE]
<1>1. apps = ScanApps /\ spot = UpdateResults(s, <<>>) /\ clips \in Clips
  BY DEF SpotInit
<1>2. IsSpot(s) /\ IsRows(<<>>)
  BY FreshSpot
<1>3. IsRows(apps)
  BY <1>1, ScanRows
<1> HIDE DEF s
<1> QED BY <1>1, <1>2, <1>3, UpdateFits DEF SpotInv

LEMMA ClearedIs ==
  ASSUME NEW s, IsSpot(s), NEW q \in Queries \cup {NoQuery}, NEW b \in BOOLEAN, NEW c, NEW open
  PROVE  IsSpot([s EXCEPT !.query = q, !.category = c, !.clipboard = b, !.open = open])
<1> DEFINE u == [s EXCEPT !.query = q, !.category = c, !.clipboard = b, !.open = open]
<1>1. u = [s EXCEPT !.query = q, !.category = c, !.clipboard = b, !.open = open]
  OBVIOUS
<1> HIDE DEF u
<1>2. u = SpotOf(q, s.rows, s.selected, s.calc, b, s.view, c, open)
  BY <1>1 DEF SpotOf, IsSpot
<1>3. s.selected \in Int /\ s.calc \in BOOLEAN
  BY DEF IsSpot
<1>4. IsSpot(u)
  BY <1>2, <1>3, SpotIs
<1> QED BY <1>4 DEF u

\* The members that are set before updateResults().
LEMMA SetBefore ==
  ASSUME NEW s, IsSpot(s)
  PROVE  /\ \A q \in Queries \cup {NoQuery} : IsSpot([s EXCEPT !.query = q])
         /\ \A c : IsSpot([s EXCEPT !.category = c])
         /\ IsSpot([s EXCEPT !.clipboard = FALSE])
         /\ \A b \in BOOLEAN :
              IsSpot([s EXCEPT !.query = NoQuery, !.category = "ALL", !.clipboard = b, !.open = TRUE])
<1> DEFINE Q == Queries \cup {NoQuery}
<1>1. s = SpotOf(s.query, s.rows, s.selected, s.calc, s.clipboard, s.view, s.category, s.open)
  BY DEF IsSpot
<1>2. /\ s.query \in Queries \cup {NoQuery} /\ s.selected \in Int /\ s.calc \in BOOLEAN
      /\ s.clipboard \in BOOLEAN /\ NoQuery \in Queries \cup {NoQuery}
      /\ FALSE \in BOOLEAN
  BY DEF IsSpot
<1>3. ASSUME NEW q \in Q PROVE IsSpot([s EXCEPT !.query = q])
  <2>1. q \in Queries \cup {NoQuery}
    OBVIOUS
  <2> HIDE DEF Q
  <2>2. [s EXCEPT !.query = q]
        = SpotOf(q, s.rows, s.selected, s.calc, s.clipboard, s.view, s.category, s.open)
    BY <1>1 DEF SpotOf
  <2> QED BY <1>2, <2>1, <2>2, SpotIs
<1>4. ASSUME NEW c PROVE IsSpot([s EXCEPT !.category = c])
  <2>1. [s EXCEPT !.category = c]
        = SpotOf(s.query, s.rows, s.selected, s.calc, s.clipboard, s.view, c, s.open)
    BY <1>1 DEF SpotOf
  <2> QED BY <1>2, <2>1, SpotIs
<1>5. IsSpot([s EXCEPT !.clipboard = FALSE])
  <2>1. \A b : [s EXCEPT !.clipboard = b]
               = SpotOf(s.query, s.rows, s.selected, s.calc, b, s.view, s.category, s.open)
    BY <1>1 DEF SpotOf
  <2>2. \A b \in BOOLEAN : IsSpot([s EXCEPT !.clipboard = b])
    BY <1>2, <2>1, SpotIs
  <2> QED BY <1>2, <2>2
<1>6. ASSUME NEW b \in BOOLEAN
      PROVE  IsSpot([s EXCEPT !.query = NoQuery, !.category = "ALL", !.clipboard = b, !.open = TRUE])
  <2>1. NoQuery \in Queries \cup {NoQuery}
    OBVIOUS
  <2>2. ASSUME NEW c, NEW open
        PROVE  IsSpot([s EXCEPT !.query = NoQuery, !.category = c, !.clipboard = b, !.open = open])
    BY Zenon, <2>1, ClearedIs
  <2> QED BY Zenon, <2>2
<1> QED BY <1>3, <1>4, <1>5, <1>6

\* updateResults(), whatever cliphist answers.
LEMMA UpdatedKeeps ==
  ASSUME SpotInv, NEW s, IsSpot(s), Updated(s), UNCHANGED <<apps, clips>>
  PROVE  SpotInv'
<1>1. PICK recent \in {clips, <<>>} : spot' = UpdateResults(s, recent)
  BY DEF Updated
<1>2. IsRows(recent)
  <2>1. IsRows(<<>>)
    BY DEF IsRows
  <2>2. IsRows(clips)
    BY SpotLists DEF SpotInv, IsRows
  <2> QED BY <2>1, <2>2
<1>3. /\ IsSpot(UpdateResults(s, recent)) /\ IsRows(UpdateResults(s, recent).rows)
      /\ Fits(UpdateResults(s, recent))
  BY <1>2, UpdateFits DEF SpotInv
<1>4. IsRows(apps') /\ clips' \in Clips
  BY DEF SpotInv
<1> QED BY <1>1, <1>3, <1>4, FitsIn

\* The members that only the window and the view are about.
LEMMA SetAlone ==
  ASSUME NEW s, IsSpot(s), IsRows(s.rows), Fits(s), NEW u,
         \/ \E open : u = [s EXCEPT !.open = open]
         \/ \E view : u = [s EXCEPT !.view = view]
         \/ \E i \in 0..Len(s.rows) - 1 : u = [s EXCEPT !.selected = i]
  PROVE  IsSpot(u) /\ IsRows(u.rows) /\ Fits(u)
<1>1. s = SpotOf(s.query, s.rows, s.selected, s.calc, s.clipboard, s.view, s.category, s.open)
  BY DEF IsSpot
<1>2. /\ s.query \in Queries \cup {NoQuery} /\ s.selected \in Int /\ s.calc \in BOOLEAN
      /\ s.clipboard \in BOOLEAN
  BY DEF IsSpot
<1>3. \E i \in Int : \E v, o :
        /\ u = SpotOf(s.query, s.rows, i, s.calc, s.clipboard, v, s.category, o)
        /\ s.rows # <<>> => i \in 0..Len(s.rows) - 1
  <2>1. s.rows # <<>> => s.selected \in 0..Len(s.rows) - 1
    BY DEF Fits
  <2>2. CASE \E open : u = [s EXCEPT !.open = open]
    <3>1. PICK open : u = [s EXCEPT !.open = open]
      BY <2>2
    <3>2. u = SpotOf(s.query, s.rows, s.selected, s.calc, s.clipboard, s.view, s.category, open)
      BY <1>1, <3>1 DEF SpotOf
    <3> QED BY <1>2, <2>1, <3>2
  <2>3. CASE \E view : u = [s EXCEPT !.view = view]
    <3>1. PICK view : u = [s EXCEPT !.view = view]
      BY <2>3
    <3>2. u = SpotOf(s.query, s.rows, s.selected, s.calc, s.clipboard, view, s.category, s.open)
      BY <1>1, <3>1 DEF SpotOf
    <3> QED BY <1>2, <2>1, <3>2
  <2>4. CASE \E i \in 0..Len(s.rows) - 1 : u = [s EXCEPT !.selected = i]
    <3>1. PICK i \in 0..Len(s.rows) - 1 : u = [s EXCEPT !.selected = i]
      BY <2>4
    <3>2. u = SpotOf(s.query, s.rows, i, s.calc, s.clipboard, s.view, s.category, s.open)
      BY <1>1, <3>1 DEF SpotOf
    <3>3. i \in Int
      OBVIOUS
    <3> QED BY <3>2, <3>3
  <2> QED BY <2>2, <2>3, <2>4
<1>7. PICK i \in Int : \E v, o :
          /\ u = SpotOf(s.query, s.rows, i, s.calc, s.clipboard, v, s.category, o)
          /\ s.rows # <<>> => i \in 0..Len(s.rows) - 1
  BY <1>3
<1>8. PICK v, o :
          /\ u = SpotOf(s.query, s.rows, i, s.calc, s.clipboard, v, s.category, o)
          /\ s.rows # <<>> => i \in 0..Len(s.rows) - 1
  BY <1>7
<1>4. /\ IsSpot(u) /\ u.query = s.query /\ u.rows = s.rows /\ u.selected = i /\ u.calc = s.calc
      /\ u.clipboard = s.clipboard /\ u.category = s.category
  BY <1>2, <1>8, SpotIs
<1>5. InClipboard(u) = InClipboard(s)
  BY <1>4 DEF InClipboard
<1>6. Fits(u)
  BY <1>4, <1>5, <1>8 DEF Fits
<1> QED BY <1>4, <1>6

LEMMA AloneKeeps ==
  ASSUME SpotInv, UNCHANGED apps, clips' \in Clips,
         \/ UNCHANGED spot
         \/ \E open : spot' = [spot EXCEPT !.open = open]
         \/ \E view : spot' = [spot EXCEPT !.view = view]
         \/ \E i \in 0..Len(spot.rows) - 1 : spot' = [spot EXCEPT !.selected = i]
  PROVE  SpotInv'
<1>1. IsRows(apps') /\ IsSpot(spot) /\ IsRows(spot.rows) /\ Fits(spot)
  BY DEF SpotInv
<1>2. PICK u : u = spot'
  OBVIOUS
<1>3. IsSpot(u) /\ IsRows(u.rows) /\ Fits(u)
  <2>1. CASE UNCHANGED spot
    BY <1>1, <1>2, <2>1
  <2>2. CASE \/ \E open : u = [spot EXCEPT !.open = open]
             \/ \E view : u = [spot EXCEPT !.view = view]
             \/ \E i \in 0..Len(spot.rows) - 1 : u = [spot EXCEPT !.selected = i]
    BY <1>1, <2>2, SetAlone
  <2> QED BY <1>2, <2>1, <2>2
<1> QED BY <1>1, <1>2, <1>3, FitsIn

\* Where an arrow leads is kept on a row.
LEMMA ArrowsLead ==
  ASSUME NEW i \in Int, NEW n \in Nat \ {0}, NEW cols \in {1, 2, 4}
  PROVE  {Below(i, n, cols), Above(i, n, cols), RightOf(i, n), LeftOf(i, n)} \subseteq Int
<1>1. RightOf(i, n) \in Int /\ LeftOf(i, n) \in Int
  BY DEF RightOf, LeftOf
<1>2. Below(i, n, cols) \in Int
  BY <1>1 DEF Below
<1>3. Above(i, n, cols) \in Int
  <2> DEFINE last == (((n - 1) \div cols) * cols) + (i % cols)
  <2>1. last \in Int
    <3>1. CASE cols = 1
      BY <3>1
    <3>2. CASE cols = 2
      BY <3>2
    <3>3. CASE cols = 4
      BY <3>3
    <3> QED BY <3>1, <3>2, <3>3
  <2>2. Above(i, n, cols) = IF cols <= 1 THEN LeftOf(i, n)
                            ELSE IF i - cols >= 0 THEN i - cols
                            ELSE IF (IF last >= n THEN last - cols ELSE last) < 0 THEN 0
                                 ELSE (IF last >= n THEN last - cols ELSE last)
    BY Zenon DEF Above
  <2> HIDE DEF last
  <2> QED BY <1>1, <2>1, <2>2
<1> QED BY <1>1, <1>2, <1>3

LEMMA SelectKeeps ==
  ASSUME SpotInv, NEW i \in Int, Select(i)
  PROVE  SpotInv'
<1>1. spot.rows # <<>> /\ spot' = SetSelectedIndex(spot, i) /\ UNCHANGED apps /\ UNCHANGED clips
  BY DEF Select
<1>2. Len(spot.rows) \in Nat /\ Len(spot.rows) # 0
  <2>1. IsRows(spot.rows)
    BY DEF SpotInv
  <2> QED BY <2>1, <1>1, RowsAre, EmptySeq DEF IsRows
<1> DEFINE k == IF i < 0 THEN 0
                ELSE IF i >= Len(spot.rows) /\ spot.rows # <<>> THEN Len(spot.rows) - 1 ELSE i
<1>3. k \in 0..Len(spot.rows) - 1
  BY <1>1, <1>2
<1>4. spot' = [spot EXCEPT !.selected = k]
  BY <1>1, Zenon DEF SetSelectedIndex
<1> HIDE DEF k
<1>5. \E j \in 0..Len(spot.rows) - 1 : spot' = [spot EXCEPT !.selected = j]
  BY <1>3, <1>4
<1>6. clips' \in Clips
  BY <1>1 DEF SpotInv
<1> QED BY <1>1, <1>5, <1>6, AloneKeeps

\* Every step keeps the rows fitting what is shown.
LEMMA SpotKeeps ==
  ASSUME SpotInv, [SpotNext]_spotVars
  PROVE  SpotInv'
<1>1. IsSpot(spot) /\ clips \in Clips
  BY DEF SpotInv
<1>2. CASE Restart
  <2>1. PICK view : Started(view)
    BY <1>2 DEF Restart
  <2> DEFINE s == [query |-> NoQuery, rows |-> <<>>, selected |-> 0, calc |-> FALSE,
                   clipboard |-> FALSE, view |-> view, category |-> "ALL", open |-> FALSE]
             u == UpdateResults(s, <<>>)
  <2>2. apps' = ScanApps /\ spot' = u
    BY Zenon, <2>1 DEF Started
  <2>3. IsSpot(s) /\ IsRows(<<>>)
    BY FreshSpot
  <2>4. IsRows(apps)
    BY DEF SpotInv
  <2> HIDE DEF s
  <2>5. IsSpot(u) /\ IsRows(u.rows) /\ Fits(u)
    BY <2>3, <2>4, UpdateFits
  <2>6. IsRows(apps')
    BY <2>2, ScanRows
  <2>7. clips' \in Clips
    BY <1>1, <1>2 DEF Restart
  <2> HIDE DEF u
  <2> QED BY <2>2, <2>5, <2>6, <2>7, FitsIn
<1>3. CASE LeaveClipboard
  BY <1>1, <1>3, SetBefore, UpdatedKeeps DEF LeaveClipboard
<1>4. ASSUME NEW clipboard \in BOOLEAN, OpenWindow(clipboard) PROVE SpotInv'
  <2>1. IsSpot([spot EXCEPT !.query = NoQuery, !.category = "ALL", !.clipboard = clipboard, !.open = TRUE])
    BY Zenon, <1>1, SetBefore
  <2> QED BY Zenon, <1>4, <2>1, UpdatedKeeps DEF OpenWindow
<1>5. ASSUME NEW q \in Queries \cup {NoQuery}, Type(q) PROVE SpotInv'
  <2>1. IsSpot([spot EXCEPT !.query = q])
    BY Zenon, <1>1, SetBefore
  <2> QED BY Zenon, <1>5, <2>1, UpdatedKeeps DEF Type
<1>6. ASSUME NEW c, SetActiveCategory(c) PROVE SpotInv'
  <2>1. IsSpot([spot EXCEPT !.category = c])
    BY Zenon, <1>1, SetBefore
  <2> QED BY Zenon, <1>6, <2>1, UpdatedKeeps DEF SetActiveCategory
<1>7. CASE CycleCategory
  BY Zenon, <1>6, <1>7 DEF CycleCategory
<1>8. ASSUME NEW view, SetViewMode(view) PROVE SpotInv'
  <2>1. (\E v : spot' = [spot EXCEPT !.view = v]) /\ UNCHANGED apps /\ UNCHANGED clips
    BY Zenon, <1>8 DEF SetViewMode
  <2> QED BY <1>1, <2>1, AloneKeeps
<1>9. CASE CycleViewMode
  BY Zenon, <1>8, <1>9 DEF CycleViewMode
<1>10. CASE CloseWindow \/ ActivateCurrent \/ CopyCalcResult
  <2>1. (\E open : spot' = [spot EXCEPT !.open = open]) /\ UNCHANGED apps /\ UNCHANGED clips
    BY Zenon, <1>10 DEF CloseWindow, ActivateCurrent, CopyCalcResult
  <2> QED BY <1>1, <2>1, AloneKeeps
<1>11. CASE SavePreferences
  <2>1. UNCHANGED apps /\ UNCHANGED clips /\ UNCHANGED spot
    BY <1>11 DEF SavePreferences
  <2> QED BY <1>1, <2>1, AloneKeeps
<1>12. CASE CopiesText
  <2>1. UNCHANGED apps /\ UNCHANGED spot /\ clips' \in Clips
    BY <1>12 DEF CopiesText
  <2> QED BY <2>1, AloneKeeps
<1>13. ASSUME spot.rows # <<>>,
              NEW i \in {Below(spot.selected, Len(spot.rows), GridColumns(spot)),
                         Above(spot.selected, Len(spot.rows), GridColumns(spot)),
                         RightOf(spot.selected, Len(spot.rows)),
                         LeftOf(spot.selected, Len(spot.rows))},
              Select(i)
       PROVE  SpotInv'
  <2>1. Len(spot.rows) \in Nat \ {0}
    <3>1. IsRows(spot.rows)
      BY DEF SpotInv
    <3> QED BY <3>1, <1>13, RowsAre, EmptySeq DEF IsRows
  <2>2. spot.selected \in Int /\ GridColumns(spot) \in {1, 2, 4}
    BY <1>1 DEF IsSpot, GridColumns
  <2>3. i \in Int
    BY <2>1, <2>2, ArrowsLead
  <2> QED BY <2>3, <1>13, SelectKeeps
<1>14. CASE UNCHANGED spotVars
  <2>1. UNCHANGED apps /\ UNCHANGED clips /\ UNCHANGED spot
    BY <1>14 DEF spotVars
  <2> QED BY <1>1, <2>1, AloneKeeps
<1> QED
  BY Zenon, <1>2, <1>3, <1>4, <1>5, <1>6, <1>7, <1>8, <1>9, <1>10, <1>11, <1>12, <1>13, <1>14
  DEF SpotNext

LEMMA SpotAgrees ==
  ASSUME SpotInv
  PROVE  RowsFit
BY DEF SpotInv, Fits, RowsFitIn, RowsFit

-----------------------------------------------------------------------------
\* Both launchers, among the programs.

\* A step of the programs is a step of each launcher, or leaves it as it is.
LEMMA LaunchersStep ==
  ASSUME [ProgramsNext]_programVars
  PROVE  [MenuNext]_menuVars /\ [SpotNext]_spotVars
<1>1. ASSUME NEW p \in {"zones", "overlays", "notifications", "tabs", "profiles", "guard",
                        "bootstrap", "trees"}, Alone(p)
      PROVE  UNCHANGED menuVars /\ UNCHANGED spotVars
  <2>1. p # "menu" /\ p # "spotlight"
    OBVIOUS
  <2> QED BY Zenon, <1>1, <2>1 DEF Alone
<1>2. CASE Alone("menu") /\ MenuNext
  BY Zenon, <1>2 DEF Alone
<1>3. CASE Alone("spotlight") /\ SpotNext
  BY Zenon, <1>3 DEF Alone
<1>4. CASE UNCHANGED programVars
  BY Zenon, <1>4 DEF programVars
<1> QED BY Zenon, <1>1, <1>2, <1>3, <1>4 DEF ProgramsNext

\* What either launcher acts on is what it shows (reload and search of the menu, updateResults of
\* Spotlight): the menu's levels are a walk down its tree, and a search of it finds leaves in
\* whose full title or hint the text occurs and no others, all of the first kind, and those of
\* the second whose letters the hint makes worth it; Spotlight's rows belong to the query, the
\* category and the mode it shows, with the selection on one of them.
THEOREM LaunchersActOnWhatIsShown == ProgramsSpec => []LaunchersAgree
<1>1. ProgramsInit => MenuInv /\ SpotInv
  BY Zenon, MenuStarts, SpotStarts DEF ProgramsInit
<1>2. MenuInv /\ SpotInv /\ [ProgramsNext]_programVars => (MenuInv /\ SpotInv)'
  BY Zenon, LaunchersStep, MenuKeeps, SpotKeeps
<1>3. MenuInv /\ SpotInv => LaunchersAgree
  BY Zenon, MenuAgrees, SpotAgrees DEF LaunchersAgree
<1> QED BY <1>1, <1>2, <1>3, PTL DEF ProgramsSpec
=============================================================================
