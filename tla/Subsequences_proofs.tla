------------------------ MODULE Subsequences_proofs -------------------------
(***************************************************************************)
(* What Picked returns, for any sequence and any of its places, and what   *)
(* the proofs need of sequences and of sets of numbers besides.            *)
(***************************************************************************)
EXTENDS Subsequences, SequencesExt, FiniteSetTheorems, SequenceTheorems, WellFoundedInduction,
        TLAPS

\* The place of a position among the positions that are kept.
Rank(P, i) == Cardinality({j \in P : j <= i})

LEMMA RanksAre ==
  ASSUME NEW n \in Nat, NEW P \in SUBSET (1..n)
  PROVE  /\ IsFiniteSet(P) /\ Cardinality(P) \in Nat
         /\ \A i \in P : Rank(P, i) \in 1..Cardinality(P)
         /\ \A i, j \in P : Rank(P, i) = Rank(P, j) => i = j
         /\ \A k \in 1..Cardinality(P) : \E i \in P : Rank(P, i) = k
<1>1. IsFiniteSet(P) /\ Cardinality(P) \in Nat
  <2>1. IsFiniteSet(1..n)
    BY FS_Interval
  <2> QED BY <2>1, FS_Subset, FS_CardinalityType
<1>2. ASSUME NEW i \in P PROVE Rank(P, i) \in 1..Cardinality(P)
  <2>1. PICK U : U = {j \in P : j <= i}
    OBVIOUS
  <2>2. U \in SUBSET P /\ i \in U
    BY <2>1
  <2>3. IsFiniteSet(U) /\ Cardinality(U) \in Nat /\ Cardinality(U) <= Cardinality(P)
    BY <1>1, <2>2, FS_Subset, FS_CardinalityType
  <2>4. Cardinality(U) # 0
    BY <2>2, <2>3, FS_EmptySet
  <2> QED BY <1>1, <2>1, <2>3, <2>4 DEF Rank
<1>3. ASSUME NEW i \in P, NEW j \in P, i < j PROVE Rank(P, i) < Rank(P, j)
  <2>0. \A m \in P : m \in Int
    OBVIOUS
  <2>1. PICK U, V : U = {m \in P : m <= i} /\ V = {m \in P : m <= j}
    OBVIOUS
  <2>2. U \in SUBSET V /\ V \in SUBSET P /\ j \in V /\ j \notin U
    <3>1. \A m \in P : m <= i => m <= j
      BY <1>3, <2>0
    <3>2. j <= j /\ ~ (j <= i)
      BY <1>3, <2>0
    <3> QED BY ONLY <2>1, <3>1, <3>2, j \in P
  <2>3. IsFiniteSet(V) /\ Cardinality(V) \in Nat
    BY <1>1, <2>2, FS_Subset, FS_CardinalityType
  <2>4. IsFiniteSet(U) /\ Cardinality(U) \in Nat /\ Cardinality(U) <= Cardinality(V)
    BY <2>2, <2>3, FS_Subset, FS_CardinalityType
  <2>5. Cardinality(U) # Cardinality(V)
    BY <2>2, <2>3, FS_Subset
  <2> QED BY <2>1, <2>3, <2>4, <2>5 DEF Rank
<1>4. ASSUME NEW i \in P, NEW j \in P, Rank(P, i) = Rank(P, j) PROVE i = j
  <2>1. Rank(P, i) \in Int /\ Rank(P, j) \in Int /\ i \in Int /\ j \in Int
    BY <1>2
  <2>2. ~ (i < j)
    BY <1>3, <1>4, <2>1
  <2>3. ~ (j < i)
    BY <1>3, <1>4, <2>1
  <2> QED BY <2>1, <2>2, <2>3
<1>5. PICK ranks : ranks = [i \in P |-> Rank(P, i)]
  OBVIOUS
<1>6. ranks \in Injection(P, 1..Cardinality(P))
  BY <1>2, <1>4, <1>5 DEF Injection, IsInjective
<1>7. ranks \in Surjection(P, 1..Cardinality(P))
  <2>1. IsFiniteSet(1..Cardinality(P)) /\ Cardinality(1..Cardinality(P)) = Cardinality(P)
    BY <1>1, FS_Interval
  <2> QED BY <1>6, <2>1, FS_Injection
<1>8. \A k \in 1..Cardinality(P) : \E i \in P : Rank(P, i) = k
  BY <1>5, <1>7 DEF Surjection
<1> QED BY <1>1, <1>2, <1>4, <1>8

\* The positions that m elements are picked from.
PickedFrom(s, P, m, at) ==
  /\ at \in [1..m -> P]
  /\ Picked(s, P) = [k \in 1..m |-> s[at[k]]]
  /\ \A i \in P : \E k \in 1..m : at[k] = i
  /\ \A k, l \in 1..m : at[k] = at[l] => k = l

LEMMA PickedAre ==
  ASSUME NEW s, NEW n \in Nat, NEW P \in SUBSET (1..n), NEW m, m = Cardinality(P)
  PROVE  m \in Nat /\ \E at : PickedFrom(s, P, m, at)
<1>1. PICK at : at = [k \in 1..m |-> CHOOSE i \in P : Rank(P, i) = k]
  OBVIOUS
<1>2. /\ \A i \in P : Rank(P, i) \in 1..m
      /\ \A i, j \in P : Rank(P, i) = Rank(P, j) => i = j
      /\ \A k \in 1..m : \E i \in P : Rank(P, i) = k
  BY RanksAre
<1>3. \A k \in 1..m : at[k] \in P /\ Rank(P, at[k]) = k
  BY <1>1, <1>2
<1>4. at \in [1..m -> P]
  BY <1>1, <1>3
<1>5. Picked(s, P) = [k \in 1..m |-> s[at[k]]]
  <2>1. at = [k \in 1..m |-> CHOOSE i \in P : Cardinality({j \in P : j <= i}) = k]
    BY <1>1 DEF Rank
  <2>2. \A k \in 1..m : s[at[k]] = s[CHOOSE i \in P : Cardinality({j \in P : j <= i}) = k]
    BY <2>1
  <2> QED BY <2>2 DEF Picked
<1>6. \A i \in P : \E k \in 1..m : at[k] = i
  BY <1>2, <1>3
<1>7. \A k, l \in 1..m : at[k] = at[l] => k = l
  BY <1>3
<1>8. PickedFrom(s, P, m, at)
  BY <1>4, <1>5, <1>6, <1>7 DEF PickedFrom
<1> QED BY <1>8, RanksAre

LEMMA PickedSeq ==
  ASSUME NEW S, NEW s \in Seq(S), NEW P \in SUBSET (1..Len(s))
  PROVE  /\ Picked(s, P) \in Seq(S)
         /\ \A x : x \in ToSet(Picked(s, P)) <=> \E i \in P : x = s[i]
<1>1. Len(s) \in Nat /\ \A i \in 1..Len(s) : s[i] \in S
  OBVIOUS
<1>2. PICK m : m = Cardinality(P)
  OBVIOUS
<1>3. m \in Nat /\ \E at : PickedFrom(s, P, m, at)
  BY <1>1, <1>2, PickedAre
<1>4. PICK at : at \in [1..m -> P] /\ Picked(s, P) = [k \in 1..m |-> s[at[k]]]
                /\ \A i \in P : \E k \in 1..m : at[k] = i
  BY <1>3 DEF PickedFrom
<1>5. PICK p : p = Picked(s, P)
  OBVIOUS
<1>6. p = [k \in 1..m |-> s[at[k]]] /\ \A k \in 1..m : s[at[k]] \in S
  BY <1>1, <1>4, <1>5
<1>7. p \in Seq(S) /\ DOMAIN p = 1..m
  BY <1>3, <1>6
<1>8. \A x : x \in ToSet(p) <=> \E k \in 1..m : x = p[k]
  BY <1>7 DEF ToSet
<1>9. \A x : x \in ToSet(p) <=> \E i \in P : x = s[i]
  BY <1>4, <1>6, <1>8
<1> QED BY <1>5, <1>7, <1>9

\* A sequence of its own elements.
LEMMA SeqOfElements ==
  ASSUME NEW S, NEW s \in Seq(S)
  PROVE  /\ s \in Seq(ToSet(s)) /\ Len(s) \in Nat /\ DOMAIN s = 1..Len(s)
         /\ \A x : x \in ToSet(s) <=> \E i \in 1..Len(s) : x = s[i]
<1>1. Len(s) \in Nat /\ DOMAIN s = 1..Len(s) /\ s = [i \in 1..Len(s) |-> s[i]]
  OBVIOUS
<1>2. \A x : x \in ToSet(s) <=> \E i \in 1..Len(s) : x = s[i]
  BY <1>1 DEF ToSet
<1>3. \A i \in 1..Len(s) : s[i] \in ToSet(s)
  BY <1>2
<1> QED BY <1>1, <1>2, <1>3

LEMMA LeastNumber ==
  ASSUME NEW T, T \subseteq Nat, T # {}
  PROVE  \E n \in T : \A m \in T : n <= m
<1> DEFINE less == OpToRel(<, Nat)
<1>1. IsWellFoundedOn(less, Nat)
  BY NatLessThanWellFounded
<1>2. \A x, y \in Nat : <<y, x>> \in less <=> y < x
  BY DEF OpToRel
<1> HIDE DEF less
<1>3. PICK n \in T : \A m \in T : ~ (<<m, n>> \in less)
  BY <1>1, WFMin
<1>4. ASSUME NEW m \in T PROVE n <= m
  <2>1. ~ (m < n)
    BY <1>2, <1>3
  <2> QED BY <2>1
<1> QED BY <1>4

LEMMA GreatestNumber ==
  ASSUME NEW N \in Nat, NEW T, T \subseteq 0..N, T # {}
  PROVE  \E n \in T : \A m \in T : m <= n
<1> DEFINE U == {i \in 0..N : N - i \in T}
<1>1. U \subseteq Nat
  OBVIOUS
<1>2. U # {}
  <2>1. PICK t \in T : TRUE
    OBVIOUS
  <2>2. N - t \in 0..N /\ N - (N - t) = t
    OBVIOUS
  <2> QED BY <2>1, <2>2
<1>3. \A t \in T : N - t \in U
  <2>1. SUFFICES ASSUME NEW t \in T PROVE N - t \in U
    OBVIOUS
  <2>2. N - t \in 0..N /\ N - (N - t) = t
    OBVIOUS
  <2> QED BY <2>2
<1>4. \A u \in U : u \in 0..N /\ N - u \in T
  OBVIOUS
<1> HIDE DEF U
<1>5. PICK u \in U : \A m \in U : u <= m
  BY <1>1, <1>2, LeastNumber
<1>6. ASSUME NEW t \in T PROVE t <= N - u
  <2>1. u <= N - t /\ u \in 0..N
    BY <1>3, <1>4, <1>5
  <2> QED BY <2>1
<1> QED BY <1>4, <1>6

\* Induction, for a set of numbers.
LEMMA AllNumbers ==
  ASSUME NEW T, 0 \in T, \A n \in Nat : n \in T => n + 1 \in T
  PROVE  \A n \in Nat : n \in T
<1> SUFFICES ASSUME Nat \ T # {} PROVE FALSE
  OBVIOUS
<1>1. PICK n \in Nat \ T : \A m \in Nat \ T : n <= m
  BY LeastNumber
<1>2. n - 1 \in Nat /\ n = (n - 1) + 1
  BY <1>1
<1>3. n - 1 \in T
  <2>1. ~ (n <= n - 1)
    BY <1>2
  <2> QED BY <1>1, <1>2, <2>1
<1> QED BY <1>1, <1>2, <1>3

\* Sums along a sequence are defined.
Sums(f, first, terms, n) == f = [i \in 0..n |-> IF i = 0 THEN first ELSE f[i - 1] + terms[i]]

LEMMA SumsExist ==
  ASSUME NEW first, NEW terms
  PROVE  \A n \in Nat : \E f : Sums(f, first, terms, n)
<1> DEFINE T == {n \in Nat : \E f : Sums(f, first, terms, n)}
<1>1. 0 \in T
  <2>1. PICK f : f = [i \in 0..0 |-> first]
    OBVIOUS
  <2>2. f = [i \in 0..0 |-> IF i = 0 THEN first ELSE f[i - 1] + terms[i]]
    BY <2>1
  <2> QED BY <2>2 DEF Sums
<1>2. ASSUME NEW n \in Nat, n \in T PROVE n + 1 \in T
  <2>1. PICK f : f = [i \in 0..n |-> IF i = 0 THEN first ELSE f[i - 1] + terms[i]]
    BY <1>2 DEF Sums
  <2>2. PICK g : g = [i \in 0..(n + 1) |-> IF i \in 0..n THEN f[i] ELSE f[n] + terms[i]]
    OBVIOUS
  <2>3. ASSUME NEW i \in 0..(n + 1)
        PROVE  g[i] = IF i = 0 THEN first ELSE g[i - 1] + terms[i]
    <3>1. CASE i = 0
      BY <2>1, <2>2, <3>1
    <3>2. CASE i \in 1..n
      <4>1. i \in 0..n /\ i - 1 \in 0..n /\ i - 1 \in 0..(n + 1) /\ i # 0
        BY <3>2
      <4>2. g[i] = f[i] /\ g[i - 1] = f[i - 1]
        BY <2>2, <4>1
      <4>3. f[i] = f[i - 1] + terms[i]
        BY <2>1, <4>1
      <4> QED BY <4>1, <4>2, <4>3
    <3>3. CASE i = n + 1
      <4>1. i \notin 0..n /\ i - 1 = n /\ n \in 0..n /\ n \in 0..(n + 1) /\ i # 0
        BY <3>3
      <4>2. g[i] = f[n] + terms[i] /\ g[i - 1] = f[n]
        BY <2>2, <4>1
      <4> QED BY <4>1, <4>2
    <3> QED BY <3>1, <3>2, <3>3
  <2>4. g = [i \in 0..(n + 1) |-> IF i = 0 THEN first ELSE g[i - 1] + terms[i]]
    BY <2>2, <2>3
  <2> QED BY <2>4 DEF Sums
<1> HIDE DEF T
<1>3. \A n \in Nat : n \in T
  BY <1>1, <1>2, AllNumbers
<1> QED BY <1>3 DEF T

\* FlattenSeq of the first n of some sequences is defined.
Flattens(f, seqs, n) == f = [i \in 1..n |-> IF i = 1 THEN seqs[i] ELSE f[i - 1] \o seqs[i]]

LEMMA FlattensExist ==
  ASSUME NEW seqs
  PROVE  \A n \in Nat : \E f : Flattens(f, seqs, n)
<1> DEFINE T == {n \in Nat : \E f : Flattens(f, seqs, n)}
<1>1. 0 \in T
  <2>1. PICK f : f = [i \in 1..0 |-> seqs[i]]
    OBVIOUS
  <2>2. f = [i \in 1..0 |-> IF i = 1 THEN seqs[i] ELSE f[i - 1] \o seqs[i]]
    BY <2>1
  <2> QED BY <2>2 DEF Flattens
<1>2. ASSUME NEW n \in Nat, n \in T PROVE n + 1 \in T
  <2>1. PICK f : f = [i \in 1..n |-> IF i = 1 THEN seqs[i] ELSE f[i - 1] \o seqs[i]]
    BY <1>2 DEF Flattens
  <2>2. PICK g : g = [i \in 1..(n + 1) |-> IF i \in 1..n THEN f[i]
                                           ELSE IF i = 1 THEN seqs[i] ELSE f[n] \o seqs[i]]
    OBVIOUS
  <2>3. ASSUME NEW i \in 1..(n + 1)
        PROVE  g[i] = IF i = 1 THEN seqs[i] ELSE g[i - 1] \o seqs[i]
    <3>1. CASE i \in 1..n
      <4>1. i - 1 \in 1..n \/ i = 1
        BY <3>1
      <4>2. g[i] = f[i] /\ (i # 1 => i - 1 \in 1..(n + 1) /\ g[i - 1] = f[i - 1])
        BY <2>2, <3>1, <4>1
      <4> QED BY <2>1, <3>1, <4>2
    <3>2. CASE i = n + 1
      <4>1. i \notin 1..n /\ i - 1 = n /\ (i # 1 => n \in 1..n /\ n \in 1..(n + 1))
        BY <3>2
      <4>2. i # 1 => g[i - 1] = f[n]
        BY <2>2, <4>1
      <4> QED BY <2>2, <4>1, <4>2
    <3> QED BY <3>1, <3>2
  <2>4. g = [i \in 1..(n + 1) |-> IF i = 1 THEN seqs[i] ELSE g[i - 1] \o seqs[i]]
    BY <2>2, <2>3
  <2>5. Flattens(g, seqs, n + 1)
    BY <2>4 DEF Flattens
  <2> QED BY <2>5
<1> HIDE DEF T
<1>3. \A n \in Nat : n \in T
  BY <1>1, <1>2, AllNumbers
<1> QED BY <1>3 DEF T

LEMMA FlattenIs ==
  ASSUME NEW seqs, NEW n \in Nat \ {0}, Len(seqs) = n
  PROVE  \E f : Flattens(f, seqs, n) /\ FlattenSeq(seqs) = f[n]
<1>1. PICK f : f = CHOOSE g : Flattens(g, seqs, n)
  OBVIOUS
<1>2. Flattens(f, seqs, n)
  BY <1>1, FlattensExist
<1>3. FlattenSeq(seqs) = f[n]
  BY <1>1 DEF FlattenSeq, Flattens
<1> QED BY <1>2, <1>3

\* Sequences of the same length whose elements are pairwise related.
Alike(Rel, S, R, x, y) ==
  /\ x \in Seq(S) /\ y \in Seq(R) /\ Len(x) = Len(y)
  /\ \A k \in 1..Len(x) : <<x[k], y[k]>> \in Rel

IsConcat(x, u, p) ==
  /\ Len(p) = Len(x) + Len(u)
  /\ \A k \in 1..Len(p) : p[k] = IF k <= Len(x) THEN x[k] ELSE u[k - Len(x)]

LEMMA ConcatIs ==
  ASSUME NEW S, NEW x \in Seq(S), NEW u \in Seq(S), NEW p, p = x \o u
  PROVE  p \in Seq(S) /\ IsConcat(x, u, p)
<1>1. Len(x) \in Nat /\ Len(u) \in Nat
  OBVIOUS
<1>2. p \in Seq(S) /\ Len(p) = Len(x) + Len(u)
  OBVIOUS
<1>3. ASSUME NEW k \in 1..Len(p) PROVE p[k] = IF k <= Len(x) THEN x[k] ELSE u[k - Len(x)]
  BY <1>1, <1>2
<1> QED BY <1>2, <1>3 DEF IsConcat

LEMMA ConcatAlike ==
  ASSUME NEW Rel, NEW S, NEW R, NEW x, NEW y, NEW u, NEW v,
         Alike(Rel, S, R, x, y), Alike(Rel, S, R, u, v)
  PROVE  Alike(Rel, S, R, x \o u, y \o v)
<1>1. /\ x \in Seq(S) /\ y \in Seq(R) /\ u \in Seq(S) /\ v \in Seq(R)
      /\ Len(x) = Len(y) /\ Len(u) = Len(v) /\ Len(x) \in Nat /\ Len(u) \in Nat
  BY DEF Alike
<1>2. PICK p, q : p = x \o u /\ q = y \o v
  OBVIOUS
<1>3. p \in Seq(S) /\ IsConcat(x, u, p)
  BY <1>1, <1>2, ConcatIs
<1>4. q \in Seq(R) /\ IsConcat(y, v, q)
  BY <1>1, <1>2, ConcatIs
<1>5. ASSUME NEW k \in 1..Len(p) PROVE <<p[k], q[k]>> \in Rel
  <2>1. CASE k <= Len(x)
    <3>1. k \in 1..Len(x) /\ p[k] = x[k] /\ q[k] = y[k]
      BY <1>1, <1>3, <1>4, <2>1 DEF IsConcat
    <3> QED BY <3>1 DEF Alike
  <2>2. CASE ~(k <= Len(x))
    <3>1. k - Len(x) \in 1..Len(u) /\ p[k] = u[k - Len(x)] /\ q[k] = v[k - Len(x)]
      BY <1>1, <1>3, <1>4, <2>2 DEF IsConcat
    <3> QED BY <3>1 DEF Alike
  <2> QED BY <2>1, <2>2
<1>6. Len(p) = Len(q)
  BY <1>1, <1>3, <1>4 DEF IsConcat
<1> QED BY <1>2, <1>3, <1>4, <1>5, <1>6 DEF Alike

\* Flattening what is alike gives what is alike.
LEMMA FlattenAlike ==
  ASSUME NEW Rel, NEW S, NEW R, NEW a, NEW b, NEW n \in Nat, Len(a) = n, Len(b) = n,
         n = 0 => a = <<>> /\ b = <<>>,
         \A i \in 1..n : Alike(Rel, S, R, a[i], b[i])
  PROVE  Alike(Rel, S, R, FlattenSeq(a), FlattenSeq(b))
<1>1. CASE n = 0
  <2>1. FlattenSeq(a) = <<>> /\ FlattenSeq(b) = <<>>
    BY <1>1 DEF FlattenSeq
  <2>2. Alike(Rel, S, R, <<>>, <<>>)
    BY DEF Alike
  <2> QED BY <2>1, <2>2
<1>2. CASE n # 0
  <2>1. PICK f : Flattens(f, a, n) /\ FlattenSeq(a) = f[n]
    BY <1>2, FlattenIs
  <2>2. PICK g : Flattens(g, b, n) /\ FlattenSeq(b) = g[n]
    BY <1>2, FlattenIs
  <2>3. PICK T : T = {m \in Nat : m \in 1..n => Alike(Rel, S, R, f[m], g[m])}
    OBVIOUS
  <2>4. 0 \in T
    BY <2>3
  <2>5. ASSUME NEW m \in Nat, m \in T PROVE m + 1 \in T
    <3> SUFFICES ASSUME m + 1 \in 1..n PROVE Alike(Rel, S, R, f[m + 1], g[m + 1])
      BY <2>3
    <3>1. Alike(Rel, S, R, a[m + 1], b[m + 1])
      OBVIOUS
    <3>2. CASE m = 0
      BY <2>1, <2>2, <3>1, <3>2 DEF Flattens
    <3>3. CASE m # 0
      <4>1. (m + 1) - 1 = m /\ m \in 1..n /\ m + 1 # 1
        BY <3>3
      <4>2. f[m + 1] = f[m] \o a[m + 1] /\ g[m + 1] = g[m] \o b[m + 1]
        BY <2>1, <2>2, <4>1 DEF Flattens
      <4>3. Alike(Rel, S, R, f[m], g[m])
        BY <2>3, <2>5, <4>1
      <4>4. Alike(Rel, S, R, f[m] \o a[m + 1], g[m] \o b[m + 1])
        BY <3>1, <4>3, ConcatAlike
      <4> QED BY <4>2, <4>4
    <3> QED BY <3>2, <3>3
  <2>6. n \in T
    BY <2>4, <2>5, AllNumbers
  <2>7. n \in 1..n
    BY <1>2
  <2> QED BY <2>1, <2>2, <2>3, <2>6, <2>7
<1> QED BY <1>1, <1>2

\* Flattening sequences of one element gives the elements.
LEMMA FlattenSingles ==
  ASSUME NEW S, NEW s \in Seq(S)
  PROVE  FlattenSeq([i \in DOMAIN s |-> <<s[i]>>]) = s
<1>1. PICK n, a : n = Len(s) /\ a = [i \in DOMAIN s |-> <<s[i]>>]
  OBVIOUS
<1>2. n \in Nat /\ DOMAIN s = 1..n /\ a = [i \in 1..n |-> <<s[i]>>] /\ \A i \in 1..n : s[i] \in S
  BY <1>1
<1>3. Len(a) = n
  BY <1>2
<1>4. CASE n = 0
  <2>1. a = <<>> /\ s = <<>>
    BY <1>1, <1>2, <1>4
  <2> QED BY <1>1, <2>1 DEF FlattenSeq
<1>5. CASE n # 0
  <2>1. PICK f : Flattens(f, a, n) /\ FlattenSeq(a) = f[n]
    BY <1>2, <1>3, <1>5, FlattenIs
  <2> DEFINE Begins(x, m) == x \in Seq(S) /\ Len(x) = m /\ \A k \in 1..m : x[k] = s[k]
  <2>3. PICK T : T = {m \in Nat : m \in 1..n => Begins(f[m], m)}
    OBVIOUS
  <2>4. 0 \in T
    BY <2>3
  <2>5. ASSUME NEW m \in Nat, m \in T PROVE m + 1 \in T
    <3> SUFFICES ASSUME m + 1 \in 1..n PROVE Begins(f[m + 1], m + 1)
      BY <2>3
    <3>1. a[m + 1] = <<s[m + 1]>> /\ s[m + 1] \in S
      BY <1>2
    <3>2. CASE m = 0
      <4>1. f[m + 1] = <<s[1]>> /\ s[1] \in S
        BY <2>1, <3>1, <3>2 DEF Flattens
      <4> QED BY <3>2, <4>1
    <3>3. CASE m # 0
      <4>1. (m + 1) - 1 = m /\ m \in 1..n /\ m + 1 # 1
        BY <1>2, <3>3
      <4>2. f[m + 1] = f[m] \o <<s[m + 1]>>
        BY <2>1, <3>1, <4>1 DEF Flattens
      <4>3. Begins(f[m], m)
        BY <2>3, <2>5, <4>1
      <4>4. PICK x, y : x = f[m] /\ y = f[m + 1]
        OBVIOUS
      <4>5. Begins(y, m + 1)
        <5>1. y = x \o <<s[m + 1]>> /\ x \in Seq(S) /\ Len(x) = m /\ \A k \in 1..m : x[k] = s[k]
          BY <4>2, <4>3, <4>4
        <5>2. y \in Seq(S) /\ Len(y) = m + 1
          BY <3>1, <5>1
        <5>3. ASSUME NEW k \in 1..(m + 1) PROVE y[k] = s[k]
          <6>1. y[k] = IF k <= m THEN x[k] ELSE <<s[m + 1]>>[k - m]
            BY <3>1, <5>1
          <6>2. k <= m => k \in 1..m
            OBVIOUS
          <6> QED BY <5>1, <6>1, <6>2
        <5> QED BY <5>2, <5>3
      <4> QED BY <4>4, <4>5
    <3> QED BY <3>2, <3>3
  <2> HIDE DEF Begins
  <2>6. n \in T
    BY <1>2, <2>4, <2>5, AllNumbers
  <2>7. n \in 1..n
    BY <1>2, <1>5
  <2>8. Begins(f[n], n)
    BY <2>3, <2>6, <2>7
  <2>9. PICK x : x = f[n]
    OBVIOUS
  <2>10. x \in Seq(S) /\ Len(x) = n /\ \A k \in 1..n : x[k] = s[k]
    BY <2>8, <2>9 DEF Begins
  <2>11. x = s
    BY <1>1, <1>2, <2>10
  <2> QED BY <1>1, <2>1, <2>9, <2>11
<1> QED BY <1>4, <1>5
=============================================================================
