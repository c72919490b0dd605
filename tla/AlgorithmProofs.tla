--------------------------- MODULE AlgorithmProofs ---------------------------
(***************************************************************************)
(* Theorems about the pure algorithms: chunking, searching and listing,    *)
(* the figures and the answer stream.                                      *)
(***************************************************************************)
EXTENDS Chunking, Figures, Frames, FiniteSetTheorems, SequenceTheorems, TLAPS

-----------------------------------------------------------------------------
(* Orders.  ahead[x] are the elements in front of x in a strict order.     *)

StrictOrder(S, ahead) ==
  /\ ahead \in [S -> SUBSET S]
  /\ \A x \in S : x \notin ahead[x]
  /\ \A x, y \in S : y \in ahead[x] => ahead[y] \subseteq ahead[x]
  /\ \A x, y \in S : x # y => x \in ahead[y] \/ y \in ahead[x]

\* s has at each place the element of that rank.
ByRank(S, ahead, s) ==
  /\ s \in [1 .. Cardinality(S) -> S]
  /\ \A k \in 1 .. Cardinality(S) : Cardinality(ahead[s[k]]) = k - 1

\* s lists S in the order, each element once.
InOrder(S, ahead, s) ==
  /\ s \in [1 .. Cardinality(S) -> S]
  /\ \A i, j \in 1 .. Cardinality(S) : i < j => s[i] \in ahead[s[j]] /\ s[i] # s[j]
  /\ \A x \in S : \E k \in 1 .. Cardinality(S) : s[k] = x

\* The rank of an element grows along the order.
LEMMA RankGrows ==
  ASSUME NEW S, IsFiniteSet(S), NEW ahead, StrictOrder(S, ahead)
  PROVE  /\ \A x \in S : Cardinality(ahead[x]) \in 0 .. Cardinality(S) - 1
         /\ \A x, y \in S : x \in ahead[y] => Cardinality(ahead[x]) < Cardinality(ahead[y])
<1>1. Cardinality(S) \in Nat
  BY FS_CardinalityType
<1>2. ASSUME NEW x \in S
      PROVE  IsFiniteSet(ahead[x]) /\ Cardinality(ahead[x]) \in 0 .. Cardinality(S) - 1
  <2>1. ahead[x] \in SUBSET S /\ ahead[x] # S
    BY DEF StrictOrder
  <2>2. IsFiniteSet(ahead[x]) /\ Cardinality(ahead[x]) <= Cardinality(S)
    BY <2>1, FS_Subset
  <2>3. Cardinality(ahead[x]) # Cardinality(S)
    BY <2>1, FS_Subset
  <2>4. Cardinality(ahead[x]) \in Nat
    BY <2>2, FS_CardinalityType
  <2> QED
    BY <1>1, <2>2, <2>3, <2>4
<1>3. ASSUME NEW x \in S, NEW y \in S, x \in ahead[y]
      PROVE  Cardinality(ahead[x]) < Cardinality(ahead[y])
  <2>1. ahead[x] \in SUBSET ahead[y] /\ ahead[x] # ahead[y]
    BY <1>3 DEF StrictOrder
  <2>2. Cardinality(ahead[x]) <= Cardinality(ahead[y])
    BY <1>2, <2>1, FS_Subset
  <2>3. Cardinality(ahead[x]) # Cardinality(ahead[y])
    BY <1>2, <2>1, FS_Subset
  <2> QED
    BY <1>2, <2>2, <2>3
<1> QED
  BY <1>2, <1>3

\* Every rank below the number of elements is taken.
LEMMA RankIsTaken ==
  ASSUME NEW S, IsFiniteSet(S), NEW ahead, StrictOrder(S, ahead),
         NEW k \in 1 .. Cardinality(S)
  PROVE  \E x \in S : Cardinality(ahead[x]) = k - 1
<1> DEFINE n == Cardinality(S)
           rank == [x \in S |-> Cardinality(ahead[x])]
<1>1. n \in Nat
  BY FS_CardinalityType
<1>2. rank \in [S -> 0 .. n - 1]
  BY RankGrows
<1>3. \A x, y \in S : x # y => rank[x] # rank[y]
  <2>1. SUFFICES ASSUME NEW x \in S, NEW y \in S, x # y PROVE rank[x] # rank[y]
    OBVIOUS
  <2>2. x \in ahead[y] \/ y \in ahead[x]
    BY <2>1 DEF StrictOrder
  <2>3. rank[x] < rank[y] \/ rank[y] < rank[x]
    BY <2>2, RankGrows
  <2> QED
    BY <1>2, <2>3
<1>4. rank \in Injection(S, 0 .. n - 1)
  BY <1>2, <1>3 DEF Injection, IsInjective
<1>5. IsFiniteSet(0 .. n - 1) /\ Cardinality(0 .. n - 1) = n
  <2> HIDE DEF n
  <2>1. 0 \in Int /\ n - 1 \in Int
    BY <1>1
  <2>2. IsFiniteSet(0 .. n - 1)
        /\ Cardinality(0 .. n - 1) = IF 0 > n - 1 THEN 0 ELSE n - 1 - 0 + 1
    BY ONLY <2>1, FS_Interval
  <2> QED
    BY <1>1, <2>2
<1>6. rank \in Surjection(S, 0 .. n - 1)
  BY <1>4, <1>5, FS_Injection
<1>7. k - 1 \in 0 .. n - 1
  BY <1>1
<1>8. PICK x \in S : rank[x] = k - 1
  BY <1>6, <1>7 DEF Surjection
<1> QED
  BY <1>8

\* A list by rank is in order.
LEMMA RanksInOrder ==
  ASSUME NEW S, IsFiniteSet(S), NEW ahead, StrictOrder(S, ahead),
         NEW s, ByRank(S, ahead, s)
  PROVE  InOrder(S, ahead, s)
<1> USE DEF ByRank, InOrder
<1>1. Cardinality(S) \in Nat
  BY FS_CardinalityType
<1>2. ASSUME NEW i \in 1 .. Cardinality(S), NEW j \in 1 .. Cardinality(S), i < j
      PROVE  s[i] \in ahead[s[j]] /\ s[i] # s[j]
  <2>1. i \in Nat /\ j \in Nat
    BY <1>1
  <2>2. s[i] # s[j]
    BY <1>2, <2>1
  <2>3. s[i] \in ahead[s[j]] \/ s[j] \in ahead[s[i]]
    BY <2>2 DEF StrictOrder
  <2>4. s[j] \notin ahead[s[i]]
    BY <1>2, <2>1, RankGrows
  <2> QED
    BY <2>2, <2>3, <2>4
<1>3. ASSUME NEW x \in S PROVE \E k \in 1 .. Cardinality(S) : s[k] = x
  <2> DEFINE k == Cardinality(ahead[x]) + 1
  <2>1. k \in 1 .. Cardinality(S)
    BY <1>1, RankGrows
  <2>2. Cardinality(ahead[s[k]]) = Cardinality(ahead[x]) /\ s[k] \in S
    BY <1>1, <2>1, RankGrows
  <2>3. s[k] = x
    <3>1. SUFFICES ASSUME s[k] # x PROVE FALSE
      OBVIOUS
    <3>2. s[k] \in ahead[x] \/ x \in ahead[s[k]]
      BY <2>2, <3>1 DEF StrictOrder
    <3>3. Cardinality(ahead[x]) \in Nat
      BY <1>1, RankGrows
    <3> HIDE DEF k
    <3> QED
      BY <2>2, <3>2, <3>3, RankGrows
  <2> QED
    BY <2>1, <2>3
<1> QED
  BY <1>2, <1>3

\* at lists the numbers in D by size.
Listing(D, at) ==
  /\ at \in [1 .. Cardinality(D) -> D]
  /\ \A i, j \in 1 .. Cardinality(D) : i < j => at[i] < at[j]
  /\ \A x \in D : \E k \in 1 .. Cardinality(D) : at[k] = x

\* Numbers are sorted by size.
LEMMA SortedLists ==
  ASSUME NEW D \in SUBSET Int, IsFiniteSet(D)
  PROVE  Listing(D, Sorted(D, <))
<1> DEFINE ahead == [x \in D |-> {y \in D : y < x}]
           at == Sorted(D, <)
<1>1. StrictOrder(D, ahead)
  <2>1. ahead \in [D -> SUBSET D]
    OBVIOUS
  <2>2. \A x \in D : x \notin ahead[x]
    OBVIOUS
  <2>3. ASSUME NEW x \in D, NEW y \in ahead[x], NEW z \in ahead[y] PROVE z \in ahead[x]
    <3>1. y \in D /\ y < x
      BY <2>3
    <3>2. z \in D /\ z < y
      BY <2>3, <3>1
    <3> QED
      BY <3>1, <3>2
  <2>4. \A x, y \in D : x # y => x \in ahead[y] \/ y \in ahead[x]
    OBVIOUS
  <2> QED
    BY <2>1, <2>2, <2>3, <2>4 DEF StrictOrder
<1>2. \A k \in 1 .. Cardinality(D) : \E x \in D : Cardinality({y \in D : y < x}) = k - 1
  <2>1. \A x \in D : ahead[x] = {y \in D : y < x}
    OBVIOUS
  <2> HIDE DEF ahead
  <2> TAKE k \in 1 .. Cardinality(D)
  <2>2. PICK x \in D : Cardinality(ahead[x]) = k - 1
    BY <1>1, RankIsTaken
  <2>3. Cardinality({y \in D : y < x}) = k - 1
    BY <2>1, <2>2
  <2> QED
    BY <2>3
<1>3. at = [k \in 1 .. Cardinality(D) |->
              CHOOSE x \in D : Cardinality({y \in D : y < x}) = k - 1]
  BY DEF Sorted
<1>4. \A k \in 1 .. Cardinality(D) : Cardinality(ahead[at[k]]) = k - 1
  BY <1>2, <1>3
<1>5. DOMAIN at = 1 .. Cardinality(D) /\ at \in [1 .. Cardinality(D) -> D]
  BY <1>2, <1>3
<1>6. /\ \A i, j \in 1 .. Cardinality(D) : i < j => at[i] \in ahead[at[j]]
      /\ \A x \in D : \E k \in 1 .. Cardinality(D) : at[k] = x
  <2> HIDE DEF ahead, at
  <2>1. ByRank(D, ahead, at)
    BY <1>4, <1>5 DEF ByRank
  <2>2. InOrder(D, ahead, at)
    BY <1>1, <2>1, RanksInOrder
  <2> QED
    BY <2>2 DEF InOrder
<1> QED
  BY <1>5, <1>6 DEF Listing

\* Places of a sequence in their own order.
LEMMA KeepInOrder ==
  ASSUME NEW s, NEW D \in SUBSET Nat, IsFiniteSet(D)
  PROVE  \E at : Listing(D, at) /\ Keep(s, D) = [k \in 1 .. Cardinality(D) |-> s[at[k]]]
<1>1. Listing(D, Sorted(D, <))
  <2>1. D \in SUBSET Int
    OBVIOUS
  <2> QED
    BY <2>1, SortedLists
<1>2. DOMAIN Sorted(D, <) = 1 .. Cardinality(D)
  BY DEF Sorted
<1>3. Keep(s, D) = [k \in 1 .. Cardinality(D) |-> s[Sorted(D, <)[k]]]
  BY <1>2 DEF Keep, Ranked
<1> QED
  BY <1>1, <1>3

-----------------------------------------------------------------------------
(* Sequences put together.                                                 *)

\* A set of numbers has a least one.
LEMMA LeastNumber ==
  ASSUME NEW T \in SUBSET Nat, T # {}
  PROVE  \E m \in T : \A k \in Nat : k < m => k \notin T
<1>1. IsWellFoundedOn(OpToRel(<, Nat), Nat)
  BY NatLessThanWellFounded
<1> DEFINE R == OpToRel(<, Nat)
<1>2. \A x, y \in Nat : <<y, x>> \in R <=> y < x
  BY DEF OpToRel
<1> HIDE DEF R
<1>3. PICK m \in T : \A k \in T : <<k, m>> \notin R
  BY <1>1, WFMin DEF R
<1> QED
  BY <1>2, <1>3

\* A function on the first numbers is a sequence.
LEMMA FunctionIsSeq ==
  ASSUME NEW X, NEW n \in Nat, NEW f \in [1 .. n -> X]
  PROVE  f \in Seq(X) /\ Len(f) = n
<1>1. f \in Seq(X)
  BY SeqDef
<1> QED
  BY <1>1

\* x is an element of s.
Has(s, x) == \E k \in 1 .. Len(s) : s[k] = x

\* A joined sequence holds what its parts hold.
LEMMA HasConcat ==
  ASSUME NEW X, NEW s \in Seq(X), NEW t \in Seq(X), NEW x
  PROVE  Has(s \o t, x) <=> Has(s, x) \/ Has(t, x)
<1>1. ASSUME NEW k \in 1 .. Len(s), s[k] = x PROVE Has(s \o t, x)
  <2>1. k \in 1 .. Len(s \o t) /\ (s \o t)[k] = x
    BY <1>1
  <2> QED
    BY <2>1 DEF Has
<1>2. ASSUME NEW k \in 1 .. Len(t), t[k] = x PROVE Has(s \o t, x)
  <2>1. Len(s) + k \in 1 .. Len(s \o t) /\ (s \o t)[Len(s) + k] = x
    BY <1>2
  <2> QED
    BY <2>1 DEF Has
<1>3. ASSUME NEW k \in 1 .. Len(s \o t), (s \o t)[k] = x PROVE Has(s, x) \/ Has(t, x)
  <2>1. CASE k <= Len(s)
    BY <1>3, <2>1 DEF Has
  <2>2. CASE k > Len(s)
    <3>1. k - Len(s) \in 1 .. Len(t) /\ t[k - Len(s)] = x
      BY <1>3, <2>2
    <3> QED
      BY <3>1 DEF Has
  <2> QED
    BY <2>1, <2>2
<1> QED
  BY <1>1, <1>2, <1>3 DEF Has

\* The partial results of joining sequences one by one.
Joins(seqs, n, X, f) ==
  /\ f \in [1 .. n -> Seq(X)]
  /\ \A i \in 1 .. n : f[i] = IF i = 1 THEN seqs[i] ELSE f[i - 1] \o seqs[i]

\* The parts of a sequence of sequences can be joined one by one.
LEMMA JoinsExist ==
  ASSUME NEW X, NEW seqs \in Seq(Seq(X)), NEW n \in 1 .. Len(seqs)
  PROVE  \E f : Joins(seqs, n, X, f)
<1> DEFINE T == {m \in 1 .. Len(seqs) : ~ \E f : Joins(seqs, m, X, f)}
<1>1. SUFFICES ASSUME T # {} PROVE FALSE
  OBVIOUS
<1>2. PICK m \in T : \A k \in Nat : k < m => k \notin T
  <2>1. T \in SUBSET Nat
    OBVIOUS
  <2> HIDE DEF T
  <2> QED
    BY <1>1, <2>1, LeastNumber
<1>3. m \in 1 .. Len(seqs) /\ seqs[m] \in Seq(X)
  OBVIOUS
<1>4. CASE m = 1
  <2>1. Joins(seqs, m, X, [i \in 1 .. m |-> seqs[i]])
    BY <1>3, <1>4 DEF Joins
  <2> QED
    BY <2>1
<1>5. CASE m # 1
  <2>1. m - 1 \in 1 .. Len(seqs) /\ m - 1 \in Nat /\ m - 1 < m
    BY <1>3, <1>5
  <2>9. m - 1 \notin T
    <3> HIDE DEF T
    <3> QED
      BY <1>2, <2>1
  <2>2. PICK f : Joins(seqs, m - 1, X, f)
    BY <2>1, <2>9
  <2> DEFINE g == [i \in 1 .. m |-> IF i = m THEN f[m - 1] \o seqs[m] ELSE f[i]]
  <2>3. m - 1 \in 1 .. m - 1 /\ f[m - 1] \in Seq(X)
    BY <2>1, <2>2 DEF Joins
  <2>4. f[m - 1] \o seqs[m] \in Seq(X)
    BY <1>3, <2>3
  <2>5. \A i \in 1 .. m : i # m => i \in 1 .. m - 1 /\ (i # 1 => i - 1 \in 1 .. m - 1 /\ i - 1 # m)
    BY <1>3, <2>1
  <2>6. g \in [1 .. m -> Seq(X)]
    BY <2>2, <2>4, <2>5 DEF Joins
  <2>7. ASSUME NEW i \in 1 .. m
        PROVE  g[i] = IF i = 1 THEN seqs[i] ELSE g[i - 1] \o seqs[i]
    <3>1. CASE i = m
      <4>2. m \in 1 .. m /\ m - 1 \in 1 .. m /\ m - 1 # m
        BY <1>3, <2>1
      <4>1. g[m] = f[m - 1] \o seqs[m] /\ g[m - 1] = f[m - 1]
        BY <4>2
      <4> QED
        BY <1>5, <3>1, <4>1
    <3>2. CASE i # m
      <4>1. g[i] = f[i] /\ (i # 1 => g[i - 1] = f[i - 1])
        BY <2>5, <3>2
      <4>2. f[i] = IF i = 1 THEN seqs[i] ELSE f[i - 1] \o seqs[i]
        BY <2>2, <2>5, <3>2 DEF Joins
      <4> QED
        BY <4>1, <4>2
    <3> QED
      BY <3>1, <3>2
  <2>8. Joins(seqs, m, X, g)
    BY <2>6, <2>7 DEF Joins
  <2> QED
    BY <2>8
<1> QED
  BY <1>4, <1>5

\* Joined sequences are a sequence, of the elements of the sequences.
LEMMA FlattenSeqContents ==
  ASSUME NEW X, NEW seqs \in Seq(Seq(X))
  PROVE  /\ FlattenSeq(seqs) \in Seq(X)
         /\ \A x : Has(FlattenSeq(seqs), x) <=> \E i \in 1 .. Len(seqs) : Has(seqs[i], x)
<1> DEFINE n == Len(seqs)
<1>1. CASE n = 0
  <2>1. FlattenSeq(seqs) = seqs /\ seqs = <<>>
    BY <1>1 DEF FlattenSeq
  <2> QED
    BY <2>1 DEF Has
<1>2. CASE n # 0
  <2> DEFINE Step(f) == [i \in 1 .. n |-> IF i = 1 THEN seqs[i] ELSE f[i - 1] \o seqs[i]]
             f == CHOOSE f : f = Step(f)
             Fine(m) == /\ f[m] \in Seq(X)
                        /\ \A x : Has(f[m], x) <=> \E i \in 1 .. m : Has(seqs[i], x)
             T == {m \in 1 .. n : ~ Fine(m)}
  <2>1. n \in 1 .. Len(seqs) /\ n \in Nat
    BY <1>2
  <2>2. PICK g : Joins(seqs, n, X, g)
    BY <2>1, JoinsExist
  <2>3. g = Step(g)
    BY <2>2 DEF Joins
  <2>4. f = Step(f)
    BY <2>3
  <2>5. FlattenSeq(seqs) = f[n]
    BY <1>2 DEF FlattenSeq
  <2> HIDE DEF f
  <2>6. T = {}
    <3>1. SUFFICES ASSUME T # {} PROVE FALSE
      OBVIOUS
    <3>2. T \in SUBSET Nat
      OBVIOUS
    <3>3. PICK m \in T : \A k \in Nat : k < m => k \notin T
      <4> HIDE DEF T
      <4> QED
        BY <3>1, <3>2, LeastNumber
    <3>4. m \in 1 .. n /\ seqs[m] \in Seq(X) /\ ~ Fine(m)
      OBVIOUS
    <3>5. CASE m = 1
      <4>1. f[m] = seqs[m]
        BY <2>4, <3>4, <3>5
      <4>2. \A i \in 1 .. m : i = m
        BY <3>5
      <4>3. m \in 1 .. m
        BY <3>5
      <4>4. Fine(m)
        BY <3>4, <4>1, <4>2, <4>3
      <4> QED
        BY <3>4, <4>4
    <3>6. CASE m # 1
      <4>1. m - 1 \in 1 .. n /\ m - 1 \in Nat /\ m - 1 < m
        BY <3>4, <3>6
      <4>2. m - 1 \notin T
        <5> HIDE DEF T
        <5> QED
          BY <3>3, <4>1
      <4>3. Fine(m - 1)
        <5> HIDE DEF Fine
        <5> QED
          BY <4>1, <4>2
      <4>4. f[m] = f[m - 1] \o seqs[m]
        BY <2>4, <3>4, <3>6
      <4>5. f[m] \in Seq(X)
        BY <3>4, <4>3, <4>4
      <4>6. ASSUME NEW x PROVE Has(f[m], x) <=> \E i \in 1 .. m : Has(seqs[i], x)
        <5>1. Has(f[m], x) <=> Has(f[m - 1], x) \/ Has(seqs[m], x)
          BY <3>4, <4>3, <4>4, HasConcat
        <5>2. Has(f[m - 1], x) <=> \E i \in 1 .. m - 1 : Has(seqs[i], x)
          BY <4>3
        <5>3. \A i : i \in 1 .. m <=> i \in 1 .. m - 1 \/ i = m
          BY <3>4
        <5> QED
          BY <5>1, <5>2, <5>3
      <4> QED
        BY <3>4, <4>5, <4>6
    <3> QED
      BY <3>5, <3>6
  <2>7. Fine(n)
    <3> HIDE DEF Fine
    <3> QED
      BY <2>1, <2>6
  <2> QED
    BY <2>5, <2>7
<1> QED
  BY <1>1, <1>2

\* The sequences that joining goes through: f[i] joins the first i parts.
Steps(seqs, X, f) ==
  /\ f \in [0 .. Len(seqs) -> Seq(X)]
  /\ f[0] = <<>>
  /\ \A i \in 1 .. Len(seqs) : f[i] = f[i - 1] \o seqs[i]

\* One of them: u and v joined are w.
Joined(w, u, v, X) ==
  /\ w = u \o v /\ w \in Seq(X) /\ u \in Seq(X) /\ v \in Seq(X)
  /\ Len(u) \in Nat /\ Len(v) \in Nat /\ Len(w) = Len(u) + Len(v)
  /\ \A j \in 1 .. Len(u) : w[j] = u[j]
  /\ \A j \in 1 .. Len(v) : w[Len(u) + j] = v[j]

\* Each of them is a sequence.
LEMMA StepsTyped ==
  ASSUME NEW X, NEW seqs \in Seq(Seq(X)), NEW f, Steps(seqs, X, f)
  PROVE  /\ Len(seqs) \in Nat
         /\ \A i \in 0 .. Len(seqs) : f[i] \in Seq(X) /\ Len(f[i]) \in Nat
         /\ \A i \in 1 .. Len(seqs) : /\ i \in 0 .. Len(seqs) /\ i - 1 \in 0 .. Len(seqs)
                                      /\ Joined(f[i], f[i - 1], seqs[i], X)
<1>1. Len(seqs) \in Nat
  OBVIOUS
<1>2. ASSUME NEW i \in 0 .. Len(seqs) PROVE f[i] \in Seq(X) /\ Len(f[i]) \in Nat
  <2>1. f[i] \in Seq(X)
    BY DEF Steps
  <2> QED
    BY <2>1, LenProperties
<1>3. ASSUME NEW i \in 1 .. Len(seqs)
      PROVE  /\ i \in 0 .. Len(seqs) /\ i - 1 \in 0 .. Len(seqs)
             /\ Joined(f[i], f[i - 1], seqs[i], X)
  <2>1. i \in 0 .. Len(seqs) /\ i - 1 \in 0 .. Len(seqs)
    BY <1>1
  <2>2. PICK u : u = f[i - 1]
    OBVIOUS
  <2>3. PICK v : v = seqs[i]
    OBVIOUS
  <2>4. u \in Seq(X) /\ v \in Seq(X) /\ f[i] = u \o v
    <3>1. u \in Seq(X)
      BY <1>2, <2>1, <2>2
    <3>2. v \in Seq(X)
      BY <2>3
    <3>3. f[i] = f[i - 1] \o seqs[i]
      BY DEF Steps
    <3> QED
      BY <2>2, <2>3, <3>1, <3>2, <3>3
  <2>5. Len(u) \in Nat /\ Len(v) \in Nat
    BY <2>4, LenProperties
  <2>6. /\ Len(u \o v) = Len(u) + Len(v)
        /\ \A j \in 1 .. Len(u) + Len(v) :
             (u \o v)[j] = IF j <= Len(u) THEN u[j] ELSE v[j - Len(u)]
    BY ONLY <2>4, ConcatProperties
  <2>7. \A j \in 1 .. Len(u) : (u \o v)[j] = u[j]
    BY <2>5, <2>6
  <2>8. ASSUME NEW j \in 1 .. Len(v) PROVE (u \o v)[Len(u) + j] = v[j]
    <3>1. Len(u) + j \in 1 .. Len(u) + Len(v) /\ ~ Len(u) + j <= Len(u)
      BY <2>5
    <3>2. (Len(u) + j) - Len(u) = j
      BY <2>5
    <3> QED
      BY <2>6, <3>1, <3>2
  <2>9. f[i] \in Seq(X)
    BY <1>2, <2>1
  <2> QED
    BY <2>1, <2>2, <2>3, <2>4, <2>5, <2>6, <2>7, <2>8, <2>9 DEF Joined
<1> QED
  BY <1>1, <1>2, <1>3

\* Joining depends on nothing but the parts joined.
LEMMA StepsAgree ==
  ASSUME NEW X, NEW s \in Seq(Seq(X)), NEW t \in Seq(Seq(X)),
         NEW f, NEW g, Steps(s, X, f), Steps(t, X, g),
         NEW n \in Nat, n <= Len(s), n <= Len(t), \A i \in 1 .. n : s[i] = t[i]
  PROVE  f[n] = g[n]
<1> DEFINE T == {m \in 0 .. n : f[m] # g[m]}
<1>1. SUFFICES ASSUME T # {} PROVE FALSE
  <2>1. n \in 0 .. n
    OBVIOUS
  <2> QED
    BY <2>1
<1>2. PICK m \in T : \A k \in Nat : k < m => k \notin T
  <2>1. T \in SUBSET Nat
    OBVIOUS
  <2> HIDE DEF T
  <2> QED
    BY <1>1, <2>1, LeastNumber
<1>3. m \in 0 .. n /\ f[m] # g[m]
  OBVIOUS
<1>4. m # 0
  BY <1>3 DEF Steps
<1>5. m \in 1 .. n /\ m - 1 \in 0 .. n /\ m - 1 \in Nat /\ m - 1 < m
  BY <1>3, <1>4
<1>6. f[m - 1] = g[m - 1]
  BY <1>2, <1>5
<1>7. m \in 1 .. Len(s) /\ m \in 1 .. Len(t)
  BY <1>5
<1>8. f[m] = f[m - 1] \o s[m] /\ g[m] = g[m - 1] \o t[m]
  BY <1>7 DEF Steps
<1> QED
  BY <1>3, <1>5, <1>6, <1>8

\* Any sequence of sequences is joined in steps, and the last one is the result.
LEMMA FlattenSeqSteps ==
  ASSUME NEW X, NEW seqs \in Seq(Seq(X))
  PROVE  \E f : Steps(seqs, X, f) /\ FlattenSeq(seqs) = f[Len(seqs)]
<1> DEFINE n == Len(seqs)
<1>1. CASE n = 0
  <2>1. FlattenSeq(seqs) = <<>>
    BY <1>1 DEF FlattenSeq
  <2>2. Steps(seqs, X, [i \in 0 .. 0 |-> <<>>])
    BY <1>1 DEF Steps
  <2> QED
    BY <1>1, <2>1, <2>2
<1>2. CASE n # 0
  <2> DEFINE Step(f) == [i \in 1 .. n |-> IF i = 1 THEN seqs[i] ELSE f[i - 1] \o seqs[i]]
             f == CHOOSE f : f = Step(f)
             h == [i \in 0 .. n |-> IF i = 0 THEN <<>> ELSE f[i]]
             T == {m \in 1 .. n : f[m] \notin Seq(X)}
  <2>1. n \in 1 .. Len(seqs) /\ n \in Nat
    BY <1>2
  <2>2. PICK g : Joins(seqs, n, X, g)
    BY <2>1, JoinsExist
  <2>3. g = Step(g)
    BY <2>2 DEF Joins
  <2>4. f = Step(f)
    BY <2>3
  <2>5. FlattenSeq(seqs) = f[n]
    BY <1>2 DEF FlattenSeq
  <2> HIDE DEF f
  <2>6. \A i \in 1 .. n : f[i] = IF i = 1 THEN seqs[i] ELSE f[i - 1] \o seqs[i]
    BY <2>4
  <2>7. T = {}
    <3>1. SUFFICES ASSUME T # {} PROVE FALSE
      OBVIOUS
    <3>2. PICK m \in T : \A k \in Nat : k < m => k \notin T
      <4>1. T \in SUBSET Nat
        OBVIOUS
      <4> HIDE DEF T
      <4> QED
        BY <3>1, <4>1, LeastNumber
    <3>3. m \in 1 .. n /\ f[m] \notin Seq(X) /\ seqs[m] \in Seq(X)
      OBVIOUS
    <3>4. m # 1
      BY <2>6, <3>3
    <3>5. m - 1 \in 1 .. n /\ m - 1 \in Nat /\ m - 1 < m
      BY <3>3, <3>4
    <3>6. f[m - 1] \in Seq(X)
      BY <3>2, <3>5
    <3>7. f[m] = f[m - 1] \o seqs[m]
      BY <2>6, <3>3, <3>4
    <3> QED
      BY ONLY <3>3, <3>6, <3>7, ConcatProperties
  <2>8. h \in [0 .. n -> Seq(X)]
    <3>1. ASSUME NEW i \in 0 .. n PROVE h[i] \in Seq(X)
      <4>1. CASE i = 0
        BY <4>1
      <4>2. CASE i # 0
        <5>1. i \in 1 .. n
          BY <2>1, <4>2
        <5> QED
          BY <2>7, <4>2, <5>1
      <4> QED
        BY <4>1, <4>2
    <3> QED
      BY <3>1
  <2>9. ASSUME NEW i \in 1 .. n PROVE h[i] = h[i - 1] \o seqs[i]
    <3>1. i \in 0 .. n /\ i - 1 \in 0 .. n /\ h[i] = f[i] /\ seqs[i] \in Seq(X)
      BY <2>1
    <3>2. CASE i = 1
      <4>1. h[i - 1] = <<>> /\ h[i] = seqs[i]
        BY <2>6, <3>1, <3>2
      <4>2. <<>> \o seqs[i] = seqs[i]
        BY <3>1, ConcatEmptySeq
      <4> QED
        BY <4>1, <4>2
    <3>3. CASE i # 1
      <4>1. h[i - 1] = f[i - 1]
        BY <3>1, <3>3
      <4> QED
        BY <2>6, <3>1, <3>3, <4>1
    <3> QED
      BY <3>2, <3>3
  <2>10. h[0] = <<>> /\ h[n] = f[n]
    BY <1>2, <2>1
  <2>11. Steps(seqs, X, h)
    <3> HIDE DEF h
    <3> QED
      BY <2>8, <2>9, <2>10 DEF Steps
  <2> QED
    BY <2>5, <2>10, <2>11
<1> QED
  BY <1>1, <1>2

\* Whatever goes through such steps is the result.
LEMMA FlattenSeqIs ==
  ASSUME NEW X, NEW seqs \in Seq(Seq(X)), NEW f, Steps(seqs, X, f)
  PROVE  FlattenSeq(seqs) = f[Len(seqs)] /\ FlattenSeq(seqs) \in Seq(X)
<1>1. PICK g : Steps(seqs, X, g) /\ FlattenSeq(seqs) = g[Len(seqs)]
  BY FlattenSeqSteps
<1>2. Len(seqs) \in Nat /\ Len(seqs) \in 0 .. Len(seqs)
  OBVIOUS
<1>3. f[Len(seqs)] = g[Len(seqs)]
  BY <1>1, <1>2, StepsAgree
<1> QED
  BY <1>1, <1>2, <1>3 DEF Steps

\* What has been joined stays as it is.
LEMMA StepsStay ==
  ASSUME NEW X, NEW seqs \in Seq(Seq(X)), NEW f, Steps(seqs, X, f),
         NEW i \in 0 .. Len(seqs), NEW n \in 0 .. Len(seqs), i <= n
  PROVE  /\ Len(f[i]) <= Len(f[n])
         /\ \A j \in 1 .. Len(f[i]) : f[n][j] = f[i][j]
<1> DEFINE Stays(m) == Len(f[i]) <= Len(f[m]) /\ \A j \in 1 .. Len(f[i]) : f[m][j] = f[i][j]
           T == {m \in i .. Len(seqs) : ~ Stays(m)}
<1>0. i \in Nat /\ n \in i .. Len(seqs) /\ Len(seqs) \in Nat
  OBVIOUS
<1>1. SUFFICES ASSUME T # {} PROVE FALSE
  BY <1>0
<1>2. PICK m \in T : \A k \in Nat : k < m => k \notin T
  <2>1. T \in SUBSET Nat
    BY <1>0
  <2> HIDE DEF T
  <2> QED
    BY <1>1, <2>1, LeastNumber
<1>3. m \in i .. Len(seqs) /\ ~ Stays(m)
  OBVIOUS
<1>4. f[i] \in Seq(X)
  BY DEF Steps
<1>5. m # i
  <2>1. Stays(i)
    BY <1>4
  <2> QED
    BY <1>3, <2>1
<1>6. m - 1 \in i .. Len(seqs) /\ m - 1 \in Nat /\ m - 1 < m /\ m \in 1 .. Len(seqs)
      /\ m - 1 \in 0 .. Len(seqs)
  BY <1>0, <1>3, <1>5
<1>7. Stays(m - 1)
  <2>1. m - 1 \notin T
    <3> HIDE DEF T
    <3> QED
      BY <1>2, <1>6
  <2> HIDE DEF Stays
  <2> QED
    BY <1>6, <2>1
<1>8. Len(f[i]) \in Nat /\ Joined(f[m], f[m - 1], seqs[m], X)
  BY <1>6, StepsTyped
<1>9. \A j \in 1 .. Len(f[m - 1]) : f[m][j] = f[m - 1][j]
  BY <1>8 DEF Joined
<1>10. Len(f[i]) <= Len(f[m]) /\ Len(f[m - 1]) \in Nat
  <2>1. PICK a : a = f[m - 1]
    OBVIOUS
  <2>2. Len(f[i]) <= Len(a)
    BY <1>7, <2>1
  <2>3. Len(a) \in Nat /\ Len(seqs[m]) \in Nat /\ Len(f[m]) = Len(a) + Len(seqs[m])
    BY <1>8, <2>1 DEF Joined
  <2>4. \A x, y, z, v : x \in Nat /\ y \in Nat /\ v \in Nat /\ z = y + v /\ x <= y => x <= z
    OBVIOUS
  <2>5. Len(f[i]) <= Len(f[m])
    BY ONLY <1>8, <2>2, <2>3, <2>4
  <2> QED
    BY ONLY <2>1, <2>3, <2>5
<1>11. \A j \in 1 .. Len(f[i]) : j \in 1 .. Len(f[m - 1]) /\ f[m - 1][j] = f[i][j]
  BY <1>7, <1>8, <1>10
<1>12. Stays(m)
  BY <1>9, <1>10, <1>11
<1> QED
  BY <1>3, <1>12

\* part stands in whole after the first from elements, up to the first to ones.
Stands(part, whole, from, to) ==
  /\ from \in Nat /\ Len(part) \in Nat
  /\ to = from + Len(part) /\ to <= Len(whole)
  /\ \A j \in 1 .. Len(part) : whole[from + j] = part[j]

\* Part i begins where the parts before it end.
LEMMA StepsAt ==
  ASSUME NEW X, NEW seqs \in Seq(Seq(X)), NEW f, Steps(seqs, X, f)
  PROVE  \A i \in 1 .. Len(seqs) :
           Stands(seqs[i], f[Len(seqs)], Len(f[i - 1]), Len(f[i]))
<1> TAKE i \in 1 .. Len(seqs)
<1>1. i \in 0 .. Len(seqs) /\ Len(seqs) \in 0 .. Len(seqs) /\ i <= Len(seqs)
  OBVIOUS
<1>2. /\ Len(f[i - 1]) \in Nat /\ Len(seqs[i]) \in Nat
      /\ Len(f[i]) = Len(f[i - 1]) + Len(seqs[i])
      /\ \A j \in 1 .. Len(seqs[i]) : f[i][Len(f[i - 1]) + j] = seqs[i][j]
  <2>1. Joined(f[i], f[i - 1], seqs[i], X)
    BY StepsTyped
  <2> QED
    BY <2>1 DEF Joined
<1>3. Len(f[i]) <= Len(f[Len(seqs)]) /\ \A j \in 1 .. Len(f[i]) : f[Len(seqs)][j] = f[i][j]
  BY <1>1, StepsStay
<1>4. ASSUME NEW j \in 1 .. Len(seqs[i]) PROVE f[Len(seqs)][Len(f[i - 1]) + j] = seqs[i][j]
  <2>1. Len(f[i - 1]) + j \in 1 .. Len(f[i])
    <3>1. PICK a \in Nat : a = Len(f[i - 1])
      BY <1>2
    <3>2. PICK b \in Nat : b = Len(seqs[i])
      BY <1>2
    <3>3. Len(f[i]) = a + b /\ j \in 1 .. b
      BY <1>2, <3>1, <3>2
    <3> QED
      BY ONLY <3>1, <3>3, a \in Nat, b \in Nat
  <2> QED
    BY <1>2, <1>3, <2>1
<1> QED
  BY <1>2, <1>3, <1>4 DEF Stands

\* Every element comes from some part.
LEMMA StepsFrom ==
  ASSUME NEW X, NEW seqs \in Seq(Seq(X)), NEW f, Steps(seqs, X, f),
         NEW k \in 1 .. Len(f[Len(seqs)])
  PROVE  \E i \in 1 .. Len(seqs) : Len(f[i - 1]) < k /\ k <= Len(f[i])
<1> DEFINE T == {i \in 0 .. Len(seqs) : k <= Len(f[i])}
<1>1. Len(seqs) \in T
  BY DEF Steps
<1>2. PICK i \in T : \A j \in Nat : j < i => j \notin T
  <2>1. T \in SUBSET Nat
    OBVIOUS
  <2> HIDE DEF T
  <2> QED
    BY <1>1, <2>1, LeastNumber
<1>3. i \in 0 .. Len(seqs) /\ k <= Len(f[i])
  OBVIOUS
<1>4. i # 0
  <2>1. Len(f[0]) = 0
    BY DEF Steps
  <2> QED
    BY <1>3, <2>1
<1>5. i \in 1 .. Len(seqs) /\ i - 1 \in 0 .. Len(seqs) /\ i - 1 \in Nat /\ i - 1 < i
  BY <1>3, <1>4
<1>6. ~ k <= Len(f[i - 1]) /\ Len(f[i - 1]) \in Nat
  <2>1. i - 1 \notin T
    <3> HIDE DEF T
    <3> QED
      BY <1>2, <1>5
  <2> QED
    BY <1>5, <2>1 DEF Steps
<1>7. k \in Int
  OBVIOUS
<1> QED
  BY <1>3, <1>5, <1>6, <1>7

-----------------------------------------------------------------------------
(* Picking from a sequence.                                                *)

\* The elements of t are those of s at the places at, in their order.
Picks(t, s, at) ==
  /\ at \in [1 .. Len(t) -> 1 .. Len(s)]
  /\ \A i, j \in 1 .. Len(t) : i < j => at[i] < at[j]
  /\ \A k \in 1 .. Len(t) : t[k] = s[at[k]]

\* The first elements of a sequence.
LEMMA FirstOf ==
  ASSUME NEW X, NEW s \in Seq(X), NEW n \in Nat
  PROVE  /\ First(s, n) \in Seq(X)
         /\ Len(First(s, n)) = IF n < Len(s) THEN n ELSE Len(s)
         /\ \A i \in 1 .. Len(First(s, n)) : First(s, n)[i] = s[i]
<1> DEFINE m == Least(n, Len(s))
<1>1. m \in Nat /\ m <= Len(s) /\ m = IF n < Len(s) THEN n ELSE Len(s)
  BY DEF Least
<1>2. First(s, n) = SubSeq(s, 1, m)
  BY DEF First
<1> HIDE DEF m
<1>3. 1 \in Int /\ m \in Int /\ \A i \in 1 .. m : s[i] \in X
  BY <1>1
<1>4. /\ SubSeq(s, 1, m) \in Seq(X)
      /\ Len(SubSeq(s, 1, m)) = IF 1 <= m THEN m - 1 + 1 ELSE 0
      /\ \A i \in 1 .. m - 1 + 1 : SubSeq(s, 1, m)[i] = s[1 + i - 1]
  BY ONLY <1>3, SubSeqProperties
<1>5. Len(First(s, n)) = m
  BY <1>1, <1>2, <1>4
<1>6. ASSUME NEW i \in 1 .. m PROVE First(s, n)[i] = s[i]
  <2>1. i \in 1 .. m - 1 + 1 /\ 1 + i - 1 = i
    BY <1>1
  <2> QED
    BY <1>2, <1>4, <2>1
<1> QED
  BY <1>1, <1>2, <1>4, <1>5, <1>6

\* What is kept of a sequence.
LEMMA KeepPicks ==
  ASSUME NEW X, NEW s \in Seq(X), NEW D \in SUBSET (1 .. Len(s))
  PROVE  /\ Keep(s, D) \in Seq(X)
         /\ Len(Keep(s, D)) = Cardinality(D)
         /\ \E at : /\ Picks(Keep(s, D), s, at)
                    /\ \A k \in 1 .. Len(Keep(s, D)) : at[k] \in D
                    /\ \A x \in D : \E k \in 1 .. Len(Keep(s, D)) : at[k] = x
<1>1. IsFiniteSet(D) /\ D \in SUBSET Nat
  <2>1. 1 \in Int /\ Len(s) \in Int /\ Len(s) \in Nat
    OBVIOUS
  <2>2. IsFiniteSet(1 .. Len(s))
    BY ONLY <2>1, FS_Interval
  <2>3. IsFiniteSet(D)
    BY <2>2, FS_Subset
  <2> QED
    BY <2>1, <2>3
<1>2. PICK at : Listing(D, at) /\ Keep(s, D) = [k \in 1 .. Cardinality(D) |-> s[at[k]]]
  BY <1>1, KeepInOrder
<1>3. PICK n \in Nat : n = Cardinality(D)
  BY <1>1, FS_CardinalityType
<1>4. /\ at \in [1 .. n -> D]
      /\ \A i, j \in 1 .. n : i < j => at[i] < at[j]
      /\ \A x \in D : \E k \in 1 .. n : at[k] = x
  BY <1>2, <1>3 DEF Listing
<1>5. PICK t : t = Keep(s, D)
  OBVIOUS
<1>6. t \in [1 .. n -> X] /\ \A k \in 1 .. n : t[k] = s[at[k]]
  <2>0. \A k \in 1 .. Len(s) : s[k] \in X
    OBVIOUS
  <2>1. \A k \in 1 .. n : at[k] \in 1 .. Len(s) /\ s[at[k]] \in X
    <3>1. \A k \in 1 .. n : at[k] \in D
      BY <1>4
    <3>2. \A x \in D : x \in 1 .. Len(s)
      OBVIOUS
    <3> QED
      BY <2>0, <3>1, <3>2
  <2> QED
    BY <1>2, <1>3, <1>5, <2>1
<1>7. t \in Seq(X) /\ Len(t) = n
  BY <1>6, FunctionIsSeq
<1>8. at \in [1 .. n -> 1 .. Len(s)]
  BY <1>4
<1>9. /\ Picks(t, s, at)
      /\ \A k \in 1 .. Len(t) : at[k] \in D
      /\ \A x \in D : \E k \in 1 .. Len(t) : at[k] = x
  BY <1>4, <1>6, <1>7, <1>8 DEF Picks
<1> QED
  BY <1>3, <1>5, <1>7, <1>9

\* What is picked of what is picked.
LEMMA PicksOfPicks ==
  ASSUME NEW X, NEW s \in Seq(X), NEW t \in Seq(X), NEW u \in Seq(X),
         NEW at, Picks(t, s, at), NEW by, Picks(u, t, by)
  PROVE  Picks(u, s, [k \in 1 .. Len(u) |-> at[by[k]]])
<1> DEFINE to == [k \in 1 .. Len(u) |-> at[by[k]]]
<1>1. ASSUME NEW k \in 1 .. Len(u)
      PROVE  by[k] \in 1 .. Len(t) /\ at[by[k]] \in 1 .. Len(s) /\ u[k] = s[at[by[k]]]
  <2>1. by[k] \in 1 .. Len(t) /\ u[k] = t[by[k]]
    BY DEF Picks
  <2> QED
    BY <2>1 DEF Picks
<1>2. ASSUME NEW i \in 1 .. Len(u), NEW j \in 1 .. Len(u), i < j PROVE at[by[i]] < at[by[j]]
  <2>1. by[i] < by[j]
    BY <1>2 DEF Picks
  <2> QED
    BY <1>1, <2>1 DEF Picks
<1> QED
  BY <1>1, <1>2 DEF Picks

-----------------------------------------------------------------------------
(* Lists by two keys.                                                      *)

\* Those in front of each by its keys, the first of them first.
ByKeys(D, major, minor) ==
  [x \in D |-> {y \in D : \/ major[y] < major[x]
                          \/ major[y] = major[x] /\ minor[y] < minor[x]}]

\* Keys no two share put a list in one strict order.
LEMMA KeysOrder ==
  ASSUME NEW D, NEW major \in [D -> Int], NEW minor \in [D -> Int],
         \A x, y \in D : major[x] = major[y] /\ minor[x] = minor[y] => x = y
  PROVE  StrictOrder(D, ByKeys(D, major, minor))
<1> DEFINE ahead == ByKeys(D, major, minor)
<1>0. \A x \in D : major[x] \in Int /\ minor[x] \in Int
  OBVIOUS
<1>1. ahead \in [D -> SUBSET D]
  BY DEF ByKeys
<1>2. \A x, y \in D : y \in ahead[x] <=> \/ major[y] < major[x]
                                         \/ major[y] = major[x] /\ minor[y] < minor[x]
  BY DEF ByKeys
<1>3. \A x \in D : ahead[x] \in SUBSET D
  BY <1>1
<1> HIDE DEF ahead
<1>4. \A x \in D : x \notin ahead[x]
  BY <1>0, <1>2
<1>5. ASSUME NEW x \in D, NEW y \in D, y \in ahead[x] PROVE ahead[y] \subseteq ahead[x]
  <2> SUFFICES ASSUME NEW z \in ahead[y] PROVE z \in ahead[x]
    OBVIOUS
  <2>1. z \in D
    BY <1>3
  <2> QED
    BY <1>0, <1>2, <1>5, <2>1
<1>6. \A x, y \in D : x # y => x \in ahead[y] \/ y \in ahead[x]
  BY <1>0, <1>2
<1> QED
  BY <1>1, <1>4, <1>5, <1>6 DEF StrictOrder, ahead

\* hits are elements of s at places in D, all of them if there was room.
Lists(hits, s, D, limit) ==
  /\ \A k \in 1 .. Len(hits) : \E x \in D : hits[k] = s[x]
  /\ Len(hits) < limit \/ Cardinality(D) <= limit =>
       \A x \in D : \E k \in 1 .. Len(hits) : hits[k] = s[x]

\* A list in any order, and the first of it.
LEMMA RankedLists ==
  ASSUME NEW X, NEW s \in Seq(X), NEW D \in SUBSET (1 .. Len(s)), NEW ahead, NEW at,
         InOrder(D, ahead, at), NEW limit \in Nat
  PROVE  LET t == [k \in 1 .. Cardinality(D) |-> s[at[k]]]
         IN  /\ t \in Seq(X) /\ \A most : Lists(t, s, D, most)
             /\ First(t, limit) \in Seq(X) /\ Lists(First(t, limit), s, D, limit)
             /\ Len(First(t, limit)) <= limit
<1>1. IsFiniteSet(D)
  <2>1. 1 \in Int /\ Len(s) \in Int
    OBVIOUS
  <2>2. IsFiniteSet(1 .. Len(s))
    BY ONLY <2>1, FS_Interval
  <2> QED
    BY <2>2, FS_Subset
<1>2. PICK n \in Nat : n = Cardinality(D)
  BY <1>1, FS_CardinalityType
<1>3. /\ \A k \in 1 .. n : at[k] \in D
      /\ \A x \in D : \E k \in 1 .. n : at[k] = x
  BY <1>2 DEF InOrder
<1>4. PICK t : t = [k \in 1 .. Cardinality(D) |-> s[at[k]]]
  OBVIOUS
<1>5. t \in [1 .. n -> X] /\ \A k \in 1 .. n : t[k] = s[at[k]]
  <2>1. \A x \in D : x \in 1 .. Len(s)
    OBVIOUS
  <2>2. \A x \in D : s[x] \in X
    BY <2>1
  <2>3. \A k \in 1 .. n : s[at[k]] \in X
    BY <1>3, <2>2
  <2> QED
    BY <1>2, <1>4, <2>3
<1>6. t \in Seq(X) /\ Len(t) = n
  BY <1>5, FunctionIsSeq
<1>11. \A k \in 1 .. n : \E x \in D : t[k] = s[x]
  BY <1>3, <1>5
<1>12. \A x \in D : \E k \in 1 .. n : t[k] = s[x]
  BY <1>3, <1>5
<1>7. \A most : Lists(t, s, D, most)
  BY <1>6, <1>11, <1>12 DEF Lists
<1>8. PICK u : u = First(t, limit)
  OBVIOUS
<1>9. /\ u \in Seq(X) /\ Len(u) = IF limit < n THEN limit ELSE n
      /\ \A i \in 1 .. Len(u) : u[i] = t[i]
  BY <1>6, <1>8, FirstOf
<1>10. Lists(u, s, D, limit)
  <2>1. \A k \in 1 .. Len(u) : k \in 1 .. n
    BY <1>2, <1>9
  <2>2. Len(u) < limit \/ n <= limit => Len(u) = n
    BY <1>2, <1>9
  <2>3. \A k \in 1 .. Len(u) : \E x \in D : u[k] = s[x]
    BY <1>9, <1>11, <2>1
  <2>4. Len(u) = n => \A x \in D : \E k \in 1 .. Len(u) : u[k] = s[x]
    BY <1>9, <1>12
  <2> QED
    BY <1>2, <2>2, <2>3, <2>4 DEF Lists
<1> QED
  BY <1>4, <1>6, <1>7, <1>8, <1>9, <1>10

-----------------------------------------------------------------------------
(* The chunks of a document.                                               *)

\* A word's text, and the page it stands on.
Tagged == [text : Nat, page : Nat]

\* The words of a document, each with its page.
LEMMA WordsTyped ==
  ASSUME NEW pages \in Seq(Seq(Nat)) PROVE FlattenWords(pages) \in Seq(Tagged)
<1> DEFINE words == [p \in DOMAIN pages |-> [i \in DOMAIN pages[p] |-> Word(pages[p][i], p)]]
<1>1. ASSUME NEW p \in DOMAIN pages PROVE words[p] \in Seq(Tagged)
  <2>1. pages[p] \in Seq(Nat) /\ p \in Nat
    OBVIOUS
  <2> DEFINE line == pages[p]
  <2>2. line \in Seq(Nat) /\ words[p] = [i \in DOMAIN line |-> Word(line[i], p)]
    BY <2>1
  <2> HIDE DEF line, words
  <2>3. DOMAIN line = 1 .. Len(line) /\ Len(line) \in Nat
    BY <2>2
  <2>4. \A i \in 1 .. Len(line) : Word(line[i], p) \in Tagged
    BY <2>1, <2>2 DEF Word, Tagged
  <2>5. words[p] \in [1 .. Len(line) -> Tagged]
    BY <2>2, <2>3, <2>4
  <2> QED
    BY <2>3, <2>5, FunctionIsSeq
<1>2. words \in Seq(Seq(Tagged))
  <2>1. DOMAIN pages = 1 .. Len(pages) /\ Len(pages) \in Nat
    OBVIOUS
  <2>2. words \in [1 .. Len(pages) -> Seq(Tagged)]
    <3> HIDE DEF Tagged
    <3>1. DOMAIN words = 1 .. Len(pages)
      BY <2>1
    <3>2. words = [p \in 1 .. Len(pages) |-> words[p]]
      BY <2>1
    <3> QED
      BY <1>1, <2>1, <3>1, <3>2
  <2> HIDE DEF words
  <2> QED
    BY <2>1, <2>2, FunctionIsSeq
<1>3. FlattenSeq(words) \in Seq(Tagged)
  <2> HIDE DEF words
  <2> QED
    BY <1>2, FlattenSeqContents
<1> QED
  BY <1>3 DEF FlattenWords

\* A chunk knows its pages and has words.
IsChunk(c) ==
  /\ {c.page_start, c.page_end} \subseteq Nat
  /\ \E n \in Nat : c.text \in [1 .. n -> Nat]

\* Where a window begins and ends.
LEMMA WindowFits ==
  ASSUME NEW n \in Nat, NEW size \in Nat, NEW overlap \in Nat, ValidSizes(size, overlap),
         NEW k \in Ordinals(n, size, overlap)
  PROVE  LET start == k * (size - overlap)
             end == IF start + size < n THEN start + size ELSE n
         IN  start \in Nat /\ end \in Nat /\ start + 1 <= end /\ end <= n
<1> DEFINE step == size - overlap
           before == (k - 1) * step
           start == k * step
<1>1. step \in Nat /\ step <= size /\ size > 0 /\ step > 0
  BY DEF ValidSizes
<1>2. k \in Nat /\ k < n /\ (k = 0 \/ before + size < n)
  BY DEF Ordinals
<1>3. start \in Nat /\ start + 1 <= n
  <2>1. CASE k = 0
    BY <1>1, <1>2, <2>1
  <2>2. CASE k # 0
    <3>1. k - 1 \in Nat
      BY <1>2, <2>2
    <3>2. before \in Nat /\ start = before + step
      <4> HIDE DEF step
      <4> QED
        BY <1>1, <1>2, <3>1
    <3> HIDE DEF before, start, step
    <3> QED
      BY <1>1, <1>2, <2>2, <3>2
  <2> QED
    BY <2>1, <2>2
<1> HIDE DEF start, step
<1>4. LET end == IF start + size < n THEN start + size ELSE n
      IN  start \in Nat /\ end \in Nat /\ start + 1 <= end /\ end <= n
  BY <1>1, <1>3
<1> QED
  BY <1>4 DEF start, step

\* Chunking a document gives finitely many chunks, each a text on some pages.
LEMMA ChunksTyped ==
  ASSUME NEW pages \in Seq(Seq(Nat)), NEW size \in Nat, NEW overlap \in Nat,
         ValidSizes(size, overlap)
  PROVE  LET chunks == ChunkDocument(pages, size, overlap)
         IN  /\ DOMAIN chunks \in SUBSET Nat /\ IsFiniteSet(DOMAIN chunks)
             /\ \A i \in DOMAIN chunks : IsChunk(chunks[i])
<1> DEFINE words == FlattenWords(pages)
           n == Len(words)
           Start(k) == k * (size - overlap)
           End(k) == IF Start(k) + size < n THEN Start(k) + size ELSE n
           Window(k) == SubSeq(words, Start(k) + 1, End(k))
           D == {k + 1 : k \in Ordinals(n, size, overlap)}
           chunks == [i \in D |-> ChunkData(i - 1, Window(i - 1))]
<1>1. ChunkDocument(pages, size, overlap) = chunks
  BY DEF ChunkDocument
<1>2. words \in Seq(Tagged) /\ n \in Nat
  BY WordsTyped
<1> HIDE DEF words, n
<1>3. D \in SUBSET (1 .. n) /\ IsFiniteSet(D)
  <2>1. D \in SUBSET (1 .. n)
    BY <1>2 DEF Ordinals
  <2>2. IsFiniteSet(1 .. n)
    <3>1. 1 \in Int /\ n \in Int
      BY <1>2
    <3> QED
      BY ONLY <3>1, FS_Interval
  <2> HIDE DEF D
  <2> QED
    BY <2>1, <2>2, FS_Subset
<1>4. ASSUME NEW i \in D PROVE IsChunk(chunks[i])
  <2>1. PICK k \in Ordinals(n, size, overlap) : i = k + 1
    OBVIOUS
  <2>2. k \in Nat /\ i - 1 = k
    BY <1>2, <2>1 DEF Ordinals
  <2>3. /\ Start(k) \in Nat /\ End(k) \in Nat /\ Start(k) + 1 <= End(k) /\ End(k) <= n
    BY <1>2, WindowFits
  <2>4. chunks[i] = ChunkData(k, Window(k))
    BY <2>2
  <2> HIDE DEF Start, End, D, chunks
  <2>5. PICK window : window = Window(k)
    OBVIOUS
  <2>6. window \in Seq(Tagged) /\ Len(window) \in Nat /\ Len(window) >= 1
    BY <1>2, <2>3, <2>5 DEF n
  <2>7. window[1] \in Tagged /\ window[Len(window)] \in Tagged
    BY <2>6
  <2>8. Texts(window) \in [1 .. Len(window) -> Nat]
    <3>1. DOMAIN window = 1 .. Len(window)
      BY <2>6
    <3>2. \A j \in 1 .. Len(window) : window[j] \in Tagged
      BY <2>6
    <3>3. \A j \in 1 .. Len(window) : window[j].text \in Nat
      BY <3>2 DEF Tagged
    <3> QED
      BY <3>1, <3>3 DEF Texts
  <2>9. /\ chunks[i].page_start = window[1].page
        /\ chunks[i].page_end = window[Len(window)].page
        /\ chunks[i].text = Texts(window)
    <3>1. chunks[i] = ChunkData(k, window)
      BY <2>4, <2>5
    <3> QED
      BY <3>1 DEF ChunkData
  <2> QED
    BY <2>6, <2>7, <2>8, <2>9 DEF IsChunk, Tagged
<1>5. DOMAIN chunks = D
  OBVIOUS
<1>6. DOMAIN chunks \in SUBSET Nat
  BY <1>2, <1>3
<1> HIDE DEF D, chunks
<1> QED
  BY <1>1, <1>3, <1>4, <1>5, <1>6

\* Finitely many things have finitely many values,
LEMMA FiniteImage ==
  ASSUME NEW S, IsFiniteSet(S), NEW f PROVE IsFiniteSet({f[x] : x \in S})
<1> DEFINE T == {f[x] : x \in S}
           g == [x \in S |-> f[x]]
<1>1. g \in Surjection(S, T)
  BY DEF Surjection
<1> HIDE DEF g, T
<1>2. IsFiniteSet(T)
  BY <1>1, FS_Surjection
<1> QED
  BY <1>2 DEF T

\* and finitely many finite sets have finitely many elements.
LEMMA FiniteUnion ==
  ASSUME NEW n \in Nat, NEW F, \A d \in 1 .. n : IsFiniteSet(F[d])
  PROVE  IsFiniteSet(UNION {F[d] : d \in 1 .. n})
<1> DEFINE Upto(m) == UNION {F[d] : d \in 1 .. m}
           T == {m \in 0 .. n : ~ IsFiniteSet(Upto(m))}
<1>1. SUFFICES ASSUME T # {} PROVE FALSE
  <2>1. n \in 0 .. n
    OBVIOUS
  <2> QED
    BY <2>1
<1>2. PICK m \in T : \A k \in Nat : k < m => k \notin T
  <2>1. T \in SUBSET Nat
    OBVIOUS
  <2> HIDE DEF T
  <2> QED
    BY <1>1, <2>1, LeastNumber
<1>3. m \in 0 .. n /\ ~ IsFiniteSet(Upto(m))
  OBVIOUS
<1>4. m # 0
  <2>1. Upto(0) = {}
    OBVIOUS
  <2> HIDE DEF Upto
  <2> QED
    BY <1>3, <2>1, FS_EmptySet
<1>5. m - 1 \in 0 .. n /\ m - 1 \in Nat /\ m - 1 < m /\ m \in 1 .. n
  BY <1>3, <1>4
<1>6. IsFiniteSet(Upto(m - 1))
  <2>1. m - 1 \notin T
    <3> HIDE DEF T
    <3> QED
      BY <1>2, <1>5
  <2> HIDE DEF Upto
  <2> QED
    BY <1>5, <2>1
<1>7. Upto(m) = Upto(m - 1) \cup F[m]
  <2>1. \A d : d \in 1 .. m <=> d \in 1 .. m - 1 \/ d = m
    BY <1>5
  <2> QED
    BY <2>1
<1> HIDE DEF Upto
<1> QED
  <2>1. IsFiniteSet(F[m])
    BY <1>5
  <2>2. IsFiniteSet(Upto(m - 1) \cup F[m])
    BY <1>6, <2>1, FS_Union
  <2> QED
    BY <1>3, <1>7, <2>2

-----------------------------------------------------------------------------
(* Cutting a sequence and joining its parts.                               *)

\* The elements after place a, up to place b.
LEMMA SliceOf ==
  ASSUME NEW X, NEW s \in Seq(X), NEW a \in Nat, NEW b \in Nat, a <= b, b <= Len(s)
  PROVE  /\ SubSeq(s, a + 1, b) \in Seq(X)
         /\ Len(SubSeq(s, a + 1, b)) = b - a
         /\ \A j \in 1 .. b - a : SubSeq(s, a + 1, b)[j] = s[a + j]
<1>1. a + 1 \in Int /\ b \in Int
  OBVIOUS
<1>2. ASSUME NEW j \in a + 1 .. b PROVE s[j] \in X
  <2>1. j \in 1 .. Len(s)
    OBVIOUS
  <2> QED
    BY <2>1, ElementOfSeq
<1>3. /\ SubSeq(s, a + 1, b) \in Seq(X)
      /\ Len(SubSeq(s, a + 1, b)) = IF a + 1 <= b THEN b - (a + 1) + 1 ELSE 0
      /\ \A j \in 1 .. b - (a + 1) + 1 : SubSeq(s, a + 1, b)[j] = s[a + 1 + j - 1]
  BY ONLY <1>1, <1>2, SubSeqProperties
<1>4. b - (a + 1) + 1 = b - a /\ (~ a + 1 <= b => b - a = 0)
  OBVIOUS
<1>5. ASSUME NEW j \in 1 .. b - a PROVE SubSeq(s, a + 1, b)[j] = s[a + j]
  <2>1. a + 1 + j - 1 = a + j /\ j \in 1 .. b - (a + 1) + 1
    OBVIOUS
  <2> QED
    BY <1>3, <2>1
<1> QED
  BY <1>3, <1>4, <1>5

\* A part of a part.
LEMMA SliceOfSlice ==
  ASSUME NEW X, NEW s \in Seq(X), NEW a \in Nat, NEW b \in Nat, a <= b, b <= Len(s),
         NEW c \in Nat, NEW d \in Nat, c <= d, d <= b - a
  PROVE  SubSeq(SubSeq(s, a + 1, b), c + 1, d) = SubSeq(s, a + c + 1, a + d)
<1>1. PICK t : t = SubSeq(s, a + 1, b)
  OBVIOUS
<1>2. t \in Seq(X) /\ Len(t) = b - a /\ \A j \in 1 .. b - a : t[j] = s[a + j]
  BY <1>1, SliceOf
<1>3. PICK u : u = SubSeq(t, c + 1, d)
  OBVIOUS
<1>4. u \in Seq(X) /\ Len(u) = d - c /\ \A j \in 1 .. d - c : u[j] = t[c + j]
  BY <1>2, <1>3, SliceOf
<1>5. PICK v : v = SubSeq(s, a + c + 1, a + d)
  OBVIOUS
<1>6. v \in Seq(X) /\ Len(v) = d - c /\ \A j \in 1 .. d - c : v[j] = s[a + c + j]
  <2>1. PICK e \in Nat : e = a + c
    OBVIOUS
  <2>2. PICK f \in Nat : f = a + d
    OBVIOUS
  <2>3. e <= f /\ f <= Len(s) /\ f - e = d - c
    BY <2>1, <2>2
  <2>4. /\ SubSeq(s, e + 1, f) \in Seq(X) /\ Len(SubSeq(s, e + 1, f)) = f - e
        /\ \A j \in 1 .. f - e : SubSeq(s, e + 1, f)[j] = s[e + j]
    BY <2>3, SliceOf
  <2> QED
    BY <1>5, <2>1, <2>2, <2>3, <2>4
<1>7. ASSUME NEW j \in 1 .. d - c PROVE u[j] = v[j]
  <2>1. c + j \in 1 .. b - a /\ a + (c + j) = a + c + j
    OBVIOUS
  <2> QED
    BY <1>2, <1>4, <1>6, <2>1
<1>8. u = v
  BY <1>4, <1>6, <1>7, SeqEqual
<1> QED
  BY <1>1, <1>3, <1>5, <1>8

\* Parts that begin where the one before ends make the whole.
LEMMA CutAndJoined ==
  ASSUME NEW X, NEW s \in Seq(X), NEW m \in Nat, NEW E \in [0 .. m -> Nat],
         E[0] = 0, E[m] = Len(s), \A i \in 1 .. m : E[i - 1] <= E[i] /\ E[i] <= Len(s)
  PROVE  LET seqs == [i \in 1 .. m |-> SubSeq(s, E[i - 1] + 1, E[i])]
         IN  seqs \in Seq(Seq(X)) /\ FlattenSeq(seqs) = s
<1>1. PICK seqs : seqs = [i \in 1 .. m |-> SubSeq(s, E[i - 1] + 1, E[i])]
  OBVIOUS
<1>2. ASSUME NEW i \in 1 .. m PROVE seqs[i] \in Seq(X) /\ E[i - 1] \in Nat /\ E[i] \in Nat
  <2>1. i - 1 \in 0 .. m /\ i \in 0 .. m
    OBVIOUS
  <2>2. E[i - 1] \in Nat /\ E[i] \in Nat
    BY <2>1
  <2>3. SubSeq(s, E[i - 1] + 1, E[i]) \in Seq(X)
    BY <2>2, SliceOf
  <2> QED
    BY <1>1, <2>2, <2>3
<1>3. seqs \in Seq(Seq(X)) /\ Len(seqs) = m
  <2>1. seqs \in [1 .. m -> Seq(X)]
    BY <1>1, <1>2
  <2> QED
    BY <2>1, FunctionIsSeq
<1>4. PICK f : f = [i \in 0 .. m |-> SubSeq(s, 1, E[i])]
  OBVIOUS
<1>5. ASSUME NEW i \in 0 .. m PROVE f[i] \in Seq(X)
  <2>1. E[i] \in Nat /\ E[i] <= Len(s)
    <3>1. CASE i = 0
      BY <3>1
    <3>2. CASE i # 0
      <4>1. i \in 1 .. m
        BY <3>2
      <4> QED
        BY <4>1
    <3> QED
      BY <3>1, <3>2
  <2>2. SubSeq(s, 0 + 1, E[i]) \in Seq(X)
    BY <2>1, SliceOf
  <2> QED
    BY <1>4, <2>2
<1>6. f[0] = <<>>
  <2>1. SubSeq(s, 1, 0) = <<>>
    BY SubSeqEmpty
  <2> QED
    BY <1>4, <2>1
<1>7. ASSUME NEW i \in 1 .. m PROVE f[i] = f[i - 1] \o seqs[i]
  <2>1. i - 1 \in 0 .. m /\ i \in 0 .. m
    OBVIOUS
  <2>2. PICK a \in Nat : a = E[i - 1]
    BY <1>2
  <2>3. PICK b \in Nat : b = E[i]
    BY <1>2
  <2>4. a <= b /\ b <= Len(s)
    BY <2>2, <2>3
  <2>5. 1 \in 1 .. Len(s) + 1 /\ a \in 1 - 1 .. Len(s) /\ b \in a .. Len(s)
    BY <2>4
  <2>6. SubSeq(s, 1, a) \o SubSeq(s, a + 1, b) = SubSeq(s, 1, b)
    BY ONLY s \in Seq(X), <2>5, ConcatAdjacentSubSeq
  <2> QED
    BY <1>1, <1>4, <2>1, <2>2, <2>3, <2>6
<1>8. Steps(seqs, X, f)
  BY <1>3, <1>4, <1>5, <1>6, <1>7 DEF Steps
<1>9. FlattenSeq(seqs) = f[m]
  BY <1>3, <1>8, FlattenSeqIs
<1>10. f[m] = s
  <2>1. SubSeq(s, 1, Len(s)) = s
    BY SubSeqFull
  <2> QED
    BY <1>4, <2>1
<1> QED
  BY <1>1, <1>3, <1>9, <1>10

\* Parts p to q of seqs are the part of whole between their lengths.
Spans(seqs, whole, p, q, from, to) ==
  from <= to /\ to <= Len(whole)
    /\ FlattenSeq(SubSeq(seqs, p, q)) = SubSeq(whole, from + 1, to)

\* Some of the parts make that part of the whole.
LEMMA SpanJoined ==
  ASSUME NEW X, NEW seqs \in Seq(Seq(X)), NEW f, Steps(seqs, X, f),
         NEW p \in 1 .. Len(seqs), NEW q \in p .. Len(seqs)
  PROVE  Spans(seqs, FlattenSeq(seqs), p, q, Len(f[p - 1]), Len(f[q]))
<1> DEFINE n == Len(seqs)
           L(i) == Len(f[i])
<1>1. n \in Nat /\ p \in Nat /\ q \in Nat /\ p - 1 \in 0 .. n /\ q \in 0 .. n /\ q <= n /\ n \in 0 .. n
  OBVIOUS
<1>2. \A i \in 0 .. n : L(i) \in Nat
  BY StepsTyped
<1>3. \A i \in 0 .. n : \A j \in 0 .. n : i <= j => L(i) <= L(j)
  BY StepsStay
<1>4. PICK whole : whole = FlattenSeq(seqs)
  OBVIOUS
<1>5. whole = f[n] /\ whole \in Seq(X) /\ Len(whole) = L(n)
  BY <1>4, FlattenSeqIs
<1>6. \A i \in 1 .. n : i - 1 \in 0 .. n /\ i \in 0 .. n /\ SubSeq(whole, L(i - 1) + 1, L(i)) = seqs[i]
  <2> TAKE i \in 1 .. n
  <2>1. i - 1 \in 0 .. n /\ i \in 0 .. n /\ i - 1 <= i /\ i <= n
    BY <1>1
  <2>2. PICK a \in Nat : a = L(i - 1)
    BY <1>2, <2>1
  <2>3. PICK b \in Nat : b = L(i)
    BY <1>2, <2>1
  <2>4. PICK part : part = seqs[i]
    OBVIOUS
  <2>5. part \in Seq(X) /\ Len(part) \in Nat /\ b = a + Len(part)
        /\ \A j \in 1 .. Len(part) : whole[a + j] = part[j]
    <3>1. part \in Seq(X)
      BY <2>4
    <3>2. Stands(seqs[i], f[n], L(i - 1), L(i))
      BY StepsAt
    <3>3. Stands(part, whole, a, b)
      BY <1>5, <2>2, <2>3, <2>4, <3>2
    <3> QED
      BY <3>1, <3>3 DEF Stands
  <2>6. b <= Len(whole)
    BY <1>1, <1>3, <1>5, <2>1, <2>3
  <2>7. a <= b /\ b - a = Len(part)
    BY <2>5
  <2>8. /\ SubSeq(whole, a + 1, b) \in Seq(X) /\ Len(SubSeq(whole, a + 1, b)) = b - a
        /\ \A j \in 1 .. b - a : SubSeq(whole, a + 1, b)[j] = whole[a + j]
    BY <1>5, <2>6, <2>7, SliceOf
  <2>9. SubSeq(whole, a + 1, b) = part
    BY <2>5, <2>7, <2>8, SeqEqual
  <2> QED
    BY <2>1, <2>2, <2>3, <2>4, <2>9
<1>7. PICK a \in Nat : a = L(p - 1)
  BY <1>1, <1>2
<1>8. PICK b \in Nat : b = L(q)
  BY <1>1, <1>2
<1>9. a <= b /\ b <= Len(whole)
  <2>1. p - 1 <= q
    BY <1>1
  <2>2. L(p - 1) <= L(q) /\ L(q) <= L(n)
    BY <1>1, <1>3, <2>1
  <2> QED
    BY <1>5, <1>7, <1>8, <2>2
<1>10. PICK t : t = SubSeq(whole, a + 1, b)
  OBVIOUS
<1>11. t \in Seq(X) /\ Len(t) = b - a
  BY <1>5, <1>9, <1>10, SliceOf
<1>12. PICK m \in Nat : m = q - p + 1
  BY <1>1
<1>13. PICK E : E = [i \in 0 .. m |-> L(p - 1 + i) - a]
  OBVIOUS
<1>14. \A i \in 0 .. m : /\ p - 1 + i \in 0 .. n /\ p - 1 <= p - 1 + i /\ p - 1 + i <= q
                        /\ E[i] \in Nat /\ E[i] <= b - a /\ a + E[i] = L(p - 1 + i)
  <2> TAKE i \in 0 .. m
  <2>1. p - 1 + i \in 0 .. n /\ p - 1 <= p - 1 + i /\ p - 1 + i <= q
    BY <1>1, <1>12
  <2>2. PICK c \in Nat : c = L(p - 1 + i)
    BY <1>2, <2>1
  <2>3. a <= c /\ c <= b
    BY <1>1, <1>3, <1>7, <1>8, <2>1, <2>2
  <2>4. E[i] = c - a
    BY <1>13, <2>2
  <2>5. E[i] \in Nat /\ E[i] <= b - a /\ a + E[i] = c
    BY <2>3, <2>4
  <2> QED
    BY <2>1, <2>2, <2>5
<1>15. E \in [0 .. m -> Nat]
  BY <1>13, <1>14
<1>16. E[0] = 0 /\ E[m] = Len(t)
  <2>1. 0 \in 0 .. m /\ m \in 0 .. m /\ p - 1 + 0 = p - 1 /\ p - 1 + m = q
    BY <1>1, <1>12
  <2>2. E[0] = L(p - 1) - a /\ E[m] = L(q) - a
    BY <1>13, <2>1
  <2> QED
    BY <1>7, <1>8, <1>11, <2>2
<1>17. ASSUME NEW i \in 1 .. m
       PROVE  /\ E[i - 1] <= E[i] /\ E[i] <= Len(t)
              /\ SubSeq(t, E[i - 1] + 1, E[i]) = seqs[p - 1 + i]
  <2>1. i - 1 \in 0 .. m /\ i \in 0 .. m /\ p - 1 + i \in 1 .. n /\ p - 1 + (i - 1) = (p - 1 + i) - 1
        /\ (p - 1 + i) - 1 <= p - 1 + i
    BY <1>1, <1>12
  <2>2. PICK k \in 1 .. n : k = p - 1 + i
    BY <2>1
  <2>3. PICK c \in Nat : c = E[i - 1]
    BY <1>14, <2>1
  <2>4. PICK d \in Nat : d = E[i]
    BY <1>14, <2>1
  <2>5. a + c = L(k - 1) /\ a + d = L(k) /\ d <= b - a
    BY <1>14, <2>1, <2>2, <2>3, <2>4
  <2>6. L(k - 1) <= L(k)
    BY <1>3, <1>6, <2>1, <2>2
  <2>7. c <= d
    BY <2>5, <2>6
  <2>8. SubSeq(t, c + 1, d) = SubSeq(whole, a + c + 1, a + d)
    BY <1>5, <1>9, <1>10, <2>5, <2>7, SliceOfSlice
  <2>9. SubSeq(whole, L(k - 1) + 1, L(k)) = seqs[k]
    BY <1>6
  <2> QED
    BY <1>11, <2>2, <2>3, <2>4, <2>5, <2>7, <2>8, <2>9
<1>18. SubSeq(seqs, p, q) = [i \in 1 .. m |-> SubSeq(t, E[i - 1] + 1, E[i])]
  <2>1. SubSeq(seqs, p, q) = [i \in 1 .. 1 + q - p |-> seqs[i + p - 1]]
    BY <1>1
  <2>2. 1 + q - p = m /\ \A i \in 1 .. m : i + p - 1 = p - 1 + i
    BY <1>1, <1>12
  <2> QED
    BY <1>17, <2>1, <2>2
<1>19. FlattenSeq([i \in 1 .. m |-> SubSeq(t, E[i - 1] + 1, E[i])]) = t
  BY <1>11, <1>15, <1>16, <1>17, CutAndJoined
<1> QED
  BY <1>4, <1>7, <1>8, <1>9, <1>10, <1>18, <1>19 DEF Spans

-----------------------------------------------------------------------------
(* The words of a document and its windows.                                *)

\* The texts of words are as many, in the same places.
LEMMA TextsTyped ==
  ASSUME NEW u \in Seq(Tagged)
  PROVE  /\ Texts(u) \in Seq(Nat) /\ Len(Texts(u)) = Len(u) /\ Len(u) \in Nat
         /\ \A i \in 1 .. Len(u) : u[i] \in Tagged /\ Texts(u)[i] = u[i].text
<1>1. Len(u) \in Nat /\ DOMAIN u = 1 .. Len(u)
  BY LenProperties
<1>2. \A i \in 1 .. Len(u) : u[i] \in Tagged
  BY ElementOfSeq
<1>3. \A i \in 1 .. Len(u) : u[i].text \in Nat
  BY <1>2 DEF Tagged
<1>4. Texts(u) = [i \in 1 .. Len(u) |-> u[i].text]
  BY <1>1 DEF Texts
<1>5. Texts(u) \in [1 .. Len(u) -> Nat]
  BY <1>3, <1>4
<1>6. Texts(u) \in Seq(Nat) /\ Len(Texts(u)) = Len(u)
  BY <1>1, <1>5, FunctionIsSeq
<1> QED
  BY <1>1, <1>2, <1>4, <1>6

\* The texts of joined words are joined.
LEMMA TextsJoined ==
  ASSUME NEW u \in Seq(Tagged), NEW v \in Seq(Tagged)
  PROVE  Texts(u \o v) = Texts(u) \o Texts(v)
<1>1. PICK w : w = u \o v
  OBVIOUS
<1>2. /\ w \in Seq(Tagged) /\ Len(w) = Len(u) + Len(v)
      /\ \A i \in 1 .. Len(u) + Len(v) : w[i] = IF i <= Len(u) THEN u[i] ELSE v[i - Len(u)]
  BY <1>1, ConcatProperties
<1>3. PICK x : x = Texts(u)
  OBVIOUS
<1>4. PICK y : y = Texts(v)
  OBVIOUS
<1>5. PICK a \in Nat : a = Len(u)
  BY TextsTyped
<1>6. PICK b \in Nat : b = Len(v)
  BY TextsTyped
<1>7. x \in Seq(Nat) /\ Len(x) = a /\ \A i \in 1 .. a : x[i] = u[i].text
  BY <1>3, <1>5, TextsTyped
<1>8. y \in Seq(Nat) /\ Len(y) = b /\ \A i \in 1 .. b : y[i] = v[i].text
  BY <1>4, <1>6, TextsTyped
<1>9. /\ Texts(w) \in Seq(Nat) /\ Len(Texts(w)) = a + b
      /\ \A i \in 1 .. a + b : Texts(w)[i] = w[i].text
  BY <1>2, <1>5, <1>6, TextsTyped
<1>10. /\ x \o y \in Seq(Nat) /\ Len(x \o y) = a + b
       /\ \A i \in 1 .. a + b : (x \o y)[i] = IF i <= a THEN x[i] ELSE y[i - a]
  BY <1>7, <1>8, ConcatProperties
<1>11. ASSUME NEW i \in 1 .. a + b PROVE Texts(w)[i] = (x \o y)[i]
  <2>1. CASE i <= a
    <3>1. i \in 1 .. a
      BY <2>1
    <3> QED
      BY <1>2, <1>5, <1>6, <1>7, <1>9, <1>10, <2>1, <3>1
  <2>2. CASE ~ i <= a
    <3>1. i - a \in 1 .. b
      BY <2>2
    <3>2. w[i] = v[i - a] /\ (x \o y)[i] = y[i - a]
      BY <1>2, <1>5, <1>6, <1>10, <2>2
    <3> QED
      BY <1>8, <1>9, <3>1, <3>2
  <2> QED
    BY <2>1, <2>2
<1>12. Texts(w) = x \o y
  BY <1>9, <1>10, <1>11, SeqEqual
<1> QED
  BY <1>1, <1>3, <1>4, <1>12

\* The texts of some of the words are that part of the texts.
LEMMA TextsOfSlice ==
  ASSUME NEW u \in Seq(Tagged), NEW a \in Nat, NEW b \in Nat, a <= b, b <= Len(u)
  PROVE  Texts(SubSeq(u, a + 1, b)) = SubSeq(Texts(u), a + 1, b)
<1>1. PICK w : w = SubSeq(u, a + 1, b)
  OBVIOUS
<1>2. w \in Seq(Tagged) /\ Len(w) = b - a /\ \A j \in 1 .. b - a : w[j] = u[a + j]
  BY <1>1, SliceOf
<1>3. PICK x : x = Texts(u)
  OBVIOUS
<1>4. x \in Seq(Nat) /\ Len(x) = Len(u) /\ \A i \in 1 .. Len(u) : x[i] = u[i].text
  BY <1>3, TextsTyped
<1>5. PICK y : y = SubSeq(x, a + 1, b)
  OBVIOUS
<1>6. y \in Seq(Nat) /\ Len(y) = b - a /\ \A j \in 1 .. b - a : y[j] = x[a + j]
  BY <1>4, <1>5, SliceOf
<1>7. /\ Texts(w) \in Seq(Nat) /\ Len(Texts(w)) = b - a
      /\ \A i \in 1 .. b - a : Texts(w)[i] = w[i].text
  BY <1>2, TextsTyped
<1>8. ASSUME NEW j \in 1 .. b - a PROVE Texts(w)[j] = y[j]
  <2>1. a + j \in 1 .. Len(u)
    BY TextsTyped
  <2> QED
    BY <1>2, <1>4, <1>6, <1>7, <2>1
<1>9. Texts(w) = y
  BY <1>6, <1>7, <1>8, SeqEqual
<1> QED
  BY <1>1, <1>3, <1>5, <1>9

\* The words of each page, tagged with it.
OnPages(pages) ==
  [p \in DOMAIN pages |-> [i \in DOMAIN pages[p] |-> Word(pages[p][i], p)]]

\* They are as many, and their texts are the page's.
LEMMA OnPagesTyped ==
  ASSUME NEW pages \in Seq(Seq(Nat))
  PROVE  /\ OnPages(pages) \in Seq(Seq(Tagged)) /\ Len(OnPages(pages)) = Len(pages)
         /\ \A p \in 1 .. Len(pages) :
              /\ OnPages(pages)[p] \in Seq(Tagged)
              /\ Texts(OnPages(pages)[p]) = pages[p] /\ pages[p] \in Seq(Nat)
              /\ Len(OnPages(pages)[p]) = Len(pages[p])
              /\ \A i \in 1 .. Len(pages[p]) : OnPages(pages)[p][i].page = p
<1> DEFINE words == OnPages(pages)
<1>1. Len(pages) \in Nat /\ DOMAIN pages = 1 .. Len(pages)
  BY LenProperties
<1>2. ASSUME NEW p \in 1 .. Len(pages)
      PROVE  /\ words[p] \in Seq(Tagged) /\ Texts(words[p]) = pages[p] /\ pages[p] \in Seq(Nat)
             /\ Len(words[p]) = Len(pages[p])
             /\ \A i \in 1 .. Len(pages[p]) : words[p][i].page = p
  <2>1. PICK line : line = pages[p]
    OBVIOUS
  <2>2. line \in Seq(Nat) /\ p \in Nat
    BY <1>1, <2>1
  <2>3. PICK n \in Nat : n = Len(line) /\ DOMAIN line = 1 .. n
    BY <2>2, LenProperties
  <2>4. words[p] = [i \in 1 .. n |-> Word(line[i], p)]
    BY <1>1, <2>1, <2>3 DEF OnPages
  <2>5. \A i \in 1 .. n : line[i] \in Nat
    BY <2>2, <2>3, ElementOfSeq
  <2>6. \A i \in 1 .. n : /\ Word(line[i], p) \in Tagged
                          /\ Word(line[i], p).text = line[i] /\ Word(line[i], p).page = p
    BY <2>2, <2>5 DEF Word, Tagged
  <2>7. words[p] \in [1 .. n -> Tagged]
    BY <2>4, <2>6
  <2>8. words[p] \in Seq(Tagged) /\ Len(words[p]) = n
    BY <2>7, FunctionIsSeq
  <2>9. Texts(words[p]) = line
    <3>1. /\ Texts(words[p]) \in Seq(Nat) /\ Len(Texts(words[p])) = n
          /\ \A i \in 1 .. n : Texts(words[p])[i] = words[p][i].text
      <4> HIDE DEF words
      <4> QED
        BY <2>8, TextsTyped
    <3>2. \A i \in 1 .. n : Texts(words[p])[i] = line[i]
      BY <2>4, <2>6, <3>1
    <3> QED
      BY <2>2, <2>3, <3>1, <3>2, SeqEqual
  <2> QED
    BY <2>1, <2>2, <2>3, <2>4, <2>6, <2>8, <2>9
<1>3. words \in Seq(Seq(Tagged)) /\ Len(words) = Len(pages)
  <2>1. DOMAIN words = 1 .. Len(pages) /\ words = [p \in DOMAIN words |-> words[p]]
    BY <1>1 DEF OnPages
  <2> HIDE DEF words
  <2>2. words \in [1 .. Len(pages) -> Seq(Tagged)]
    BY <1>2, <2>1
  <2> QED
    BY <1>1, <2>2, FunctionIsSeq
<1> QED
  BY <1>2, <1>3

\* The words read as the pages do.
LEMMA WordsReadAsPages ==
  ASSUME NEW pages \in Seq(Seq(Nat)), NEW f, Steps(OnPages(pages), Tagged, f)
  PROVE  /\ Steps(pages, Nat, [i \in 0 .. Len(pages) |-> Texts(f[i])])
         /\ FlattenWords(pages) = f[Len(pages)]
         /\ Texts(FlattenWords(pages)) = FlattenSeq(pages)
<1>1. PICK words : words = OnPages(pages)
  OBVIOUS
<1>2. words \in Seq(Seq(Tagged)) /\ Len(words) = Len(pages) /\ Len(pages) \in Nat
  BY <1>1, OnPagesTyped, LenProperties
<1>3. Steps(words, Tagged, f)
  BY <1>1
<1>4. PICK h : h = [i \in 0 .. Len(pages) |-> Texts(f[i])]
  OBVIOUS
<1>5. \A i \in 0 .. Len(pages) : f[i] \in Seq(Tagged)
  BY <1>2, <1>3, StepsTyped
<1>6. \A i \in 0 .. Len(pages) : h[i] \in Seq(Nat)
  BY <1>4, <1>5, TextsTyped
<1>7. h[0] = <<>>
  <2>1. f[0] = <<>> /\ 0 \in 0 .. Len(pages)
    BY <1>2, <1>3 DEF Steps
  <2>2. Texts(<<>>) = <<>>
    BY DEF Texts
  <2> QED
    BY <1>4, <2>1, <2>2
<1>8. ASSUME NEW i \in 1 .. Len(pages) PROVE h[i] = h[i - 1] \o pages[i]
  <2>1. i - 1 \in 0 .. Len(pages) /\ i \in 0 .. Len(pages)
    BY <1>2
  <2>2. f[i] = f[i - 1] \o words[i]
    BY <1>2, <1>3 DEF Steps
  <2>3. words[i] \in Seq(Tagged) /\ Texts(words[i]) = pages[i]
    BY <1>1, OnPagesTyped
  <2>4. Texts(f[i - 1] \o words[i]) = Texts(f[i - 1]) \o Texts(words[i])
    BY <1>5, <2>1, <2>3, TextsJoined
  <2> QED
    BY <1>4, <2>1, <2>2, <2>3, <2>4
<1>9. Steps(pages, Nat, h)
  BY <1>4, <1>6, <1>7, <1>8 DEF Steps
<1>10. FlattenSeq(pages) = h[Len(pages)]
  BY <1>9, FlattenSeqIs
<1>11. FlattenSeq(words) = f[Len(pages)]
  BY <1>2, <1>3, FlattenSeqIs
<1>12. FlattenWords(pages) = FlattenSeq(words)
  BY <1>1 DEF FlattenWords, OnPages
<1>13. h[Len(pages)] = Texts(f[Len(pages)])
  BY <1>2, <1>4
<1> QED
  BY <1>4, <1>9, <1>10, <1>11, <1>12, <1>13

\* m windows cover n words.
InARow(n, size, overlap, start, m) ==
  /\ Ordinals(n, size, overlap) = 0 .. m - 1
  /\ n = 0 <=> m = 0
  /\ m # 0 => start[m - 1] + size >= n
  /\ \A k \in 0 .. m - 1 : k # m - 1 => start[k] + size < n

\* The windows are numbered from 0 on; one begins a step after the one before, as
\* long as that one has not reached the end, and the last one has.
LEMMA WindowsInARow ==
  ASSUME NEW n \in Nat, NEW size \in Nat, NEW overlap \in Nat, ValidSizes(size, overlap),
         NEW start, start = [k \in Nat |-> k * (size - overlap)]
  PROVE  \E m \in Nat : InARow(n, size, overlap, start, m)
<1>1. PICK step \in Nat : step = size - overlap /\ step >= 1 /\ step <= size
  BY DEF ValidSizes
<1>2. \A k \in Nat : start[k] = k * step
  BY <1>1
<1>3. \A k \in Nat : start[k] \in Nat /\ start[k + 1] = start[k] + step
  <2> TAKE k \in Nat
  <2>1. k * step \in Nat /\ (k + 1) * step = k * step + step
    BY <1>1
  <2> QED
    BY <1>2, <2>1
<1>4. \A k \in Nat : start[k] >= k
  <2> SUFFICES ASSUME NEW k \in Nat PROVE start[k] >= k
    OBVIOUS
  <2>1. PICK e \in Nat : step = e + 1
    <3>1. step - 1 \in Nat /\ step = (step - 1) + 1
      BY <1>1
    <3> QED
      BY <3>1
  <2>2. k * step = k * e + k /\ k * e \in Nat
    BY <2>1
  <2> QED
    BY <1>2, <2>2
<1>5. \A k \in Nat : k \in Ordinals(n, size, overlap) <=>
                       k < n /\ (k = 0 \/ start[k - 1] + size < n)
  <2> TAKE k \in Nat
  <2>1. k # 0 => start[k - 1] = (k - 1) * (size - overlap)
    <3>1. k # 0 => k - 1 \in Nat
      OBVIOUS
    <3> QED
      BY <3>1
  <2>2. k \in 0 .. n - 1 <=> k < n
    OBVIOUS
  <2> QED
    BY <2>1, <2>2 DEF Ordinals
<1> DEFINE O == Ordinals(n, size, overlap)
           T == {k \in Nat : k \notin O}
<1>6. O \in SUBSET Nat
  BY DEF Ordinals
<1>7. PICK m \in T : \A k \in Nat : k < m => k \notin T
  <2>1. n \in T /\ T \in SUBSET Nat
    BY <1>5
  <2> HIDE DEF T
  <2> QED
    BY <2>1, LeastNumber
<1>8. m \in Nat /\ m \notin O /\ \A k \in Nat : k < m => k \in O
  BY <1>7
<1> HIDE DEF T
<1>9. \A k \in Nat : k + 1 \in O => k \in O
  <2> SUFFICES ASSUME NEW k \in Nat, k + 1 \in O PROVE k \in O
    OBVIOUS
  <2>1. k + 1 < n /\ start[k] + size < n
    <3>1. k + 1 \in Nat /\ k + 1 # 0 /\ k + 1 - 1 = k
      OBVIOUS
    <3> HIDE DEF O
    <3> QED
      BY <1>5, <3>1 DEF O
  <2>2. CASE k = 0
    BY <1>5, <2>1, <2>2
  <2>3. CASE k # 0
    <3>1. k - 1 \in Nat /\ k - 1 + 1 = k
      BY <2>3
    <3>2. start[k] = start[k - 1] + step /\ start[k - 1] \in Nat
      BY <1>3, <3>1
    <3>3. start[k - 1] + size < n
      BY <2>1, <3>2
    <3> QED
      BY <1>5, <2>1, <3>3
  <2> QED
    BY <2>2, <2>3
<1>10. \A k \in O : k < m
  <2> DEFINE U == {k \in O : ~ k < m}
  <2> SUFFICES ASSUME U # {} PROVE FALSE
    OBVIOUS
  <2>1. PICK k \in U : \A j \in Nat : j < k => j \notin U
    <3>1. U \in SUBSET Nat
      BY <1>6
    <3> HIDE DEF U
    <3> QED
      BY <3>1, LeastNumber
  <2>2. k \in O /\ k \in Nat /\ ~ k < m
    BY <1>6
  <2>3. k # m
    BY <1>8, <2>2
  <2>4. k - 1 \in Nat /\ k - 1 + 1 = k /\ k - 1 < k /\ ~ k - 1 < m
    BY <1>8, <2>2, <2>3
  <2>5. k - 1 \in O
    BY <1>9, <2>2, <2>4
  <2> QED
    BY <2>1, <2>4, <2>5
<1>11. O = 0 .. m - 1
  <2> HIDE DEF O
  <2>1. \A k \in O : k \in Nat /\ k < m
    BY <1>6, <1>10
  <2>2. \A k : k \in 0 .. m - 1 <=> k \in Nat /\ k < m
    BY <1>8
  <2> QED
    BY <1>8, <2>1, <2>2
<1>12. n = 0 <=> m = 0
  BY <1>5, <1>8
<1>13. m # 0 => start[m - 1] + size >= n
  <2> SUFFICES ASSUME m # 0 PROVE start[m - 1] + size >= n
    OBVIOUS
  <2>1. m - 1 \in Nat
    BY <1>8
  <2>2. start[m - 1] \in Nat /\ start[m - 1] >= m - 1
    BY <1>3, <1>4, <2>1
  <2>3. ~ m < n \/ ~ start[m - 1] + size < n
    BY <1>5, <1>8
  <2> QED
    BY <1>1, <1>8, <2>2, <2>3
<1>14. \A k \in 0 .. m - 1 : k # m - 1 => start[k] + size < n
  <2> SUFFICES ASSUME NEW k \in 0 .. m - 1, k # m - 1 PROVE start[k] + size < n
    OBVIOUS
  <2>1. k + 1 \in Nat /\ k + 1 < m /\ k + 1 # 0 /\ k + 1 - 1 = k
    BY <1>8
  <2>2. k + 1 \in O
    BY <1>8, <2>1
  <2> QED
    BY <1>5, <2>1, <2>2
<1> QED
  BY <1>8, <1>11, <1>12, <1>13, <1>14 DEF InARow

\* The chunks of n words are numbered from 1 to m, and chunk i has the words after
\* the first from[i] ones up to the first to[i], which the next one goes on from.
Windows(words, chunks, overlap, m, from, to) ==
  /\ m \in Nat /\ from \in [1 .. m -> Nat] /\ to \in [0 .. m -> Nat]
  /\ to[0] = 0 /\ to[m] = Len(words)
  /\ DOMAIN chunks = 1 .. m
  /\ \A i \in 1 .. m :
       /\ from[i] + 1 <= to[i] /\ to[i - 1] < to[i] /\ to[i] <= Len(words)
       /\ from[i] + (IF i = 1 THEN 0 ELSE overlap) = to[i - 1]
       /\ chunks[i] = ChunkData(i - 1, SubSeq(words, from[i] + 1, to[i]))

\* Chunking a document cuts its words that way.
LEMMA ChunksAreWindows ==
  ASSUME NEW pages \in Seq(Seq(Nat)), NEW size \in Nat, NEW overlap \in Nat,
         ValidSizes(size, overlap)
  PROVE  \E m, from, to :
           Windows(FlattenWords(pages), ChunkDocument(pages, size, overlap), overlap, m, from, to)
<1> DEFINE words == FlattenWords(pages)
           n == Len(words)
           Start(k) == k * (size - overlap)
           End(k) == IF Start(k) + size < n THEN Start(k) + size ELSE n
           Window(k) == SubSeq(words, Start(k) + 1, End(k))
           D == {k + 1 : k \in Ordinals(n, size, overlap)}
           chunks == [i \in D |-> ChunkData(i - 1, Window(i - 1))]
<1>1. ChunkDocument(pages, size, overlap) = chunks
  BY DEF ChunkDocument
<1>2. words \in Seq(Tagged) /\ n \in Nat
  <2>1. words \in Seq(Tagged)
    BY WordsTyped
  <2> HIDE DEF words
  <2> QED
    BY <2>1, LenProperties
<1> HIDE DEF words, n
<1>3. PICK start : start = [k \in Nat |-> k * (size - overlap)]
  OBVIOUS
<1>21. PICK m \in Nat : InARow(n, size, overlap, start, m)
  BY <1>2, <1>3, WindowsInARow
<1>4. /\ m \in Nat /\ Ordinals(n, size, overlap) = 0 .. m - 1
      /\ n = 0 <=> m = 0
      /\ m # 0 => start[m - 1] + size >= n
      /\ \A k \in 0 .. m - 1 : k # m - 1 => start[k] + size < n
  BY <1>21 DEF InARow
<1>5. size - overlap \in Nat /\ size - overlap > 0 /\ size = (size - overlap) + overlap
  BY DEF ValidSizes
<1>6. start[0] = 0 /\ \A k \in Nat : start[k + 1] = start[k] + (size - overlap)
  <2>1. PICK step \in Nat : step = size - overlap
    BY <1>5
  <2>2. \A k \in Nat : start[k] = k * step
    BY <1>3, <2>1
  <2>3. \A k \in Nat : (k + 1) * step = k * step + step
    OBVIOUS
  <2>4. 0 * step = 0
    OBVIOUS
  <2> QED
    BY <2>1, <2>2, <2>3, <2>4
<1>7. \A k \in Nat : Start(k) = start[k]
  BY <1>3
<1> HIDE DEF Start
<1>8. D = 1 .. m /\ DOMAIN chunks = 1 .. m
  <2>1. D = {k + 1 : k \in 0 .. m - 1}
    BY <1>4
  <2>2. \A i : i \in 1 .. m => i - 1 \in 0 .. m - 1 /\ i = (i - 1) + 1
    BY <1>4
  <2>3. \A k \in 0 .. m - 1 : k + 1 \in 1 .. m
    BY <1>4
  <2> HIDE DEF D
  <2>4. D = 1 .. m
    BY <2>1, <2>2, <2>3
  <2> QED
    BY <2>4
<1>9. \A k \in 0 .. m - 1 : /\ Start(k) \in Nat /\ End(k) \in Nat
                            /\ Start(k) + 1 <= End(k) /\ End(k) <= n
  <2> TAKE k \in 0 .. m - 1
  <2>1. k \in Ordinals(n, size, overlap)
    BY <1>4
  <2> QED
    BY <1>2, <2>1, WindowFits DEF Start
<1> DEFINE from == [i \in 1 .. m |-> Start(i - 1)]
           to == [i \in 0 .. m |-> IF i = 0 THEN 0 ELSE End(i - 1)]
<1>10. \A i \in 1 .. m : i - 1 \in 0 .. m - 1 /\ i \in 0 .. m /\ i # 0
  BY <1>4
<1>11. \A i \in 1 .. m : from[i] = Start(i - 1) /\ to[i] = End(i - 1)
  BY <1>10
<1>12. from \in [1 .. m -> Nat] /\ to \in [0 .. m -> Nat]
  <2>1. \A i \in 0 .. m : i # 0 => i - 1 \in 0 .. m - 1
    BY <1>4
  <2> HIDE DEF End
  <2> QED
    BY <1>9, <1>10, <2>1
<1>13. to[0] = 0 /\ 0 \in 0 .. m
  BY <1>4
<1>14. to[m] = n
  <2>1. CASE m = 0
    BY <1>4, <1>13, <2>1
  <2>2. CASE m # 0
    <3>1. m \in 1 .. m /\ m - 1 \in Nat
      BY <1>4, <2>2
    <3>2. to[m] = End(m - 1)
      BY <1>11, <3>1
    <3>3. Start(m - 1) + size >= n /\ Start(m - 1) \in Nat
      BY <1>4, <1>7, <1>9, <1>10, <2>2, <3>1
    <3> QED
      BY <1>2, <3>2, <3>3
  <2> QED
    BY <2>1, <2>2
<1>15. ASSUME NEW i \in 1 .. m
       PROVE  /\ from[i] + 1 <= to[i] /\ to[i - 1] < to[i] /\ to[i] <= n
              /\ from[i] + (IF i = 1 THEN 0 ELSE overlap) = to[i - 1]
              /\ chunks[i] = ChunkData(i - 1, SubSeq(words, from[i] + 1, to[i]))
  <2>1. from[i] + 1 <= to[i] /\ to[i] <= n /\ from[i] \in Nat /\ to[i] \in Nat
    <3> HIDE DEF from, to, End
    <3> QED
      BY <1>9, <1>10, <1>11
  <2>2. chunks[i] = ChunkData(i - 1, SubSeq(words, from[i] + 1, to[i]))
    <3>1. chunks[i] = ChunkData(i - 1, Window(i - 1))
      BY <1>8
    <3> HIDE DEF chunks, from, to
    <3> QED
      BY <1>11, <3>1
  <2>3. CASE i = 1
    <3>1. from[i] = 0 /\ to[i - 1] = 0
      <4>1. from[1] = Start(0) /\ 1 - 1 = 0
        BY <1>11, <2>3
      <4>2. Start(0) = start[0]
        BY <1>7
      <4> QED
        BY <1>6, <1>13, <2>3, <4>1, <4>2
    <3> HIDE DEF from, to, chunks
    <3> QED
      BY <2>1, <2>2, <2>3, <3>1
  <2>4. CASE i # 1
    <3>1. PICK k \in Nat : k = i - 2
      <4>1. i - 2 \in Nat
        BY <2>4
      <4> QED
        BY <4>1
    <3>2. i - 1 \in 1 .. m /\ i - 1 - 1 = k /\ i - 1 = k + 1 /\ k \in 0 .. m - 1 /\ k # m - 1
      BY <1>4, <3>1
    <3>3. to[i - 1] = End(k)
      BY <1>11, <3>2
    <3>4. from[i] = start[k + 1] /\ start[k + 1] = start[k] + (size - overlap)
      <4>1. from[i] = Start(k + 1)
        BY <1>11, <3>2
      <4>2. Start(k + 1) = start[k + 1]
        BY <1>7
      <4> QED
        BY <1>6, <4>1, <4>2
    <3>5. start[k] + size < n /\ Start(k) = start[k] /\ Start(k) \in Nat
      BY <1>4, <1>7, <1>9, <3>2
    <3>6. End(k) = start[k] + size
      BY <3>5
    <3>7. to[i] = End(k + 1)
      BY <1>11, <3>2
    <3>8. Start(k + 1) = start[k + 1]
      BY <1>7
    <3>9. End(k + 1) = IF start[k + 1] + size < n THEN start[k + 1] + size ELSE n
      BY <3>8
    <3> HIDE DEF from, to, chunks, End
    <3>10. to[i - 1] < to[i]
      BY <1>2, <1>5, <3>3, <3>4, <3>5, <3>6, <3>7, <3>9
    <3>11. from[i] + overlap = to[i - 1]
      BY <1>5, <3>3, <3>4, <3>5, <3>6
    <3> QED
      BY <2>1, <2>2, <2>4, <3>10, <3>11
  <2> QED
    BY <2>3, <2>4
<1> HIDE DEF from, to, chunks
<1>16. Windows(words, chunks, overlap, m, from, to)
  BY <1>2, <1>4, <1>8, <1>12, <1>13, <1>14, <1>15 DEF Windows, n
<1>17. Windows(FlattenWords(pages), ChunkDocument(pages, size, overlap), overlap, m, from, to)
  BY <1>1, <1>16 DEF words
<1> QED
  BY <1>17

\* c has the words after a up to b, and their pages.
HasWords(c, words, a, b) ==
  /\ c.text = SubSeq(Texts(words), a + 1, b)
  /\ c.text \in Seq(Nat) /\ Len(c.text) = b - a
  /\ c.page_start = words[a + 1].page /\ c.page_end = words[b].page

\* What a chunk says of its window.
LEMMA WindowOfChunk ==
  ASSUME NEW words \in Seq(Tagged), NEW a \in Nat, NEW b \in Nat, a + 1 <= b, b <= Len(words),
         NEW k
  PROVE  HasWords(ChunkData(k, SubSeq(words, a + 1, b)), words, a, b)
<1>9. PICK c : c = ChunkData(k, SubSeq(words, a + 1, b))
  OBVIOUS
<1>1. a <= b
  OBVIOUS
<1>2. PICK w : w = SubSeq(words, a + 1, b)
  OBVIOUS
<1>3. w \in Seq(Tagged) /\ Len(w) = b - a /\ \A j \in 1 .. b - a : w[j] = words[a + j]
  BY <1>1, <1>2, SliceOf
<1>4. c.text = Texts(w) /\ c.page_start = w[1].page /\ c.page_end = w[Len(w)].page
  BY <1>2, <1>9 DEF ChunkData
<1>5. Texts(w) = SubSeq(Texts(words), a + 1, b)
  BY <1>1, <1>2, TextsOfSlice
<1>6. Texts(w) \in Seq(Nat) /\ Len(Texts(w)) = b - a
  BY <1>3, TextsTyped
<1>7. 1 \in 1 .. b - a /\ b - a \in 1 .. b - a /\ a + (b - a) = b
  OBVIOUS
<1>8. w[1] = words[a + 1] /\ w[Len(w)] = words[b]
  BY <1>3, <1>7
<1> QED
  BY <1>4, <1>5, <1>6, <1>8, <1>9 DEF HasWords

-----------------------------------------------------------------------------
\* A document can be put together from its chunks by dropping from each the words it
\* shares with the one before (chunking.py:98-121).
THEOREM ChunksMakeTheText ==
  ASSUME NEW pages \in Seq(Seq(Nat)), NEW size \in Nat, NEW overlap \in Nat,
         ValidSizes(size, overlap)
  PROVE  ChunksRebuildText(pages, ChunkDocument(pages, size, overlap), overlap)
<1>1. PICK words : words = FlattenWords(pages)
  OBVIOUS
<1>2. PICK chunks : chunks = ChunkDocument(pages, size, overlap)
  OBVIOUS
<1>3. PICK m, from, to : Windows(words, chunks, overlap, m, from, to)
  BY <1>1, <1>2, ChunksAreWindows
<1>4. words \in Seq(Tagged)
  BY <1>1, WordsTyped
<1>5. PICK text : text = Texts(words)
  OBVIOUS
<1>6. text \in Seq(Nat) /\ Len(text) = Len(words) /\ Len(words) \in Nat
  BY <1>4, <1>5, TextsTyped
<1>7. m \in Nat /\ DOMAIN chunks = 1 .. m /\ from \in [1 .. m -> Nat] /\ to \in [0 .. m -> Nat]
      /\ to[0] = 0 /\ to[m] = Len(words)
  BY <1>3 DEF Windows
<1>8. \A i \in 1 .. m : i - 1 \in 0 .. m /\ i \in 0 .. m
  BY <1>7
<1>9. ASSUME NEW i \in 1 .. m
      PROVE  /\ to[i - 1] <= to[i] /\ to[i] <= Len(text)
             /\ i > 1 => Len(chunks[i].text) > overlap
             /\ (IF i = 1 THEN chunks[i].text
                 ELSE SubSeq(chunks[i].text, overlap + 1, Len(chunks[i].text)))
                = SubSeq(text, to[i - 1] + 1, to[i])
  <2>1. PICK a \in Nat : a = from[i]
    BY <1>7
  <2>2. PICK b \in Nat : b = to[i]
    BY <1>7, <1>8
  <2>3. PICK before \in Nat : before = to[i - 1]
    BY <1>7, <1>8
  <2>4. /\ a + 1 <= b /\ before < b /\ b <= Len(words)
        /\ a + (IF i = 1 THEN 0 ELSE overlap) = before
        /\ chunks[i] = ChunkData(i - 1, SubSeq(words, a + 1, b))
    BY <1>3, <1>7, <2>1, <2>2, <2>3 DEF Windows
  <2>5. PICK t : t = chunks[i].text
    OBVIOUS
  <2>6. t = SubSeq(text, a + 1, b) /\ Len(t) = b - a
    <3>1. HasWords(chunks[i], words, a, b)
      BY <1>4, <2>4, WindowOfChunk
    <3> QED
      BY <1>5, <2>5, <3>1 DEF HasWords
  <2>9. before <= b /\ b <= Len(text)
    BY <1>6, <2>4
  <2>7. CASE i = 1
    <3>1. t = SubSeq(text, before + 1, b) /\ ~ i > 1
      <4>1. a = before
        BY <2>4, <2>7
      <4> QED
        BY <2>6, <2>7, <4>1
    <3> QED
      BY <2>2, <2>3, <2>5, <2>7, <2>9, <3>1
  <2>8. CASE i # 1
    <3>1. a + overlap = before /\ overlap <= b - a /\ b - a > overlap /\ a <= b /\ a + (b - a) = b
      BY <2>4, <2>8
    <3>2. b - a \in Nat /\ b - a <= b - a /\ b <= Len(text)
      BY <1>6, <2>4, <3>1
    <3>3. SubSeq(SubSeq(text, a + 1, b), overlap + 1, b - a) = SubSeq(text, a + overlap + 1, a + (b - a))
      BY <1>6, <3>1, <3>2, SliceOfSlice
    <3>4. SubSeq(t, overlap + 1, Len(t)) = SubSeq(text, before + 1, b)
      BY <2>6, <3>1, <3>3
    <3> QED
      BY <2>2, <2>3, <2>5, <2>6, <2>8, <2>9, <3>1, <3>4
  <2> QED
    BY <2>7, <2>8
<1>10. FlattenSeq([i \in 1 .. m |-> SubSeq(text, to[i - 1] + 1, to[i])]) = text
  BY <1>6, <1>7, <1>9, CutAndJoined
<1>11. [i \in DOMAIN chunks |->
          IF i = 1 THEN chunks[i].text
          ELSE SubSeq(chunks[i].text, overlap + 1, Len(chunks[i].text))]
       = [i \in 1 .. m |-> SubSeq(text, to[i - 1] + 1, to[i])]
  BY <1>7, <1>9
<1> QED
  BY <1>1, <1>2, <1>5, <1>7, <1>9, <1>10, <1>11 DEF ChunksRebuildText

\* Every word stands on its page.
LEMMA WordsOnTheirPages ==
  ASSUME NEW pages \in Seq(Seq(Nat)), NEW f, Steps(OnPages(pages), Tagged, f),
         NEW k \in 1 .. Len(FlattenWords(pages))
  PROVE  LET p == FlattenWords(pages)[k].page
         IN  p \in 1 .. Len(pages) /\ Len(f[p - 1]) < k /\ k <= Len(f[p])
<1>1. PICK parts : parts = OnPages(pages)
  OBVIOUS
<1>2. PICK words : words = FlattenWords(pages)
  OBVIOUS
<1>3. parts \in Seq(Seq(Tagged)) /\ Len(parts) = Len(pages) /\ Len(pages) \in Nat
  BY <1>1, OnPagesTyped, LenProperties
<1>4. words = f[Len(parts)]
  BY <1>1, <1>2, <1>3, WordsReadAsPages
<1>5. Steps(parts, Tagged, f)
  BY <1>1
<1>6. PICK p \in 1 .. Len(parts) : Len(f[p - 1]) < k /\ k <= Len(f[p])
  BY <1>2, <1>3, <1>4, <1>5, StepsFrom
<1>7. Stands(parts[p], words, Len(f[p - 1]), Len(f[p]))
  BY <1>3, <1>4, <1>5, StepsAt
<1>8. PICK j \in 1 .. Len(parts[p]) : Len(f[p - 1]) + j = k
  <2>1. PICK a : a = Len(f[p - 1])
    OBVIOUS
  <2>2. a \in Nat /\ Len(parts[p]) \in Nat /\ Len(f[p]) = a + Len(parts[p])
    BY <1>7, <2>1 DEF Stands
  <2>3. k \in Nat
    OBVIOUS
  <2>4. k - a \in 1 .. Len(parts[p]) /\ a + (k - a) = k
    <3>1. PICK n \in Nat : n = Len(parts[p])
      BY <2>2
    <3>2. a < k /\ k <= a + n /\ a \in Nat
      BY <1>6, <2>1, <2>2, <3>1
    <3>3. k - a \in 1 .. n /\ a + (k - a) = k
      BY ONLY <2>3, <3>2, n \in Nat
    <3> QED
      BY <3>1, <3>3
  <2> QED
    BY <2>1, <2>4
<1>9. words[k] = parts[p][j]
  BY <1>7, <1>8 DEF Stands
<1>10. Len(parts[p]) = Len(pages[p]) /\ \A i \in 1 .. Len(pages[p]) : parts[p][i].page = p
  BY <1>1, <1>3, OnPagesTyped
<1>11. words[k].page = p
  BY <1>9, <1>10
<1> QED
  BY <1>2, <1>3, <1>6, <1>11

\* A chunk's pages span exactly its words (chunking.py:105-110).
THEOREM ChunksKnowPages ==
  ASSUME NEW pages \in Seq(Seq(Nat)), NEW size \in Nat, NEW overlap \in Nat,
         ValidSizes(size, overlap)
  PROVE  ChunksKnowTheirPages(pages, ChunkDocument(pages, size, overlap))
<1>1. PICK words : words = FlattenWords(pages)
  OBVIOUS
<1>2. PICK chunks : chunks = ChunkDocument(pages, size, overlap)
  OBVIOUS
<1>3. PICK m, from, to : Windows(words, chunks, overlap, m, from, to)
  BY <1>1, <1>2, ChunksAreWindows
<1>4. words \in Seq(Tagged)
  BY <1>1, WordsTyped
<1>5. PICK f : Steps(OnPages(pages), Tagged, f)
  <2>1. OnPages(pages) \in Seq(Seq(Tagged))
    BY OnPagesTyped
  <2> QED
    BY <2>1, FlattenSeqSteps
<1>6. PICK n \in Nat : n = Len(pages)
  BY LenProperties
<1>7. PICK g : g = [i \in 0 .. n |-> Texts(f[i])]
  OBVIOUS
<1>8. PICK text : text = FlattenSeq(pages)
  OBVIOUS
<1>9. Steps(pages, Nat, g) /\ text = Texts(words)
  BY <1>1, <1>5, <1>6, <1>7, <1>8, WordsReadAsPages
<1>10. \A i \in 0 .. n : Len(g[i]) = Len(f[i]) /\ Len(g[i]) \in Nat
  <2> TAKE i \in 0 .. n
  <2>1. f[i] \in Seq(Tagged)
    <3>1. OnPages(pages) \in Seq(Seq(Tagged)) /\ Len(OnPages(pages)) = n
      BY <1>6, OnPagesTyped
    <3> QED
      BY <1>5, <3>1, StepsTyped
  <2> QED
    BY <1>7, <2>1, TextsTyped
<1>11. ASSUME NEW i \in DOMAIN chunks
       PROVE  LET c == chunks[i]
                  span == FlattenSeq(SubSeq(pages, c.page_start, c.page_end))
              IN  \E first \in 1 .. Len(pages[c.page_start]) :
                    LET last == first + Len(c.text) - 1
                    IN  /\ last \in Len(span) - Len(pages[c.page_end]) + 1 .. Len(span)
                        /\ SubSeq(span, first, last) = c.text
  <2>1. PICK c : c = chunks[i]
    OBVIOUS
  <2>2. i \in 1 .. m /\ from[i] \in Nat /\ to[i] \in Nat
    <3>1. m \in Nat /\ i \in 1 .. m /\ from \in [1 .. m -> Nat] /\ to \in [0 .. m -> Nat]
      BY <1>3 DEF Windows
    <3> QED
      BY <3>1
  <2>3. PICK a \in Nat : a = from[i]
    BY <2>2
  <2>4. PICK b \in Nat : b = to[i]
    BY <2>2
  <2>5. a + 1 <= b /\ b <= Len(words) /\ c = ChunkData(i - 1, SubSeq(words, a + 1, b))
    BY <1>3, <2>1, <2>2, <2>3, <2>4 DEF Windows
  <2>6. /\ c.text = SubSeq(text, a + 1, b) /\ Len(c.text) = b - a
        /\ c.page_start = words[a + 1].page /\ c.page_end = words[b].page
    <3>1. HasWords(c, words, a, b)
      BY <1>4, <2>5, WindowOfChunk
    <3> QED
      BY <1>9, <3>1 DEF HasWords
  <2>7. PICK p : p = c.page_start
    OBVIOUS
  <2>8. PICK q : q = c.page_end
    OBVIOUS
  <2>9. p \in 1 .. n /\ Len(f[p - 1]) < a + 1 /\ a + 1 <= Len(f[p])
    <3>1. a + 1 \in 1 .. Len(words)
      BY <1>4, <2>5, TextsTyped
    <3> QED
      BY <1>1, <1>5, <1>6, <2>6, <2>7, <3>1, WordsOnTheirPages
  <2>10. q \in 1 .. n /\ Len(f[q - 1]) < b /\ b <= Len(f[q])
    <3>1. b \in 1 .. Len(words)
      BY <1>4, <2>5, TextsTyped
    <3> QED
      BY <1>1, <1>5, <1>6, <2>6, <2>8, <3>1, WordsOnTheirPages
  <2>11. \A j \in 1 .. n : j - 1 \in 0 .. n /\ j \in 0 .. n
    BY <1>6
  <2>12. PICK A \in Nat : A = Len(g[p - 1]) /\ A = Len(f[p - 1])
    BY <1>10, <2>9, <2>11
  <2>13. PICK A1 \in Nat : A1 = Len(g[p]) /\ A1 = Len(f[p])
    BY <1>10, <2>9, <2>11
  <2>14. PICK B \in Nat : B = Len(g[q - 1]) /\ B = Len(f[q - 1])
    BY <1>10, <2>10, <2>11
  <2>15. PICK B1 \in Nat : B1 = Len(g[q]) /\ B1 = Len(f[q])
    BY <1>10, <2>10, <2>11
  <2>16. A < a + 1 /\ a + 1 <= A1 /\ B < b /\ b <= B1
    BY <2>9, <2>10, <2>12, <2>13, <2>14, <2>15
  <2>17. A1 = A + Len(pages[p]) /\ B1 = B + Len(pages[q])
         /\ Len(pages[p]) \in Nat /\ Len(pages[q]) \in Nat
    <3>1. Joined(g[p], g[p - 1], pages[p], Nat) /\ Joined(g[q], g[q - 1], pages[q], Nat)
      BY <1>6, <1>9, <2>9, <2>10, StepsTyped
    <3> QED
      BY <2>12, <2>13, <2>14, <2>15, <3>1 DEF Joined
  <2>18. p <= q
    <3>1. SUFFICES ASSUME ~ p <= q PROVE FALSE
      OBVIOUS
    <3>2. q <= p - 1 /\ q \in 0 .. Len(pages) /\ p - 1 \in 0 .. Len(pages)
      BY <1>6, <2>9, <2>10, <3>1
    <3>3. Len(g[q]) <= Len(g[p - 1])
      BY <1>9, <3>2, StepsStay
    <3>4. B1 <= A
      BY <2>12, <2>15, <3>3
    <3> QED
      BY <2>5, <2>16, <3>4
  <2>19. PICK span : span = FlattenSeq(SubSeq(pages, p, q))
    OBVIOUS
  <2>20. A <= B1 /\ B1 <= Len(text) /\ span = SubSeq(text, A + 1, B1)
    <3>1. p \in 1 .. Len(pages) /\ q \in p .. Len(pages)
      BY <1>6, <2>9, <2>10, <2>18
    <3>2. Spans(pages, FlattenSeq(pages), p, q, Len(g[p - 1]), Len(g[q]))
      BY <1>9, <3>1, SpanJoined
    <3>3. Spans(pages, text, p, q, A, B1)
      BY <1>8, <2>12, <2>15, <3>2
    <3> QED
      BY <2>19, <3>3 DEF Spans
  <2>21. text \in Seq(Nat) /\ Len(text) \in Nat
    BY <1>4, <1>9, TextsTyped
  <2>22. Len(span) = B1 - A
    BY <2>20, <2>21, SliceOf
  <2> DEFINE first == a + 1 - A
             last == first + Len(c.text) - 1
  <2>23. first \in 1 .. Len(pages[p])
    BY <2>16, <2>17
  <2>24. last = b - A
    BY <2>6
  <2>25. last \in Len(span) - Len(pages[q]) + 1 .. Len(span)
    <3>1. PICK n1 \in Nat : n1 = Len(pages[q])
      BY <2>17
    <3>2. B < b /\ b <= B1 /\ B1 = B + n1 /\ A <= B1
      BY <2>16, <2>17, <2>20, <3>1
    <3>3. b - A \in (B1 - A) - n1 + 1 .. B1 - A
      BY ONLY <3>2, A \in Nat, B \in Nat, b \in Nat, n1 \in Nat
    <3> HIDE DEF last
    <3> QED
      BY <2>22, <2>24, <3>1, <3>3
  <2>26. SubSeq(span, first, last) = c.text
    <3>1. PICK d \in Nat : d = a - A
      BY <2>16
    <3>2. PICK e \in Nat : e = b - A
      BY <2>5, <2>16
    <3>3. d <= e /\ e <= B1 - A /\ A + d = a /\ A + e = b /\ first = d + 1 /\ last = e
      <4>1. d <= e /\ e <= B1 - A /\ A + d = a /\ A + e = b /\ a + 1 - A = d + 1
        BY <2>5, <2>16, <3>1, <3>2
      <4> HIDE DEF last
      <4> QED
        BY <2>24, <3>2, <4>1
    <3>4. SubSeq(SubSeq(text, A + 1, B1), d + 1, e) = SubSeq(text, A + d + 1, A + e)
      BY <2>20, <2>21, <3>3, SliceOfSlice
    <3> QED
      BY <2>6, <2>20, <3>3, <3>4
  <2> HIDE DEF first, last
  <2>27. \E x \in 1 .. Len(pages[p]) :
           /\ x + Len(c.text) - 1 \in Len(span) - Len(pages[q]) + 1 .. Len(span)
           /\ SubSeq(span, x, x + Len(c.text) - 1) = c.text
    BY <2>23, <2>25, <2>26 DEF last
  <2> QED
    BY <2>1, <2>7, <2>8, <2>19, <2>27
<1> QED
  BY <1>2, <1>11 DEF ChunksKnowTheirPages

-----------------------------------------------------------------------------
(* Folds.                                                                  *)

\* Of the subsets of a finite set one is so small that it is not in the set any more
\* once an element is taken out.
LEMMA LeastSet ==
  ASSUME NEW S, IsFiniteSet(S), NEW T \in SUBSET (SUBSET S), T # {}
  PROVE  \E s \in T : \A x \in s : s \ {x} \notin T
<1> DEFINE R == StrictSubsetOrdering(S)
<1>1. IsWellFoundedOn(R, SUBSET S)
  BY FS_FiniteSubsetsOfFinite, FS_StrictSubsetOrderingWellFounded
<1>2. \A s \in SUBSET S : \A x \in s : <<s \ {x}, s>> \in R
  BY DEF StrictSubsetOrdering
<1> HIDE DEF R
<1>3. PICK s \in T : \A t \in T : <<t, s>> \notin R
  BY <1>1, WFMin
<1> QED
  BY <1>2, <1>3

\* it folds each subset of S: pick takes an element x out, G[x] takes it in.
Folds(it, S, V, base, pick, G) ==
  /\ it \in [SUBSET S -> V]
  /\ \A s \in SUBSET S :
       it[s] = IF s = {} THEN base ELSE G[pick[s]][it[s \ {pick[s]}]]

\* Every finite set can be folded.
LEMMA FoldExists ==
  ASSUME NEW S, IsFiniteSet(S), NEW V, NEW base \in V,
         NEW pick, \A s \in SUBSET S : s # {} => pick[s] \in s,
         NEW G, \A x \in S : \A v \in V : G[x][v] \in V
  PROVE  \E it : Folds(it, S, V, base, pick, G)
<1> DEFINE Upto(f, n) ==
             /\ f \in [SUBSET S -> V]
             /\ \A s \in SUBSET S : Cardinality(s) <= n =>
                  f[s] = IF s = {} THEN base ELSE G[pick[s]][f[s \ {pick[s]}]]
           Bad == {n \in Nat : ~ \E f : Upto(f, n)}
<1>1. \A s \in SUBSET S : IsFiniteSet(s) /\ Cardinality(s) \in Nat
  BY FS_Subset, FS_CardinalityType
<1>2. ASSUME Bad # {} PROVE FALSE
  <2>1. PICK m \in Bad : \A k \in Nat : k < m => k \notin Bad
    <3>1. Bad \in SUBSET Nat
      OBVIOUS
    <3> HIDE DEF Bad
    <3> QED
      BY <1>2, <3>1, LeastNumber
  <2>2. m \in Nat /\ ~ \E f : Upto(f, m)
    OBVIOUS
  <2>3. CASE m = 0
    <3> DEFINE f == [s \in SUBSET S |-> base]
    <3>1. \A s \in SUBSET S : Cardinality(s) <= 0 => s = {}
      BY <1>1, FS_EmptySet
    <3>2. Upto(f, 0)
      BY <3>1
    <3> HIDE DEF f, Upto
    <3> QED
      BY <2>2, <2>3, <3>2
  <2>4. CASE m # 0
    <3>1. PICK n \in Nat : m = n + 1 /\ n < m
      <4>1. m - 1 \in Nat /\ m = (m - 1) + 1 /\ m - 1 < m
        BY <2>2, <2>4
      <4> QED
        BY <4>1
    <3>2. PICK f : Upto(f, n)
      BY <2>1, <3>1
    <3>3. PICK g : g = [s \in SUBSET S |-> IF s = {} THEN base ELSE G[pick[s]][f[s \ {pick[s]}]]]
      OBVIOUS
    <3>4. \A s \in SUBSET S : Cardinality(s) <= n => g[s] = f[s]
      BY <3>2, <3>3
    <3>5. ASSUME NEW s \in SUBSET S, Cardinality(s) <= m
          PROVE  g[s] = IF s = {} THEN base ELSE G[pick[s]][g[s \ {pick[s]}]]
      <4>1. CASE s = {}
        BY <3>3, <4>1
      <4>2. CASE s # {}
        <5>1. PICK x \in s : x = pick[s]
          BY <4>2
        <5>2. Cardinality(s \ {x}) = Cardinality(s) - 1 /\ s \ {x} \in SUBSET S
          BY <1>1, FS_RemoveElement
        <5>3. Cardinality(s \ {x}) <= n
          BY <1>1, <3>1, <3>5, <5>2
        <5>4. g[s \ {x}] = f[s \ {x}]
          BY <3>4, <5>2, <5>3
        <5>5. g[s] = G[x][f[s \ {x}]]
          BY <3>3, <4>2, <5>1
        <5> QED
          BY <4>2, <5>1, <5>4, <5>5
      <4> QED
        BY <4>1, <4>2
    <3>6. ASSUME NEW s \in SUBSET S PROVE g[s] \in V
      <4>1. CASE s = {}
        BY <3>3, <4>1
      <4>2. CASE s # {}
        <5>1. PICK x \in s : x = pick[s]
          BY <4>2
        <5>2. f[s \ {x}] \in V /\ x \in S
          <6>1. s \ {x} \in SUBSET S
            OBVIOUS
          <6> QED
            BY <3>2, <6>1
        <5> QED
          BY <3>3, <4>2, <5>1, <5>2
      <4> QED
        BY <4>1, <4>2
    <3>7. g \in [SUBSET S -> V]
      BY <3>3, <3>6
    <3>8. Upto(g, m)
      BY <3>5, <3>7
    <3> QED
      BY <2>2, <3>8
  <2> QED
    BY <2>3, <2>4
<1>3. PICK f : Upto(f, Cardinality(S))
  <2>1. Cardinality(S) \in Nat /\ Cardinality(S) \notin Bad
    BY <1>1, <1>2
  <2> QED
    BY <2>1
<1>4. ASSUME NEW s \in SUBSET S
      PROVE  f[s] = IF s = {} THEN base ELSE G[pick[s]][f[s \ {pick[s]}]]
  <2>1. Cardinality(s) <= Cardinality(S)
    BY FS_Subset
  <2> QED
    BY <1>3, <2>1
<1>5. Folds(f, S, V, base, pick, G)
  BY <1>3, <1>4 DEF Folds
<1> QED
  BY <1>5

\* Taking the greatest number out each time.
LastOf(n) == [s \in SUBSET (1 .. n) |-> Max(s)]

\* The greatest of some of the first numbers is one of them, and of all of them the last.
LEMMA LastIsIn ==
  ASSUME NEW n \in Nat
  PROVE  /\ \A s \in SUBSET (1 .. n) : s # {} => LastOf(n)[s] = Max(s) /\ Max(s) \in s
         /\ \A i \in 1 .. n : Max(1 .. i) = i
<1>1. ASSUME NEW s \in SUBSET (1 .. n), s # {} PROVE Max(s) \in s
  <2> DEFINE T == {k \in Nat : n - k \in s}
  <2>1. T \in SUBSET Nat /\ T # {}
    <3>1. PICK x \in s : x \in 1 .. n
      BY <1>1
    <3>2. n - x \in Nat /\ n - (n - x) = x
      BY <3>1
    <3>3. n - x \in T
      BY <3>2
    <3> QED
      BY <3>3
  <2>2. PICK m \in T : \A k \in Nat : k < m => k \notin T
    <3> HIDE DEF T
    <3> QED
      BY <2>1, LeastNumber
  <2>3. n - m \in s
    OBVIOUS
  <2>4. ASSUME NEW y \in s PROVE n - m >= y
    <3>1. y \in 1 .. n /\ m \in Nat
      OBVIOUS
    <3>2. n - y \in Nat /\ n - (n - y) = y
      BY <3>1
    <3>3. n - y \in T
      BY <3>2
    <3>4. ~ n - y < m
      BY <2>2, <3>2, <3>3
    <3> QED
      BY <3>1, <3>2, <3>4
  <2>5. \E x \in s : \A y \in s : x >= y
    BY <2>3, <2>4
  <2> QED
    BY <2>5 DEF Max
<1>2. ASSUME NEW i \in 1 .. n PROVE Max(1 .. i) = i
  <2>1. i \in 1 .. i /\ \A y \in 1 .. i : i >= y
    OBVIOUS
  <2>2. Max(1 .. i) \in 1 .. i /\ \A y \in 1 .. i : Max(1 .. i) >= y
    BY <2>1 DEF Max
  <2>3. Max(1 .. i) >= i
    BY <2>1, <2>2
  <2> QED
    BY <2>2, <2>3
<1> QED
  BY <1>1, <1>2 DEF LastOf

\* Folding the first numbers that way goes up step by step.
LEMMA FoldInSteps ==
  ASSUME NEW n \in Nat, NEW V, NEW base, NEW G, NEW it,
         Folds(it, 1 .. n, V, base, LastOf(n), G)
  PROVE  it[{}] = base /\ \A i \in 1 .. n : it[1 .. i] = G[i][it[1 .. i - 1]]
<1>1. it[{}] = base
  BY DEF Folds
<1>2. ASSUME NEW i \in 1 .. n PROVE it[1 .. i] = G[i][it[1 .. i - 1]]
  <2>1. 1 .. i \in SUBSET (1 .. n) /\ 1 .. i # {}
    <3>1. i \in 1 .. i /\ \A k \in 1 .. i : k \in 1 .. n
      OBVIOUS
    <3> QED
      BY <3>1
  <2>2. LastOf(n)[1 .. i] = i
    BY <2>1, LastIsIn
  <2>3. (1 .. i) \ {i} = 1 .. i - 1
    <3>1. \A k : k \in (1 .. i) \ {i} <=> k \in 1 .. i - 1
      OBVIOUS
    <3> QED
      BY <3>1
  <2>4. it[1 .. i] = G[LastOf(n)[1 .. i]][it[(1 .. i) \ {LastOf(n)[1 .. i]}]]
    BY <2>1 DEF Folds
  <2> QED
    BY <2>2, <2>3, <2>4
<1> QED
  BY <1>1, <1>2

-----------------------------------------------------------------------------
(* The answer stream.                                                      *)

\* A blank line begins at place i of text.
BlankAt(text, i) ==
  i \in 1 .. Len(text) - 1 /\ text[i] = LineEnd /\ text[i + 1] = LineEnd

\* The boundary is where the first one begins.
LEMMA BoundaryIs ==
  ASSUME NEW text \in Seq(Nat)
  PROVE  /\ Boundary(text) = 0 => \A i : ~ BlankAt(text, i)
         /\ Boundary(text) # 0 =>
              /\ BlankAt(text, Boundary(text))
              /\ \A i : BlankAt(text, i) => Boundary(text) <= i
         /\ \A b : BlankAt(text, b) /\ (\A i : BlankAt(text, i) => b <= i) => Boundary(text) = b
<1> DEFINE at == {i \in 1 .. Len(text) - 1 : text[i] = LineEnd /\ text[i + 1] = LineEnd}
<1>1. Len(text) \in Nat
  BY LenProperties
<1>2. \A i : i \in at <=> BlankAt(text, i)
  BY DEF BlankAt
<1>3. Boundary(text) = IF at = {} THEN 0 ELSE CHOOSE i \in at : \A j \in at : i <= j
  BY DEF Boundary
<1>4. at \in SUBSET Nat /\ 0 \notin at
  BY <1>1
<1> HIDE DEF at
<1>5. CASE at = {}
  BY <1>2, <1>3, <1>5
<1>6. CASE at # {}
  <2>1. PICK m \in at : \A k \in Nat : k < m => k \notin at
    BY <1>4, <1>6, LeastNumber
  <2>2. \A j \in at : m <= j
    BY <1>4, <2>1
  <2>3. Boundary(text) \in at /\ \A j \in at : Boundary(text) <= j
    BY <1>3, <1>6, <2>2
  <2>4. \A b \in at : (\A i \in at : b <= i) => Boundary(text) = b
    <3> TAKE b \in at
    <3>1. b \in Nat /\ Boundary(text) \in Nat
      BY <1>4, <2>3
    <3> QED
      BY <2>3, <3>1
  <2> QED
    BY <1>2, <1>4, <2>3, <2>4
<1> QED
  BY <1>5, <1>6

\* What follows the first blank line.
Rest(text) == SubSeq(text, Boundary(text) + 2, Len(text))

\* What is in front of it, and that what follows is shorter.
LEMMA AroundBoundary ==
  ASSUME NEW text \in Seq(Nat), Boundary(text) # 0
  PROVE  LET b == Boundary(text)
         IN  /\ b \in Nat /\ b >= 1 /\ b + 1 <= Len(text) /\ Len(text) \in Nat
             /\ SubSeq(text, 1, b - 1) \in Seq(Nat) /\ Handled(SubSeq(text, 1, b - 1)) \in Seq(Seq(Nat))
             /\ Rest(text) \in Seq(Nat) /\ Len(Rest(text)) \in Nat /\ Len(Rest(text)) < Len(text)
<1>1. PICK b : b = Boundary(text)
  OBVIOUS
<1>2. PICK n \in Nat : n = Len(text)
  BY LenProperties
<1>3. b \in 1 .. n - 1
  <2>1. BlankAt(text, b)
    BY <1>1, BoundaryIs
  <2> QED
    BY <1>2, <2>1 DEF BlankAt
<1>4. b \in Nat /\ b >= 1 /\ b + 1 <= n /\ b + 1 \in Nat /\ b - 1 \in Nat /\ b + 1 + 1 = b + 2 /\ b - 1 <= n
      /\ 0 <= b - 1 /\ 0 + 1 = 1 /\ 0 \in Nat
  BY <1>3
<1>5. SubSeq(text, 1, b - 1) \in Seq(Nat)
  BY <1>2, <1>4, SliceOf
<1>6. Rest(text) \in Seq(Nat) /\ Len(Rest(text)) = n - (b + 1)
  <2>1. PICK c \in Nat : c = b + 1 /\ c + 1 = b + 2 /\ c <= n
    BY <1>4
  <2>2. SubSeq(text, c + 1, n) \in Seq(Nat) /\ Len(SubSeq(text, c + 1, n)) = n - c
    BY <1>2, <2>1, SliceOf
  <2>3. Rest(text) = SubSeq(text, c + 1, n)
    BY <1>1, <1>2, <2>1 DEF Rest
  <2> QED
    BY <2>1, <2>2, <2>3
<1>7. \A frame \in Seq(Nat) : Handled(frame) \in Seq(Seq(Nat))
  BY DEF Handled
<1>8. n - (b + 1) \in Nat /\ n - (b + 1) < n
  BY <1>4
<1> QED
  BY <1>1, <1>2, <1>4, <1>5, <1>6, <1>7, <1>8

\* What the reader keeps.
StreamState == [frames : Seq(Seq(Nat)), buffer : Seq(Nat)]

\* A text is split by its first blank line and by g of what follows.
SplitBy(g, text) ==
  IF Boundary(text) = 0 THEN [frames |-> <<>>, buffer |-> text]
  ELSE [frames |-> Handled(SubSeq(text, 1, Boundary(text) - 1)) \o g[Rest(text)].frames,
        buffer |-> g[Rest(text)].buffer]

\* g splits the texts up to length n.
SplitsUpto(g, n) ==
  /\ g \in [Seq(Nat) -> StreamState]
  /\ \A text \in Seq(Nat) : Len(text) <= n => g[text] = SplitBy(g, text)

\* Splitting gives a state.
LEMMA SplitByTyped ==
  ASSUME NEW g \in [Seq(Nat) -> StreamState], NEW text \in Seq(Nat)
  PROVE  SplitBy(g, text) \in StreamState
<1>1. CASE Boundary(text) = 0
  BY <1>1 DEF SplitBy, StreamState
<1>2. CASE Boundary(text) # 0
  <2>1. PICK first : first = Handled(SubSeq(text, 1, Boundary(text) - 1))
    OBVIOUS
  <2>2. first \in Seq(Seq(Nat)) /\ Rest(text) \in Seq(Nat)
    BY <1>2, <2>1, AroundBoundary
  <2>3. g[Rest(text)] \in StreamState
    BY <2>2
  <2>4. g[Rest(text)].frames \in Seq(Seq(Nat)) /\ g[Rest(text)].buffer \in Seq(Nat)
    BY <2>3 DEF StreamState
  <2>5. first \o g[Rest(text)].frames \in Seq(Seq(Nat))
    BY ONLY <2>2, <2>4, ConcatProperties
  <2>6. SplitBy(g, text) = [frames |-> first \o g[Rest(text)].frames, buffer |-> g[Rest(text)].buffer]
    BY <1>2, <2>1 DEF SplitBy
  <2> QED
    BY <2>4, <2>5, <2>6 DEF StreamState
<1> QED
  BY <1>1, <1>2

\* What follows is all that matters of g.
LEMMA SplitByAgrees ==
  ASSUME NEW g, NEW h, NEW text \in Seq(Nat),
         Boundary(text) # 0 => g[Rest(text)] = h[Rest(text)]
  PROVE  SplitBy(g, text) = SplitBy(h, text)
BY DEF SplitBy

\* Texts of any length can be split,
LEMMA SplitsExist ==
  ASSUME NEW n \in Nat PROVE \E g : SplitsUpto(g, n)
<1> DEFINE Bad == {m \in Nat : ~ \E g : SplitsUpto(g, m)}
<1>1. SUFFICES ASSUME Bad # {} PROVE FALSE
  OBVIOUS
<1>2. PICK m \in Bad : \A k \in Nat : k < m => k \notin Bad
  <2>1. Bad \in SUBSET Nat
    OBVIOUS
  <2> HIDE DEF Bad
  <2> QED
    BY <1>1, <2>1, LeastNumber
<1>3. m \in Nat /\ ~ \E g : SplitsUpto(g, m)
  OBVIOUS
<1>4. PICK f : /\ f \in [Seq(Nat) -> StreamState]
               /\ \A text \in Seq(Nat) : Len(text) < m => f[text] = SplitBy(f, text)
  <2>1. CASE m = 0
    <3> DEFINE f == [text \in Seq(Nat) |-> [frames |-> <<>>, buffer |-> <<>>]]
    <3>1. f \in [Seq(Nat) -> StreamState]
      BY DEF StreamState
    <3>2. \A text \in Seq(Nat) : ~ Len(text) < m
      BY <2>1, LenProperties
    <3> HIDE DEF f
    <3> QED
      BY <3>1, <3>2
  <2>2. CASE m # 0
    <3>1. m - 1 \in Nat /\ m - 1 < m
      BY <1>3, <2>2
    <3>2. PICK f : SplitsUpto(f, m - 1)
      BY <1>2, <3>1
    <3>3. \A text \in Seq(Nat) : Len(text) < m => Len(text) <= m - 1
      BY <1>3, LenProperties
    <3> QED
      BY <3>2, <3>3 DEF SplitsUpto
  <2> QED
    BY <2>1, <2>2
<1>5. PICK g : g = [text \in Seq(Nat) |-> SplitBy(f, text)]
  OBVIOUS
<1>6. g \in [Seq(Nat) -> StreamState]
  BY <1>4, <1>5, SplitByTyped
<1>7. ASSUME NEW text \in Seq(Nat), Len(text) <= m PROVE g[text] = SplitBy(g, text)
  <2>1. ASSUME Boundary(text) # 0 PROVE f[Rest(text)] = g[Rest(text)]
    <3>1. Rest(text) \in Seq(Nat) /\ Len(Rest(text)) \in Nat /\ Len(Rest(text)) < Len(text)
          /\ Len(text) \in Nat
      BY <2>1, AroundBoundary
    <3>2. Len(Rest(text)) < m
      BY <1>3, <1>7, <3>1
    <3> QED
      BY <1>4, <1>5, <3>1, <3>2
  <2>2. SplitBy(f, text) = SplitBy(g, text)
    BY <2>1, SplitByAgrees
  <2> QED
    BY <1>5, <2>2
<1>8. SplitsUpto(g, m)
  BY <1>6, <1>7 DEF SplitsUpto
<1> QED
  BY <1>3, <1>8

\* in one way.
LEMMA SplitsAgree ==
  ASSUME NEW n \in Nat, NEW k \in Nat, NEW g, NEW h, SplitsUpto(g, n), SplitsUpto(h, k),
         NEW text \in Seq(Nat), Len(text) <= n, Len(text) <= k
  PROVE  g[text] = h[text]
<1> DEFINE Bad == {m \in Nat : \E t \in Seq(Nat) : Len(t) = m /\ m <= n /\ m <= k /\ g[t] # h[t]}
<1>1. SUFFICES ASSUME Bad # {} PROVE FALSE
  <2>1. Len(text) \in Nat
    BY LenProperties
  <2> QED
    BY <2>1
<1>2. PICK m \in Bad : \A j \in Nat : j < m => j \notin Bad
  <2>1. Bad \in SUBSET Nat
    OBVIOUS
  <2> HIDE DEF Bad
  <2> QED
    BY <1>1, <2>1, LeastNumber
<1>3. PICK t \in Seq(Nat) : Len(t) = m /\ m <= n /\ m <= k /\ g[t] # h[t]
  OBVIOUS
<1>4. g[t] = SplitBy(g, t) /\ h[t] = SplitBy(h, t)
  BY <1>3 DEF SplitsUpto
<1>5. ASSUME Boundary(t) # 0 PROVE g[Rest(t)] = h[Rest(t)]
  <2>1. PICK j \in Nat : j = Len(Rest(t)) /\ j < m /\ Rest(t) \in Seq(Nat)
    BY <1>3, <1>5, AroundBoundary
  <2>2. j \notin Bad
    <3> HIDE DEF Bad
    <3> QED
      BY <1>2, <2>1
  <2>3. m \in Nat /\ j <= n /\ j <= k
    BY <1>3, <2>1
  <2> QED
    BY <2>1, <2>2, <2>3
<1>6. SplitBy(g, t) = SplitBy(h, t)
  BY <1>5, SplitByAgrees
<1> QED
  BY <1>3, <1>4, <1>6

\* What is dispatched of a text and what is left of it.
LEMMA SplitIs ==
  /\ Split \in [Seq(Nat) -> StreamState]
  /\ \A text \in Seq(Nat) : Split[text] = SplitBy(Split, text)
<1> DEFINE Of(n) == CHOOSE g : SplitsUpto(g, n)
           f == [text \in Seq(Nat) |-> Of(Len(text))[text]]
           Body(s) == [text \in Seq(Nat) |-> SplitBy(s, text)]
<1>1. \A n \in Nat : SplitsUpto(Of(n), n)
  BY SplitsExist
<1> HIDE DEF Of
<1>2. \A text \in Seq(Nat) : Len(text) \in Nat
  BY LenProperties
<1>3. ASSUME NEW text \in Seq(Nat) PROVE f[text] \in StreamState
  BY <1>1, <1>2 DEF SplitsUpto
<1>4. f \in [Seq(Nat) -> StreamState]
  BY <1>3
<1>5. ASSUME NEW text \in Seq(Nat) PROVE f[text] = SplitBy(f, text)
  <2>1. PICK n \in Nat : n = Len(text)
    BY <1>2
  <2>2. SplitsUpto(Of(n), n)
    BY <1>1
  <2>3. f[text] = Of(n)[text] /\ Of(n)[text] = SplitBy(Of(n), text)
    BY <2>1, <2>2 DEF SplitsUpto
  <2>4. ASSUME Boundary(text) # 0 PROVE Of(n)[Rest(text)] = f[Rest(text)]
    <3>1. PICK j \in Nat : j = Len(Rest(text)) /\ j < n /\ Rest(text) \in Seq(Nat)
      BY <2>1, <2>4, AroundBoundary
    <3>2. SplitsUpto(Of(j), j) /\ j <= n /\ j <= j
      BY <1>1, <3>1
    <3>3. Of(n)[Rest(text)] = Of(j)[Rest(text)]
      BY <2>2, <3>1, <3>2, SplitsAgree
    <3> QED
      BY <3>1, <3>3
  <2>5. SplitBy(Of(n), text) = SplitBy(f, text)
    <3> HIDE DEF f
    <3> QED
      BY <2>4, SplitByAgrees
  <2> QED
    BY <2>3, <2>5
<1>6. f = Body(f)
  BY <1>5
<1>7. Split = CHOOSE s : s = Body(s)
  BY DEF Split, SplitBy, Rest
<1> HIDE DEF f
<1>8. Split = Body(Split)
  BY <1>6, <1>7
<1>9. DOMAIN Split = Seq(Nat) /\ Split = [text \in Seq(Nat) |-> Split[text]]
  BY <1>8
<1>10. \A text \in Seq(Nat) : Split[text] = SplitBy(Split, text)
  BY <1>8
<1>11. ASSUME NEW text \in Seq(Nat) PROVE Split[text] \in StreamState
  <2> DEFINE Bad == {m \in Nat : \E t \in Seq(Nat) : Len(t) = m /\ Split[t] \notin StreamState}
  <2>1. SUFFICES ASSUME Bad # {} PROVE FALSE
    BY <1>2
  <2>2. PICK m \in Bad : \A j \in Nat : j < m => j \notin Bad
    <3>1. Bad \in SUBSET Nat
      OBVIOUS
    <3> HIDE DEF Bad
    <3> QED
      BY <2>1, <3>1, LeastNumber
  <2>3. PICK t \in Seq(Nat) : Len(t) = m /\ Split[t] \notin StreamState
    OBVIOUS
  <2>5. CASE Boundary(t) = 0
    <3>1. SplitBy(Split, t) = SplitBy(f, t)
      BY <2>5, SplitByAgrees
    <3> QED
      BY <1>4, <1>10, <2>3, <3>1, SplitByTyped
  <2>6. CASE Boundary(t) # 0
    <3>1. PICK j \in Nat : j = Len(Rest(t)) /\ j < m /\ Rest(t) \in Seq(Nat)
      BY <2>3, <2>6, AroundBoundary
    <3>2. j \notin Bad
      <4> HIDE DEF Bad
      <4> QED
        BY <2>2, <3>1
    <3>3. Split[Rest(t)] \in StreamState
      BY <3>1, <3>2
    <3>4. PICK g : g = [x \in Seq(Nat) |-> IF x = Rest(t) THEN Split[Rest(t)] ELSE f[x]]
      OBVIOUS
    <3>5. g \in [Seq(Nat) -> StreamState] /\ g[Rest(t)] = Split[Rest(t)]
      BY <1>4, <3>1, <3>3, <3>4
    <3>6. SplitBy(Split, t) = SplitBy(g, t)
      BY <3>5, SplitByAgrees
    <3> QED
      BY <1>10, <2>3, <3>5, <3>6, SplitByTyped
  <2> QED
    BY <2>5, <2>6
<1> QED
  BY <1>9, <1>10, <1>11

\* The n elements of s after place a.
Slice(X, u, s, a, n) ==
  u \in Seq(X) /\ Len(u) = n /\ \A j \in 1 .. n : u[j] = s[a + j]

\* They are cut out.
LEMMA SliceIsCut ==
  ASSUME NEW X, NEW s \in Seq(X), NEW a \in Nat, NEW n \in Nat, a + n <= Len(s)
  PROVE  Slice(X, SubSeq(s, a + 1, a + n), s, a, n)
<1>1. PICK b \in Nat : b = a + n
  OBVIOUS
<1>2. a <= b /\ b <= Len(s) /\ b - a = n
  BY <1>1
<1>3. /\ SubSeq(s, a + 1, b) \in Seq(X) /\ Len(SubSeq(s, a + 1, b)) = b - a
      /\ \A j \in 1 .. b - a : SubSeq(s, a + 1, b)[j] = s[a + j]
  BY ONLY <1>2, SliceOf
<1> QED
  BY <1>1, <1>2, <1>3 DEF Slice

\* Two sequences joined.
LEMMA TwoJoined ==
  ASSUME NEW X, NEW u \in Seq(X), NEW v \in Seq(X)
  PROVE  Joined(u \o v, u, v, X)
<1>1. PICK n \in Nat : n = Len(u)
  BY LenProperties
<1>2. PICK k \in Nat : k = Len(v)
  BY LenProperties
<1>3. /\ u \o v \in Seq(X) /\ Len(u \o v) = n + k
      /\ \A i \in 1 .. n + k : (u \o v)[i] = IF i <= n THEN u[i] ELSE v[i - n]
  BY <1>1, <1>2, ConcatProperties
<1>4. ASSUME NEW j \in 1 .. n PROVE (u \o v)[j] = u[j]
  <2>1. j \in 1 .. n + k /\ j <= n
    OBVIOUS
  <2> QED
    BY <1>3, <2>1
<1>5. ASSUME NEW j \in 1 .. k PROVE (u \o v)[n + j] = v[j]
  <2>1. n + j \in 1 .. n + k /\ ~ n + j <= n /\ (n + j) - n = j
    OBVIOUS
  <2> QED
    BY <1>3, <2>1
<1> QED
  BY <1>1, <1>2, <1>3, <1>4, <1>5 DEF Joined

\* A part that ends in the first of two is a part of it; the part that goes on to
\* the end of the second is the rest of the first and the second.
LEMMA SliceOfJoined ==
  ASSUME NEW X, NEW x \in Seq(X), NEW y \in Seq(X), NEW a \in Nat, a <= Len(x)
  PROVE  /\ SubSeq(x \o y, 1, a) = SubSeq(x, 1, a)
         /\ SubSeq(x \o y, a + 1, Len(x \o y)) = SubSeq(x, a + 1, Len(x)) \o y
<1>1. PICK n \in Nat : n = Len(x)
  BY LenProperties
<1>2. PICK k \in Nat : k = Len(y)
  BY LenProperties
<1>3. PICK d \in Nat : n = a + d
  <2>1. n - a \in Nat /\ n = a + (n - a)
    BY <1>1
  <2> QED
    BY <2>1
<1>4. PICK z : z = x \o y
  OBVIOUS
<1>5. Joined(z, x, y, X)
  BY <1>4, TwoJoined
<1>6. /\ z \in Seq(X) /\ Len(z) = n + k
      /\ \A j \in 1 .. n : z[j] = x[j]
      /\ \A j \in 1 .. k : z[n + j] = y[j]
  BY <1>1, <1>2, <1>5 DEF Joined
<1>7. SubSeq(z, 1, a) = SubSeq(x, 1, a)
  <2>1. 0 + a <= Len(z) /\ 0 + a <= Len(x) /\ 0 + 1 = 1 /\ 0 + a = a /\ 0 \in Nat
    BY <1>1, <1>3, <1>6
  <2>2. Slice(X, SubSeq(z, 0 + 1, 0 + a), z, 0, a) /\ Slice(X, SubSeq(x, 0 + 1, 0 + a), x, 0, a)
    BY ONLY <1>6, <2>1, SliceIsCut
  <2>3. PICK u : u = SubSeq(z, 1, a)
    OBVIOUS
  <2>4. PICK v : v = SubSeq(x, 1, a)
    OBVIOUS
  <2>5. Slice(X, u, z, 0, a) /\ Slice(X, v, x, 0, a)
    BY <2>1, <2>2, <2>3, <2>4
  <2>6. \A j \in 1 .. a : u[j] = v[j]
    <3> TAKE j \in 1 .. a
    <3>1. j \in 1 .. n /\ 0 + j = j
      BY <1>3
    <3> QED
      BY <1>6, <2>5, <3>1 DEF Slice
  <2>7. u = v
    BY <2>5, <2>6, SeqEqual DEF Slice
  <2> QED
    BY <2>3, <2>4, <2>7
<1>8. SubSeq(z, a + 1, n + k) = SubSeq(x, a + 1, n) \o y
  <2>1. PICK e \in Nat : e = d + k
    OBVIOUS
  <2>2. a + e = n + k /\ a + e <= Len(z) /\ a + d <= Len(x)
    BY <1>1, <1>3, <1>6, <2>1
  <2>3. Slice(X, SubSeq(z, a + 1, a + e), z, a, e) /\ Slice(X, SubSeq(x, a + 1, a + d), x, a, d)
    BY ONLY <1>6, <2>2, SliceIsCut
  <2>4. PICK u : u = SubSeq(z, a + 1, n + k)
    OBVIOUS
  <2>5. PICK v : v = SubSeq(x, a + 1, n)
    OBVIOUS
  <2>6. Slice(X, u, z, a, e) /\ Slice(X, v, x, a, d)
    BY <1>3, <2>2, <2>3, <2>4, <2>5
  <2>7. Joined(v \o y, v, y, X)
    BY <2>6, TwoJoined DEF Slice
  <2>8. PICK w : w = v \o y
    OBVIOUS
  <2>9. /\ w \in Seq(X) /\ Len(w) = d + k
        /\ \A j \in 1 .. d : w[j] = v[j]
        /\ \A j \in 1 .. k : w[d + j] = y[j]
    BY <1>2, <2>6, <2>7, <2>8 DEF Joined, Slice
  <2>10. \A j \in 1 .. e : u[j] = w[j]
    <3> TAKE j \in 1 .. e
    <3>1. u[j] = z[a + j]
      BY <2>6 DEF Slice
    <3>2. CASE j <= d
      <4>1. j \in 1 .. d /\ a + j \in 1 .. n
        BY <1>3, <3>2
      <4>2. v[j] = x[a + j]
        BY <2>6, <4>1 DEF Slice
      <4> QED
        BY <1>6, <2>9, <3>1, <4>1, <4>2
    <3>3. CASE ~ j <= d
      <4>1. PICK i \in 1 .. k : i = j - d
        BY <2>1, <3>3
      <4>2. a + j = n + i /\ j = d + i
        BY <1>3, <4>1
      <4> QED
        BY <1>6, <2>9, <3>1, <4>2
    <3> QED
      BY <3>2, <3>3
  <2>11. u = w
    BY <2>1, <2>6, <2>9, <2>10, SeqEqual DEF Slice
  <2> QED
    BY <2>4, <2>5, <2>8, <2>11
<1> QED
  BY <1>1, <1>4, <1>6, <1>7, <1>8

\* The reader has split x and goes on with y.
Onto(state, y) ==
  [frames |-> state.frames \o Split[state.buffer \o y].frames,
   buffer |-> Split[state.buffer \o y].buffer]

\* What is split of a text with more after it is split in the same way.
LEMMA BoundaryStays ==
  ASSUME NEW x \in Seq(Nat), NEW y \in Seq(Nat), Boundary(x) # 0
  PROVE  /\ Boundary(x \o y) = Boundary(x)
         /\ SubSeq(x \o y, 1, Boundary(x) - 1) = SubSeq(x, 1, Boundary(x) - 1)
         /\ Rest(x \o y) = Rest(x) \o y
<1>1. PICK b : b = Boundary(x)
  OBVIOUS
<1>2. PICK n \in Nat : n = Len(x)
  BY LenProperties
<1>3. PICK k \in Nat : k = Len(y)
  BY LenProperties
<1>4. PICK z : z = x \o y
  OBVIOUS
<1>5. /\ z \in Seq(Nat) /\ Len(z) = n + k
      /\ \A i \in 1 .. n + k : z[i] = IF i <= n THEN x[i] ELSE y[i - n]
  BY <1>2, <1>3, <1>4, ConcatProperties
<1>6. b \in Nat /\ b >= 1 /\ b + 1 <= n
  BY <1>1, <1>2, AroundBoundary
<1>7. \A i : i \in Int /\ i <= b => (BlankAt(x, i) <=> BlankAt(z, i))
  <2> TAKE i
  <2> SUFFICES ASSUME i \in Int, i <= b PROVE BlankAt(x, i) <=> BlankAt(z, i)
    OBVIOUS
  <2>1. CASE i >= 1
    <3>1. i \in 1 .. n - 1 /\ i \in 1 .. (n + k) - 1 /\ i \in 1 .. n + k /\ i + 1 \in 1 .. n + k
          /\ i <= n /\ i + 1 <= n
      BY <1>6, <2>1
    <3>2. z[i] = x[i] /\ z[i + 1] = x[i + 1]
      BY <1>5, <3>1
    <3> QED
      BY <1>2, <1>5, <3>1, <3>2 DEF BlankAt
  <2>2. CASE ~ i >= 1
    BY <2>2 DEF BlankAt
  <2> QED
    BY <2>1, <2>2
<1>8. BlankAt(x, b) /\ \A i : BlankAt(x, i) => b <= i
  BY <1>1, BoundaryIs
<1>9. BlankAt(z, b)
  BY <1>6, <1>7, <1>8
<1>10. \A i : BlankAt(z, i) => b <= i
  <2> SUFFICES ASSUME NEW i, BlankAt(z, i), ~ b <= i PROVE FALSE
    OBVIOUS
  <2>1. i \in Int /\ i <= b
    <3>1. i \in 1 .. (n + k) - 1
      BY <1>5 DEF BlankAt
    <3> QED
      BY <1>6, <3>1
  <2> QED
    BY <1>7, <1>8, <2>1
<1>11. Boundary(z) = b
  BY <1>5, <1>9, <1>10, BoundaryIs
<1>12. SubSeq(z, 1, b - 1) = SubSeq(x, 1, b - 1)
  <2>1. b - 1 \in Nat /\ b - 1 <= Len(x)
    BY <1>2, <1>6
  <2> QED
    BY <1>4, <2>1, SliceOfJoined
<1>13. Rest(z) = Rest(x) \o y
  <2>1. PICK c \in Nat : c = b + 1 /\ c + 1 = b + 2 /\ c <= Len(x)
    BY <1>2, <1>6
  <2>2. SubSeq(x \o y, c + 1, Len(x \o y)) = SubSeq(x, c + 1, Len(x)) \o y
    BY <2>1, SliceOfJoined
  <2> QED
    BY <1>1, <1>4, <1>11, <2>1, <2>2 DEF Rest
<1> QED
  BY <1>1, <1>4, <1>11, <1>12, <1>13

\* Splitting can stop anywhere and go on with what was left.
LEMMA SplitGoesOn ==
  ASSUME NEW x \in Seq(Nat), NEW y \in Seq(Nat)
  PROVE  Split[x \o y] = Onto(Split[x], y)
<1> DEFINE Bad == {m \in Nat : \E t \in Seq(Nat) : Len(t) = m /\ Split[t \o y] # Onto(Split[t], y)}
<1>1. SUFFICES ASSUME Bad # {} PROVE FALSE
  <2>1. Len(x) \in Nat
    BY LenProperties
  <2> QED
    BY <2>1
<1>2. PICK m \in Bad : \A j \in Nat : j < m => j \notin Bad
  <2>1. Bad \in SUBSET Nat
    OBVIOUS
  <2> HIDE DEF Bad
  <2> QED
    BY <1>1, <2>1, LeastNumber
<1>3. PICK t \in Seq(Nat) : Len(t) = m /\ Split[t \o y] # Onto(Split[t], y)
  OBVIOUS
<1>4. t \o y \in Seq(Nat)
  BY ConcatProperties
<1>5. Split[t] = SplitBy(Split, t) /\ Split[t \o y] = SplitBy(Split, t \o y)
  BY <1>4, SplitIs
<1>6. CASE Boundary(t) = 0
  <2>1. Split[t] = [frames |-> <<>>, buffer |-> t]
    BY <1>5, <1>6 DEF SplitBy
  <2>2. Split[t].frames = <<>> /\ Split[t].buffer = t
    BY <2>1
  <2>3. Split[t \o y] \in StreamState
    BY <1>4, SplitIs
  <2>4. PICK s \in StreamState : s = Split[t \o y]
    BY <2>3
  <2>5. Onto(Split[t], y) = [frames |-> <<>> \o s.frames, buffer |-> s.buffer]
    BY <2>2, <2>4 DEF Onto
  <2>6. <<>> \o s.frames = s.frames
    <3>1. s.frames \in Seq(Seq(Nat))
      BY DEF StreamState
    <3> QED
      BY <3>1, ConcatEmptySeq
  <2>7. s = [frames |-> s.frames, buffer |-> s.buffer]
    BY DEF StreamState
  <2> QED
    BY <1>3, <2>4, <2>5, <2>6, <2>7
<1>7. CASE Boundary(t) # 0
  <2>1. PICK b : b = Boundary(t)
    OBVIOUS
  <2>2. PICK r : r = Rest(t)
    OBVIOUS
  <2>3. PICK first : first = Handled(SubSeq(t, 1, b - 1))
    OBVIOUS
  <2>4. first \in Seq(Seq(Nat)) /\ r \in Seq(Nat) /\ Len(r) \in Nat /\ Len(r) < m
    BY <1>3, <1>7, <2>1, <2>2, <2>3, AroundBoundary
  <2>5. Split[r \o y] = Onto(Split[r], y)
    <3>1. Len(r) \notin Bad
      <4> HIDE DEF Bad
      <4> QED
        BY <1>2, <2>4
    <3> QED
      BY <2>4, <3>1
  <2>6. Boundary(t \o y) = b /\ Handled(SubSeq(t \o y, 1, b - 1)) = first /\ Rest(t \o y) = r \o y
    BY <1>7, <2>1, <2>2, <2>3, BoundaryStays
  <2>7. Split[t] = [frames |-> first \o Split[r].frames, buffer |-> Split[r].buffer]
    BY <1>5, <1>7, <2>1, <2>2, <2>3 DEF SplitBy
  <2>8. Split[t \o y] = [frames |-> first \o Split[r \o y].frames, buffer |-> Split[r \o y].buffer]
    BY <1>5, <1>7, <2>1, <2>6 DEF SplitBy
  <2>9. Split[r] \in StreamState
    BY <2>4, SplitIs
  <2>10. PICK head, left : head = Split[r].frames /\ left = Split[r].buffer
    OBVIOUS
  <2>11. head \in Seq(Seq(Nat)) /\ left \in Seq(Nat)
    BY <2>9, <2>10 DEF StreamState
  <2>12. left \o y \in Seq(Nat)
    BY <2>11, ConcatProperties
  <2>13. Split[left \o y] \in StreamState
    BY <2>12, SplitIs
  <2>14. PICK more : more = Split[left \o y].frames
    OBVIOUS
  <2>15. more \in Seq(Seq(Nat))
    BY <2>13, <2>14 DEF StreamState
  <2>16. Split[r \o y] = [frames |-> head \o more, buffer |-> Split[left \o y].buffer]
    BY <2>5, <2>10, <2>14 DEF Onto
  <2>17. Split[t] = [frames |-> first \o head, buffer |-> left]
    BY <2>7, <2>10
  <2>18. Onto(Split[t], y) = [frames |-> (first \o head) \o more, buffer |-> Split[left \o y].buffer]
    BY <2>14, <2>17 DEF Onto
  <2>19. Split[t \o y] = [frames |-> first \o (head \o more), buffer |-> Split[left \o y].buffer]
    BY <2>8, <2>16
  <2>20. (first \o head) \o more = first \o (head \o more)
    <3>1. PICK S : S = Seq(Nat)
      OBVIOUS
    <3>2. first \in Seq(S) /\ head \in Seq(S) /\ more \in Seq(S)
      BY <2>4, <2>11, <2>15, <3>1
    <3> QED
      BY ONLY <3>2, ConcatAssociative
  <2> QED
    BY <1>3, <2>18, <2>19, <2>20
<1> QED
  BY <1>6, <1>7

\* A text without a blank line is kept.
LEMMA SplitNothing ==
  ASSUME NEW text \in Seq(Nat), Boundary(text) = 0
  PROVE  Split[text] = [frames |-> <<>>, buffer |-> text]
<1>1. Split[text] = SplitBy(Split, text)
  BY SplitIs
<1> QED
  BY <1>1 DEF SplitBy

\* It has no blank line.
LEMMA NothingIsBlank == <<>> \in Seq(Nat) /\ Boundary(<<>>) = 0
<1>1. <<>> \in Seq(Nat) /\ Len(<<>>) = 0
  BY EmptySeq
<1>2. \A i : ~ BlankAt(<<>>, i)
  BY <1>1 DEF BlankAt
<1> QED
  BY <1>1, <1>2, BoundaryIs

\* Reading a text in pieces is reading it at once.
LEMMA PiecesAreRead ==
  ASSUME NEW pieces \in Seq(Seq(Nat))
  PROVE  ConsumeSse(pieces) = Split[FlattenSeq(pieces)]
<1> DEFINE start == [frames |-> <<>>, buffer |-> <<>>]
           D == DOMAIN pieces
           Body(it) == [s \in SUBSET D |-> IF s = {} THEN start
                          ELSE Piece(it[s \ {Max(s)}], pieces[Max(s)])]
           fold == CHOOSE it : it = Body(it)
<1>1. ConsumeSse(pieces) = fold[D]
  BY Zenon DEF ConsumeSse, FoldLeft, MapThenFoldSet
<1>2. PICK n \in Nat : n = Len(pieces) /\ D = 1 .. n
  BY LenProperties
<1> HIDE DEF D
<1>3. \A v \in StreamState : \A piece \in Seq(Nat) :
        /\ Piece(v, piece) \in StreamState
        /\ Piece(v, piece) = Onto(v, piece)
  <2> SUFFICES ASSUME NEW v \in StreamState, NEW piece \in Seq(Nat)
               PROVE  Piece(v, piece) \in StreamState /\ Piece(v, piece) = Onto(v, piece)
    OBVIOUS
  <2>1. v.buffer \in Seq(Nat) /\ v.frames \in Seq(Seq(Nat))
    BY DEF StreamState
  <2>2. v.buffer \o piece \in Seq(Nat)
    BY <2>1, ConcatProperties
  <2>3. PICK cut \in StreamState : cut = Split[v.buffer \o piece]
    BY <2>2, SplitIs
  <2>4. cut.frames \in Seq(Seq(Nat)) /\ cut.buffer \in Seq(Nat)
    BY DEF StreamState
  <2>5. v.frames \o cut.frames \in Seq(Seq(Nat))
    BY <2>1, <2>4, ConcatProperties
  <2>6. Piece(v, piece) = [frames |-> v.frames \o cut.frames, buffer |-> cut.buffer]
    BY <2>3 DEF Piece
  <2>7. Onto(v, piece) = [frames |-> v.frames \o cut.frames, buffer |-> cut.buffer]
    BY <2>3 DEF Onto
  <2> QED
    BY <2>4, <2>5, <2>6, <2>7 DEF StreamState
<1>4. PICK G : G = [i \in 1 .. n |-> [v \in StreamState |-> Piece(v, pieces[i])]]
  OBVIOUS
<1>5. \A i \in 1 .. n : pieces[i] \in Seq(Nat)
  BY <1>2, ElementOfSeq
<1>6. \A i \in 1 .. n : \A v \in StreamState : /\ G[i][v] = Piece(v, pieces[i])
                                               /\ G[i][v] \in StreamState
  BY <1>3, <1>4, <1>5
<1>7. start \in StreamState
  BY DEF StreamState
<1>8. PICK it : Folds(it, 1 .. n, StreamState, start, LastOf(n), G)
  <2>1. IsFiniteSet(1 .. n)
    BY FS_Interval
  <2>2. \A s \in SUBSET (1 .. n) : s # {} => LastOf(n)[s] \in s
    BY LastIsIn
  <2> HIDE DEF start
  <2> QED
    BY <1>6, <1>7, <2>1, <2>2, FoldExists
<1>9. it \in [SUBSET (1 .. n) -> StreamState]
  BY <1>8 DEF Folds
<1> HIDE DEF start
<1>10. it = Body(it)
  <2>1. ASSUME NEW s \in SUBSET (1 .. n)
        PROVE  it[s] = IF s = {} THEN start ELSE Piece(it[s \ {Max(s)}], pieces[Max(s)])
    <3>1. it[s] = IF s = {} THEN start ELSE G[LastOf(n)[s]][it[s \ {LastOf(n)[s]}]]
      BY <1>8 DEF Folds
    <3>2. CASE s = {}
      BY <3>1, <3>2
    <3>3. CASE s # {}
      <4>1. PICK x \in s : x = Max(s) /\ LastOf(n)[s] = x
        BY <3>3, LastIsIn
      <4>2. x \in 1 .. n /\ s \ {x} \in SUBSET (1 .. n)
        OBVIOUS
      <4>3. it[s \ {x}] \in StreamState
        BY <1>9, <4>2
      <4>4. it[s] = G[x][it[s \ {x}]]
        BY <3>1, <3>3, <4>1
      <4>5. G[x][it[s \ {x}]] = Piece(it[s \ {x}], pieces[x])
        BY <1>6, <4>2, <4>3
      <4> QED
        BY <3>3, <4>1, <4>4, <4>5
    <3> QED
      BY <3>2, <3>3
  <2> QED
    BY <1>2, <1>9, <2>1
<1>11. fold = Body(fold)
  BY <1>10
<1> HIDE DEF fold
<1>12. PICK f : Steps(pieces, Nat, f) /\ FlattenSeq(pieces) = f[n]
  BY <1>2, FlattenSeqSteps
<1>13. \A i \in 0 .. n : f[i] \in Seq(Nat)
  BY <1>2, <1>12, StepsTyped
<1>14. \A i \in 0 .. n : fold[1 .. i] = Split[f[i]]
  <2> DEFINE T == {i \in 0 .. n : fold[1 .. i] # Split[f[i]]}
  <2>1. SUFFICES ASSUME T # {} PROVE FALSE
    OBVIOUS
  <2>2. PICK m \in T : \A k \in Nat : k < m => k \notin T
    <3>1. T \in SUBSET Nat
      OBVIOUS
    <3> HIDE DEF T
    <3> QED
      BY <2>1, <3>1, LeastNumber
  <2>3. m \in 0 .. n /\ fold[1 .. m] # Split[f[m]]
    OBVIOUS
  <2>4. m # 0
    <3>1. 1 .. 0 = {} /\ {} \in SUBSET D
      OBVIOUS
    <3>2. fold[{}] = start
      BY <1>11, <3>1
    <3>3. f[0] = <<>>
      BY <1>12 DEF Steps
    <3>4. Split[<<>>] = start
      BY NothingIsBlank, SplitNothing DEF start
    <3> QED
      BY <2>3, <3>1, <3>2, <3>3, <3>4
  <2>5. m \in 1 .. n /\ m - 1 \in 0 .. n /\ m - 1 \in Nat /\ m - 1 < m
    BY <2>3, <2>4
  <2>6. fold[1 .. m - 1] = Split[f[m - 1]]
    BY <2>2, <2>5
  <2>7. Max(1 .. m) = m
    BY <2>5, LastIsIn
  <2>8. (1 .. m) \ {m} = 1 .. m - 1 /\ 1 .. m # {} /\ 1 .. m \in SUBSET D
    <3>1. \A k : k \in (1 .. m) \ {m} <=> k \in 1 .. m - 1
      BY <2>5
    <3>2. m \in 1 .. m /\ \A k \in 1 .. m : k \in 1 .. n
      BY <2>5
    <3> QED
      BY <1>2, <3>1, <3>2
  <2>9. fold[1 .. m] = Piece(Split[f[m - 1]], pieces[m])
    <3>1. PICK s : s = 1 .. m
      OBVIOUS
    <3>2. s \in SUBSET D /\ s # {} /\ Max(s) = m /\ s \ {m} = 1 .. m - 1
      BY <2>7, <2>8, <3>1
    <3>3. fold[s] = Piece(fold[s \ {Max(s)}], pieces[Max(s)])
      BY <1>11, <3>2
    <3> QED
      BY <2>6, <3>1, <3>2, <3>3
  <2>10. Split[f[m - 1]] \in StreamState /\ f[m - 1] \in Seq(Nat)
    BY <1>13, <2>5, SplitIs
  <2>11. Piece(Split[f[m - 1]], pieces[m]) = Onto(Split[f[m - 1]], pieces[m])
    BY <1>3, <1>5, <2>5, <2>10
  <2>12. Split[f[m - 1] \o pieces[m]] = Onto(Split[f[m - 1]], pieces[m])
    BY <1>5, <2>5, <2>10, SplitGoesOn
  <2>13. f[m] = f[m - 1] \o pieces[m]
    BY <1>2, <1>12, <2>5 DEF Steps
  <2> QED
    BY <2>3, <2>9, <2>11, <2>12, <2>13
<1>15. n \in 0 .. n
  OBVIOUS
<1> QED
  BY <1>1, <1>2, <1>12, <1>14, <1>15

\* A frame and the blank line behind it are taken at once.
LEMMA FrameIsSplit ==
  ASSUME NEW frame \in Seq(Nat), IsFrame(frame)
  PROVE  /\ frame \o <<LineEnd, LineEnd>> \in Seq(Nat)
         /\ Split[frame \o <<LineEnd, LineEnd>>] = [frames |-> Handled(frame), buffer |-> <<>>]
<1>1. PICK n \in Nat : n = Len(frame) /\ frame \in Seq(Nat)
  BY LenProperties
<1>2. PICK blank : blank = <<LineEnd, LineEnd>>
  OBVIOUS
<1>3. blank \in Seq(Nat) /\ Len(blank) = 2
  BY <1>2, LineEndAssumption
<1>4. PICK text : text = frame \o blank
  OBVIOUS
<1>5. /\ text \in Seq(Nat) /\ Len(text) = n + 2
      /\ \A i \in 1 .. n + 2 : text[i] = IF i <= n THEN frame[i] ELSE blank[i - n]
  <2>1. PICK k \in Nat : k = 2 /\ k = Len(blank)
    BY <1>3
  <2>2. /\ text \in Seq(Nat) /\ Len(text) = n + k
        /\ \A i \in 1 .. n + k : text[i] = IF i <= n THEN frame[i] ELSE blank[i - n]
    <3>1. /\ frame \o blank \in Seq(Nat) /\ Len(frame \o blank) = Len(frame) + Len(blank)
          /\ \A i \in 1 .. Len(frame) + Len(blank) :
               (frame \o blank)[i] = IF i <= Len(frame) THEN frame[i] ELSE blank[i - Len(frame)]
      BY ONLY <1>1, <1>3, ConcatProperties
    <3> QED
      BY <1>1, <1>4, <2>1, <3>1
  <2> QED
    BY <2>1, <2>2
<1>6. Boundary(text) = n + 1
  BY <1>1, <1>2, <1>4 DEF IsFrame
<1>7. SubSeq(text, 1, n) = frame
  <2>1. n <= n + 2 /\ 0 <= n /\ 0 \in Nat /\ n - 0 = n /\ 0 + 1 = 1 /\ \A i \in 1 .. n : i \in 1 .. n + 2 /\ i <= n /\ 0 + i = i
    OBVIOUS
  <2>2. /\ SubSeq(text, 0 + 1, n) \in Seq(Nat) /\ Len(SubSeq(text, 0 + 1, n)) = n - 0
        /\ \A j \in 1 .. n - 0 : SubSeq(text, 0 + 1, n)[j] = text[0 + j]
    BY <1>5, <2>1, SliceOf
  <2>3. PICK u : u = SubSeq(text, 1, n)
    OBVIOUS
  <2>4. u \in Seq(Nat) /\ Len(u) = n /\ \A j \in 1 .. n : u[j] = frame[j]
    BY <1>5, <2>1, <2>2, <2>3
  <2>5. u = frame
    BY <1>1, <2>4, SeqEqual
  <2> QED
    BY <2>3, <2>5
<1>8. Rest(text) = <<>>
  <2>1. n + 1 + 2 \in Int /\ n + 2 \in Int /\ n + 2 < n + 1 + 2
    OBVIOUS
  <2>2. SubSeq(text, n + 1 + 2, n + 2) = <<>>
    BY ONLY <2>1, SubSeqEmpty
  <2> QED
    BY <1>5, <1>6, <2>2 DEF Rest
<1>9. Split[<<>>] = [frames |-> <<>>, buffer |-> <<>>]
  BY NothingIsBlank, SplitNothing
<1>10. Split[text] = SplitBy(Split, text)
  BY <1>5, SplitIs
<1>11. Boundary(text) # 0 /\ Boundary(text) - 1 = n
  BY <1>6
<1>12. Split[text] = [frames |-> Handled(frame) \o <<>>, buffer |-> <<>>]
  <2>1. SplitBy(Split, text) = [frames |-> Handled(SubSeq(text, 1, Boundary(text) - 1)) \o Split[Rest(text)].frames,
                                buffer |-> Split[Rest(text)].buffer]
    BY <1>11 DEF SplitBy
  <2>2. Split[Rest(text)].frames = <<>> /\ Split[Rest(text)].buffer = <<>>
    BY <1>8, <1>9
  <2>3. Handled(SubSeq(text, 1, Boundary(text) - 1)) = Handled(frame)
    BY <1>7, <1>11
  <2> QED
    BY <1>10, <2>1, <2>2, <2>3
<1>13. Handled(frame) \o <<>> = Handled(frame)
  <2>1. Handled(frame) \in Seq(Seq(Nat))
    BY <1>1 DEF Handled
  <2> QED
    BY <2>1, ConcatEmptySeq
<1> QED
  BY <1>2, <1>4, <1>5, <1>12, <1>13

-----------------------------------------------------------------------------
\* Frames come out as the server wrote them wherever the network cuts the stream
\* (client.ts:337-353).
THEOREM FramesAlwaysArrive ==
  ASSUME NEW frames \in Seq(Seq(Nat)), \A i \in DOMAIN frames : IsFrame(frames[i]),
         NEW tail \in Seq(Nat), Boundary(tail) = 0, NEW pieces \in Seq(Seq(Nat))
  PROVE  FramesArriveWhole(frames, tail, pieces)
<1>1. PICK n \in Nat : n = Len(frames) /\ DOMAIN frames = 1 .. n
  BY LenProperties
<1>2. PICK parts : parts = [i \in DOMAIN frames |-> frames[i] \o <<LineEnd, LineEnd>>]
  OBVIOUS
<1>3. PICK handled : handled = [i \in DOMAIN frames |-> Handled(frames[i])]
  OBVIOUS
<1>4. \A i \in 1 .. n : /\ parts[i] \in Seq(Nat) /\ handled[i] \in Seq(Seq(Nat))
                        /\ Split[parts[i]] = [frames |-> handled[i], buffer |-> <<>>]
  <2> TAKE i \in 1 .. n
  <2>1. IsFrame(frames[i]) /\ frames[i] \in Seq(Nat)
    BY <1>1, ElementOfSeq
  <2>2. Handled(frames[i]) \in Seq(Seq(Nat))
    BY <2>1 DEF Handled
  <2> QED
    BY <1>1, <1>2, <1>3, <2>1, <2>2, FrameIsSplit
<1>5. parts \in Seq(Seq(Nat)) /\ Len(parts) = n
  <2>1. parts \in [1 .. n -> Seq(Nat)]
    BY <1>1, <1>2, <1>4
  <2> QED
    BY <2>1, FunctionIsSeq
<1>6. handled \in Seq(Seq(Seq(Nat))) /\ Len(handled) = n
  <2>1. handled \in [1 .. n -> Seq(Seq(Nat))]
    BY <1>1, <1>3, <1>4
  <2> QED
    BY <2>1, FunctionIsSeq
<1>7. PICK e : Steps(parts, Nat, e) /\ FlattenSeq(parts) = e[n]
  BY <1>5, FlattenSeqSteps
<1>8. PICK d : Steps(handled, Seq(Nat), d) /\ FlattenSeq(handled) = d[n]
  BY <1>6, FlattenSeqSteps
<1>9. \A i \in 0 .. n : e[i] \in Seq(Nat) /\ d[i] \in Seq(Seq(Nat))
  BY <1>5, <1>6, <1>7, <1>8, StepsTyped
<1>10. \A i \in 0 .. n : Split[e[i]] = [frames |-> d[i], buffer |-> <<>>]
  <2> DEFINE T == {i \in 0 .. n : Split[e[i]] # [frames |-> d[i], buffer |-> <<>>]}
  <2>1. SUFFICES ASSUME T # {} PROVE FALSE
    OBVIOUS
  <2>2. PICK m \in T : \A k \in Nat : k < m => k \notin T
    <3>1. T \in SUBSET Nat
      OBVIOUS
    <3> HIDE DEF T
    <3> QED
      BY <2>1, <3>1, LeastNumber
  <2>3. m \in 0 .. n /\ Split[e[m]] # [frames |-> d[m], buffer |-> <<>>]
    OBVIOUS
  <2>4. m # 0
    <3>1. e[0] = <<>> /\ d[0] = <<>>
      BY <1>7, <1>8 DEF Steps
    <3>2. Split[<<>>] = [frames |-> <<>>, buffer |-> <<>>]
      BY NothingIsBlank, SplitNothing
    <3> QED
      BY <2>3, <3>1, <3>2
  <2>5. m \in 1 .. n /\ m - 1 \in 0 .. n /\ m - 1 \in Nat /\ m - 1 < m
    BY <2>3, <2>4
  <2>6. Split[e[m - 1]] = [frames |-> d[m - 1], buffer |-> <<>>]
    BY <2>2, <2>5
  <2>7. e[m] = e[m - 1] \o parts[m] /\ d[m] = d[m - 1] \o handled[m]
    BY <1>5, <1>6, <1>7, <1>8, <2>5 DEF Steps
  <2>8. parts[m] \in Seq(Nat) /\ Split[parts[m]] = [frames |-> handled[m], buffer |-> <<>>]
    BY <1>4, <2>5
  <2>9. Split[e[m - 1] \o parts[m]] = Onto(Split[e[m - 1]], parts[m])
    BY <1>9, <2>5, <2>8, SplitGoesOn
  <2>10. <<>> \o parts[m] = parts[m]
    BY <2>8, ConcatEmptySeq
  <2>11. Onto(Split[e[m - 1]], parts[m]) = [frames |-> d[m - 1] \o handled[m], buffer |-> <<>>]
    <3>1. Split[e[m - 1]].frames = d[m - 1] /\ Split[e[m - 1]].buffer = <<>>
      BY <2>6
    <3>2. Split[parts[m]].frames = handled[m] /\ Split[parts[m]].buffer = <<>>
      BY <2>8
    <3> QED
      BY <2>10, <3>1, <3>2 DEF Onto
  <2> QED
    BY <2>3, <2>7, <2>9, <2>11
<1>11. Split[e[n] \o tail] = [frames |-> d[n], buffer |-> tail]
  <2>1. n \in 0 .. n
    OBVIOUS
  <2>2. Split[e[n]] = [frames |-> d[n], buffer |-> <<>>] /\ e[n] \in Seq(Nat) /\ d[n] \in Seq(Seq(Nat))
    BY <1>9, <1>10, <2>1
  <2>3. Split[e[n] \o tail] = Onto(Split[e[n]], tail)
    BY <2>2, SplitGoesOn
  <2>4. <<>> \o tail = tail /\ d[n] \o <<>> = d[n]
    BY <2>2, ConcatEmptySeq
  <2>5. Split[tail] = [frames |-> <<>>, buffer |-> tail]
    BY SplitNothing
  <2>6. Split[e[n]].frames = d[n] /\ Split[e[n]].buffer = <<>>
    BY <2>2
  <2>7. Split[tail].frames = <<>> /\ Split[tail].buffer = tail
    BY <2>5
  <2> QED
    BY <2>3, <2>4, <2>6, <2>7 DEF Onto
<1>12. FlattenSeq(pieces) = FlattenSeq(parts) \o tail =>
         ConsumeSse(pieces) = [frames |-> FlattenSeq(handled), buffer |-> tail]
  BY <1>7, <1>8, <1>11, PiecesAreRead
<1> QED
  BY <1>2, <1>3, <1>12 DEF FramesArriveWhole

-----------------------------------------------------------------------------
(* Sums.                                                                   *)

\* t adds up f over each subset of D, in whatever order.
Totals(t, f, D) ==
  /\ t \in [SUBSET D -> Int]
  /\ t[{}] = 0
  /\ \A s \in SUBSET D : \A x \in s : t[s] = f[x] + t[s \ {x}]

\* Adding in one order is adding in any.
LEMMA AnyOrder ==
  ASSUME NEW D, IsFiniteSet(D), NEW f \in [D -> Int], NEW t \in [SUBSET D -> Int], t[{}] = 0,
         NEW pick, \A s \in SUBSET D : s # {} => pick[s] \in s /\ t[s] = f[pick[s]] + t[s \ {pick[s]}]
  PROVE  Totals(t, f, D)
<1> DEFINE T == {s \in SUBSET D : \E x \in s : t[s] # f[x] + t[s \ {x}]}
<1>1. SUFFICES ASSUME T # {} PROVE FALSE
  BY DEF Totals
<1>2. T \in SUBSET (SUBSET D)
  OBVIOUS
<1>3. PICK s \in T : \A x \in s : s \ {x} \notin T
  <2> HIDE DEF T
  <2> QED
    BY <1>1, <1>2, LeastSet
<1>4. s \in SUBSET D
  OBVIOUS
<1>5. PICK x \in s : t[s] # f[x] + t[s \ {x}]
  OBVIOUS
<1>6. PICK y \in s : y = pick[s]
  BY <1>4, <1>5
<1>7. t[s] = f[y] + t[s \ {y}]
  BY <1>4, <1>6
<1>8. x # y /\ x \in s \ {y} /\ y \in s \ {x}
  BY <1>5, <1>7
<1>9. t[s \ {y}] = f[x] + t[(s \ {y}) \ {x}]
  BY <1>3, <1>4, <1>8
<1>10. t[s \ {x}] = f[y] + t[(s \ {x}) \ {y}]
  BY <1>3, <1>4, <1>8
<1>11. PICK rest : rest = (s \ {x}) \ {y}
  OBVIOUS
<1>12. (s \ {y}) \ {x} = rest /\ rest \in SUBSET D
  BY <1>4, <1>11
<1>13. t[rest] \in Int /\ f[x] \in Int /\ f[y] \in Int
  BY <1>4, <1>12
<1>14. t[s] = f[y] + (f[x] + t[rest]) /\ t[s \ {x}] = f[y] + t[rest]
  BY <1>7, <1>9, <1>10, <1>11, <1>12
<1> QED
  BY <1>5, <1>13, <1>14

\* A sum adds up.
LEMMA SumIsTotal ==
  ASSUME NEW D, IsFiniteSet(D), NEW f \in [D -> Int]
  PROVE  \E t : Totals(t, f, D) /\ SumFunction(f) = t[D]
<1> DEFINE Body(it) == [s \in SUBSET D |-> IF s = {} THEN 0
                          ELSE f[CHOOSE x \in s : TRUE] + it[s \ {CHOOSE x \in s : TRUE}]]
           fold == CHOOSE it : it = Body(it)
<1>1. SumFunction(f) = fold[D]
  BY Zenon DEF SumFunction, SumFunctionOnSet, FoldFunctionOnSet, MapThenFoldSet
<1>2. PICK pick : pick = [s \in SUBSET D |-> CHOOSE x \in s : TRUE]
  OBVIOUS
<1>3. \A s \in SUBSET D : pick[s] = (CHOOSE x \in s : TRUE) /\ (s # {} => pick[s] \in s)
  BY <1>2
<1>4. PICK G : G = [x \in D |-> [v \in Int |-> f[x] + v]]
  OBVIOUS
<1>5. \A x \in D : \A v \in Int : G[x][v] = f[x] + v /\ G[x][v] \in Int
  BY <1>4
<1>6. PICK it : Folds(it, D, Int, 0, pick, G)
  <2>1. 0 \in Int
    OBVIOUS
  <2>2. \A s \in SUBSET D : s # {} => pick[s] \in s
    BY <1>3
  <2>3. \A x \in D : \A v \in Int : G[x][v] \in Int
    BY <1>5
  <2> QED
    BY ONLY <2>1, <2>2, <2>3, IsFiniteSet(D), FoldExists
<1>7. it \in [SUBSET D -> Int]
  BY <1>6 DEF Folds
<1>8. ASSUME NEW s \in SUBSET D
      PROVE  /\ s = {} => it[s] = 0
             /\ s # {} => /\ pick[s] \in D /\ s \ {pick[s]} \in SUBSET D
                          /\ it[s] = f[pick[s]] + it[s \ {pick[s]}]
  <2>1. it[s] = IF s = {} THEN 0 ELSE G[pick[s]][it[s \ {pick[s]}]]
    BY <1>6 DEF Folds
  <2>2. CASE s # {}
    <3>1. pick[s] \in D /\ s \ {pick[s]} \in SUBSET D
      BY <1>3, <2>2
    <3>2. it[s \ {pick[s]}] \in Int
      BY <1>7, <3>1
    <3> QED
      BY <1>5, <2>1, <2>2, <3>1, <3>2
  <2> QED
    BY <2>1, <2>2
<1>9. Totals(it, f, D)
  <2>1. it[{}] = 0
    BY <1>8
  <2>2. \A s \in SUBSET D : s # {} => pick[s] \in s /\ it[s] = f[pick[s]] + it[s \ {pick[s]}]
    BY <1>3, <1>8
  <2> QED
    BY ONLY <1>7, <2>1, <2>2, IsFiniteSet(D), f \in [D -> Int], AnyOrder
<1>10. it = Body(it)
  <2>1. \A s \in SUBSET D : it[s] = IF s = {} THEN 0
           ELSE f[CHOOSE x \in s : TRUE] + it[s \ {CHOOSE x \in s : TRUE}]
    BY <1>3, <1>8
  <2> QED
    BY <1>7, <2>1
<1>11. fold = Body(fold)
  BY <1>10
<1> HIDE DEF fold
<1>12. fold \in [SUBSET D -> Int] /\ \A s \in SUBSET D : fold[s] = it[s]
  <2> DEFINE T == {s \in SUBSET D : fold[s] # it[s]}
  <2>1. T = {}
    <3>1. SUFFICES ASSUME T # {} PROVE FALSE
      OBVIOUS
    <3>2. PICK s \in T : \A x \in s : s \ {x} \notin T
      <4>1. T \in SUBSET (SUBSET D)
        OBVIOUS
      <4> HIDE DEF T
      <4> QED
        BY <3>1, <4>1, LeastSet
    <3>3. s \in SUBSET D /\ fold[s] # it[s]
      OBVIOUS
    <3>4. fold[s] = IF s = {} THEN 0 ELSE f[pick[s]] + fold[s \ {pick[s]}]
      BY <1>3, <1>11, <3>3
    <3>5. s # {}
      BY <1>8, <3>3, <3>4
    <3>6. fold[s \ {pick[s]}] = it[s \ {pick[s]}]
      BY <1>3, <3>2, <3>3, <3>5
    <3> QED
      BY <1>8, <3>3, <3>4, <3>5, <3>6
  <2>2. \A s \in SUBSET D : fold[s] = it[s]
    BY <2>1
  <2>3. fold = [s \in SUBSET D |-> it[s]]
    <3>1. fold = [s \in SUBSET D |-> fold[s]]
      BY <1>11
    <3> QED
      BY <2>2, <3>1
  <2> QED
    BY <1>7, <2>2, <2>3
<1>13. D \in SUBSET D
  OBVIOUS
<1> QED
  BY <1>1, <1>9, <1>12, <1>13

\* The things that are carried to a member of s.
Carried(D, b, s) == {x \in D : b[x] \in s}

\* A sum carried elsewhere, where all else is nothing, is the same sum.
LEMMA TotalsCarried ==
  ASSUME NEW D, NEW E, IsFiniteSet(E), NEW f \in [D -> Int], NEW g \in [E -> Int],
         NEW t, Totals(t, f, D), NEW u, Totals(u, g, E),
         NEW b \in [D -> E], \A x, y \in D : b[x] = b[y] => x = y,
         \A x \in D : f[x] = g[b[x]],
         \A y \in E : (\A x \in D : b[x] # y) => g[y] = 0
  PROVE  \A s \in SUBSET E : u[s] = t[Carried(D, b, s)]
<1> DEFINE T == {s \in SUBSET E : u[s] # t[Carried(D, b, s)]}
<1>1. SUFFICES ASSUME T # {} PROVE FALSE
  OBVIOUS
<1>2. PICK s \in T : \A x \in s : s \ {x} \notin T
  <2>1. T \in SUBSET (SUBSET E)
    OBVIOUS
  <2> HIDE DEF T
  <2> QED
    BY <1>1, <2>1, LeastSet
<1>3. s \in SUBSET E /\ u[s] # t[Carried(D, b, s)]
  OBVIOUS
<1>4. s # {}
  <2>1. Carried(D, b, {}) = {}
    BY DEF Carried
  <2> QED
    BY <1>3, <2>1 DEF Totals
<1>5. PICK y \in s : TRUE
  BY <1>4
<1>6. u[s] = g[y] + u[s \ {y}]
  BY <1>3 DEF Totals
<1>7. PICK r : r = Carried(D, b, s \ {y})
  OBVIOUS
<1>8. u[s \ {y}] = t[r] /\ s \ {y} \in SUBSET E
  BY <1>2, <1>3, <1>7
<1>9. PICK c : c = Carried(D, b, s)
  OBVIOUS
<1>10. c \in SUBSET D /\ r \in SUBSET D
  BY <1>7, <1>9 DEF Carried
<1>11. CASE \E x \in D : b[x] = y
  <2>1. PICK x \in D : b[x] = y
    BY <1>11
  <2>2. x \in c /\ r = c \ {x}
    BY <1>7, <1>9, <2>1 DEF Carried
  <2>3. t[c] = f[x] + t[r]
    BY <1>10, <2>2 DEF Totals
  <2> QED
    BY <1>3, <1>6, <1>8, <1>9, <2>1, <2>3
<1>12. CASE \A x \in D : b[x] # y
  <2>1. r = c
    BY <1>7, <1>9, <1>12 DEF Carried
  <2>2. g[y] = 0 /\ u[s \ {y}] \in Int
    <3>1. y \in E
      BY <1>3
    <3> QED
      BY <1>8, <1>12, <3>1 DEF Totals
  <2>3. u[s] = u[s \ {y}]
    BY <1>6, <2>2
  <2> QED
    BY <1>3, <1>8, <1>9, <2>1, <2>3
<1> QED
  BY <1>11, <1>12

\* b carries what f counts in D to E, where g counts nothing else.
Carries(b, f, D, g, E) ==
  /\ f \in [D -> Int] /\ g \in [E -> Int]
  /\ b \in [D -> E] /\ \A x, y \in D : b[x] = b[y] => x = y
  /\ \A x \in D : f[x] = g[b[x]]
  /\ \A y \in E : (\A x \in D : b[x] # y) => g[y] = 0

\* Both sums are the same.
LEMMA SumCarried ==
  ASSUME NEW D, IsFiniteSet(D), NEW E, IsFiniteSet(E), NEW f, NEW g, NEW b, Carries(b, f, D, g, E)
  PROVE  SumFunction(f) = SumFunction(g)
<1>1. PICK t : Totals(t, f, D) /\ SumFunction(f) = t[D]
  BY SumIsTotal DEF Carries
<1>2. PICK u : Totals(u, g, E) /\ SumFunction(g) = u[E]
  BY SumIsTotal DEF Carries
<1>3. \A s \in SUBSET E : u[s] = t[Carried(D, b, s)]
  BY <1>1, <1>2, TotalsCarried DEF Carries
<1>4. Carried(D, b, E) = D
  BY DEF Carried, Carries
<1> QED
  BY <1>1, <1>2, <1>3, <1>4

\* The sum over a part.
LEMMA SumOfPart ==
  ASSUME NEW D, IsFiniteSet(D), NEW f \in [D -> Int], NEW t, Totals(t, f, D), NEW s \in SUBSET D
  PROVE  SumFunction([x \in s |-> f[x]]) = t[s]
<1>1. PICK g : g = [x \in s |-> f[x]]
  OBVIOUS
<1>2. IsFiniteSet(s) /\ g \in [s -> Int]
  BY <1>1, FS_Subset
<1>3. PICK u : Totals(u, g, s) /\ SumFunction(g) = u[s]
  BY <1>2, SumIsTotal
<1> DEFINE T == {r \in SUBSET s : u[r] # t[r]}
<1>4. T = {}
  <2>1. SUFFICES ASSUME T # {} PROVE FALSE
    OBVIOUS
  <2>2. PICK r \in T : \A x \in r : r \ {x} \notin T
    <3>1. T \in SUBSET (SUBSET s)
      OBVIOUS
    <3> HIDE DEF T
    <3> QED
      BY <1>2, <2>1, <3>1, LeastSet
  <2>3. r \in SUBSET s /\ r \in SUBSET D /\ u[r] # t[r]
    OBVIOUS
  <2>4. r # {}
    BY <1>3, <2>3 DEF Totals
  <2>5. PICK x \in r : TRUE
    BY <2>4
  <2>6. u[r] = g[x] + u[r \ {x}] /\ t[r] = f[x] + t[r \ {x}]
    BY <1>3, <2>3 DEF Totals
  <2>7. u[r \ {x}] = t[r \ {x}] /\ g[x] = f[x]
    BY <1>1, <2>2, <2>3
  <2> QED
    BY <2>3, <2>6, <2>7
<1>5. s \in SUBSET s
  OBVIOUS
<1>6. u[s] = t[s]
  BY <1>4, <1>5
<1> QED
  BY <1>1, <1>3, <1>6

\* The sum over two parts that share nothing.
LEMMA SumOfTwo ==
  ASSUME NEW D, IsFiniteSet(D), NEW f \in [D -> Int], NEW t, Totals(t, f, D),
         NEW p \in SUBSET D, NEW q \in SUBSET D, p \cap q = {}
  PROVE  t[p \cup q] = t[p] + t[q]
<1> DEFINE T == {r \in SUBSET q : t[p \cup r] # t[p] + t[r]}
<1>1. SUFFICES ASSUME T # {} PROVE FALSE
  <2>1. q \in SUBSET q
    OBVIOUS
  <2> QED
    BY <2>1
<1>2. PICK r \in T : \A x \in r : r \ {x} \notin T
  <2>1. T \in SUBSET (SUBSET q) /\ IsFiniteSet(q)
    BY FS_Subset
  <2> HIDE DEF T
  <2> QED
    BY <1>1, <2>1, LeastSet
<1>3. r \in SUBSET q /\ r \in SUBSET D /\ t[p \cup r] # t[p] + t[r] /\ p \cup r \in SUBSET D
  OBVIOUS
<1>4. t[p] \in Int /\ t[{}] = 0
  BY DEF Totals
<1>5. r # {}
  <2>1. p \cup {} = p /\ t[p] + 0 = t[p]
    BY <1>4
  <2> QED
    BY <1>3, <1>4, <2>1
<1>6. PICK x \in r : TRUE
  BY <1>5
<1>7. t[r] = f[x] + t[r \ {x}] /\ t[p \cup r] = f[x] + t[(p \cup r) \ {x}]
  BY <1>3 DEF Totals
<1>8. (p \cup r) \ {x} = p \cup (r \ {x})
  BY <1>3
<1>9. t[p \cup (r \ {x})] = t[p] + t[r \ {x}]
  BY <1>2, <1>3
<1>10. f[x] \in Int /\ t[r \ {x}] \in Int
  BY <1>3 DEF Totals
<1>11. t[p \cup r] = f[x] + (t[p] + t[r \ {x}])
  BY <1>7, <1>8, <1>9
<1>12. f[x] + (t[p] + t[r \ {x}]) = t[p] + (f[x] + t[r \ {x}])
  BY <1>4, <1>10
<1> QED
  BY <1>3, <1>7, <1>11, <1>12

\* Things in groups are summed group by group.
Groups(k, f, D, g, K) ==
  /\ f \in [D -> Int] /\ g \in [K -> Int] /\ k \in [D -> K]
  /\ \A d \in K : g[d] = SumFunction([x \in {x \in D : k[x] = d} |-> f[x]])

\* The groups' sums add up to that of all.
LEMMA SumOfGroups ==
  ASSUME NEW D, IsFiniteSet(D), NEW K, IsFiniteSet(K), NEW k, NEW f, NEW g, Groups(k, f, D, g, K)
  PROVE  SumFunction(g) = SumFunction(f)
<1>0. /\ f \in [D -> Int] /\ g \in [K -> Int] /\ k \in [D -> K]
      /\ \A d \in K : g[d] = SumFunction([x \in {x \in D : k[x] = d} |-> f[x]])
  BY DEF Groups
<1>1. PICK t : Totals(t, f, D) /\ SumFunction(f) = t[D]
  BY <1>0, SumIsTotal
<1>2. PICK u : Totals(u, g, K) /\ SumFunction(g) = u[K]
  BY <1>0, SumIsTotal
<1> DEFINE Group(d) == {x \in D : k[x] = d}
           T == {s \in SUBSET K : u[s] # t[Carried(D, k, s)]}
<1>3. ASSUME NEW d \in K PROVE g[d] = t[Group(d)] /\ Group(d) \in SUBSET D
  <2>1. Group(d) \in SUBSET D
    OBVIOUS
  <2>2. g[d] = SumFunction([x \in Group(d) |-> f[x]])
    BY <1>0
  <2> HIDE DEF Group
  <2> QED
    BY <1>0, <1>1, <2>1, <2>2, SumOfPart
<1>4. T = {}
  <2>1. SUFFICES ASSUME T # {} PROVE FALSE
    OBVIOUS
  <2>2. PICK s \in T : \A d \in s : s \ {d} \notin T
    <3>1. T \in SUBSET (SUBSET K)
      OBVIOUS
    <3> HIDE DEF T
    <3> QED
      BY <2>1, <3>1, LeastSet
  <2>3. s \in SUBSET K /\ u[s] # t[Carried(D, k, s)]
    OBVIOUS
  <2>4. s # {}
    <3>1. Carried(D, k, {}) = {}
      BY DEF Carried
    <3> QED
      BY <1>1, <1>2, <2>3, <3>1 DEF Totals
  <2>5. PICK d \in s : TRUE
    BY <2>4
  <2>6. u[s] = g[d] + u[s \ {d}]
    BY <1>2, <2>3 DEF Totals
  <2>7. PICK r : r = Carried(D, k, s \ {d})
    OBVIOUS
  <2>8. u[s \ {d}] = t[r]
    BY <2>2, <2>3, <2>7
  <2>9. /\ r \in SUBSET D /\ Group(d) \in SUBSET D /\ r \cap Group(d) = {}
        /\ Carried(D, k, s) = r \cup Group(d)
    BY <1>0, <2>3, <2>7 DEF Carried
  <2> HIDE DEF Group
  <2>10. t[r \cup Group(d)] = t[r] + t[Group(d)]
    BY ONLY <1>0, <1>1, <2>9, IsFiniteSet(D), SumOfTwo
  <2>11. g[d] = t[Group(d)]
    BY <1>3, <2>3
  <2>12. t[r] \in Int /\ t[Group(d)] \in Int
    BY <1>1, <2>9 DEF Totals
  <2> QED
    BY <2>3, <2>6, <2>8, <2>9, <2>10, <2>11, <2>12
<1>5. Carried(D, k, K) = D
  BY <1>0 DEF Carried
<1>6. u[K] = t[Carried(D, k, K)]
  BY <1>4
<1> QED
  BY <1>1, <1>2, <1>5, <1>6

\* The sum of sums.
Together(h, f, g, D) ==
  /\ f \in [D -> Int] /\ g \in [D -> Int] /\ h \in [D -> Int]
  /\ \A x \in D : h[x] = f[x] + g[x]

\* Its sum is that of both.
LEMMA SumOfSums ==
  ASSUME NEW D, IsFiniteSet(D), NEW f, NEW g, NEW h, Together(h, f, g, D)
  PROVE  SumFunction(h) = SumFunction(f) + SumFunction(g)
<1>0. /\ f \in [D -> Int] /\ g \in [D -> Int] /\ h \in [D -> Int]
      /\ \A x \in D : h[x] = f[x] + g[x]
  BY DEF Together
<1>1. PICK t : Totals(t, f, D) /\ SumFunction(f) = t[D]
  BY <1>0, SumIsTotal
<1>2. PICK u : Totals(u, g, D) /\ SumFunction(g) = u[D]
  BY <1>0, SumIsTotal
<1>3. PICK v : Totals(v, h, D) /\ SumFunction(h) = v[D]
  BY <1>0, SumIsTotal
<1> DEFINE T == {s \in SUBSET D : v[s] # t[s] + u[s]}
<1>4. SUFFICES ASSUME T # {} PROVE FALSE
  <2>1. D \in SUBSET D
    OBVIOUS
  <2> QED
    BY <1>1, <1>2, <1>3, <2>1
<1>5. PICK s \in T : \A x \in s : s \ {x} \notin T
  <2>1. T \in SUBSET (SUBSET D)
    OBVIOUS
  <2> HIDE DEF T
  <2> QED
    BY <1>4, <2>1, LeastSet
<1>6. s \in SUBSET D /\ v[s] # t[s] + u[s]
  OBVIOUS
<1>7. s # {}
  <2>1. t[{}] = 0 /\ u[{}] = 0 /\ v[{}] = 0
    BY <1>1, <1>2, <1>3 DEF Totals
  <2>2. s = {} => v[s] = 0 /\ t[s] + u[s] = 0
    BY <2>1
  <2> QED
    BY ONLY <1>6, <2>2
<1>8. PICK x \in s : TRUE
  BY <1>7
<1>9. PICK r \in SUBSET D : r = s \ {x}
  BY <1>6
<1>10. t[s] = f[x] + t[r] /\ u[s] = g[x] + u[r] /\ v[s] = h[x] + v[r]
  BY <1>1, <1>2, <1>3, <1>6, <1>9 DEF Totals
<1>11. t[r] \in Int /\ u[r] \in Int /\ v[r] \in Int /\ x \in D
  BY <1>1, <1>2, <1>3, <1>6 DEF Totals
<1>12. v[r] = t[r] + u[r]
  BY <1>5, <1>9
<1>13. f[x] \in Int /\ g[x] \in Int /\ h[x] = f[x] + g[x]
  BY <1>0, <1>11
<1> QED
  BY <1>6, <1>10, <1>11, <1>12, <1>13

\* What adds one or nothing for each is at most their number, and what adds one is it.
LEMMA SumCounts ==
  ASSUME NEW D, IsFiniteSet(D), NEW f \in [D -> Int], \A x \in D : f[x] \in {0, 1}
  PROVE  /\ SumFunction(f) <= Cardinality(D)
         /\ (\A x \in D : f[x] = 1) => SumFunction(f) = Cardinality(D)
<1>1. PICK t : Totals(t, f, D) /\ SumFunction(f) = t[D]
  BY SumIsTotal
<1> DEFINE Adds(s) == /\ t[s] <= Cardinality(s)
                      /\ (\A x \in D : f[x] = 1) => t[s] = Cardinality(s)
           T == {s \in SUBSET D : ~ Adds(s)}
<1>2. SUFFICES ASSUME T # {} PROVE FALSE
  <2>1. D \in SUBSET D
    OBVIOUS
  <2> QED
    BY <1>1, <2>1
<1>3. PICK s \in T : \A x \in s : s \ {x} \notin T
  <2>1. T \in SUBSET (SUBSET D)
    OBVIOUS
  <2> HIDE DEF T
  <2> QED
    BY <1>2, <2>1, LeastSet
<1>4. s \in SUBSET D /\ ~ Adds(s)
  OBVIOUS
<1>5. s # {}
  <2>1. t[{}] = 0 /\ Cardinality({}) = 0
    BY <1>1, FS_EmptySet DEF Totals
  <2> QED
    BY <1>4, <2>1
<1>6. PICK x \in s : TRUE
  BY <1>5
<1>7. PICK r \in SUBSET D : r = s \ {x}
  BY <1>4
<1>8. Adds(r)
  BY <1>3, <1>7
<1>9. t[s] = f[x] + t[r] /\ t[r] \in Int /\ x \in D
  BY <1>1, <1>4, <1>7 DEF Totals
<1>10. Cardinality(s) = Cardinality(r) + 1 /\ Cardinality(r) \in Nat
  <2>1. IsFiniteSet(s)
    BY <1>4, FS_Subset
  <2>2. Cardinality(s) \in Nat /\ Cardinality(s \ {x}) = Cardinality(s) - 1
    BY <2>1, FS_CardinalityType, FS_RemoveElement
  <2>3. IsFiniteSet(r) /\ Cardinality(r) \in Nat
    BY <1>7, FS_Subset, FS_CardinalityType
  <2> QED
    BY <1>7, <2>2, <2>3
<1>11. f[x] \in {0, 1}
  BY <1>9
<1> QED
  BY <1>4, <1>8, <1>9, <1>10, <1>11

-----------------------------------------------------------------------------
(* The figures.                                                            *)

\* b pairs the things in D with those in E.
Pairs(b, D, E) ==
  /\ b \in [D -> E] /\ \A x, y \in D : b[x] = b[y] => x = y
  /\ \A y \in E : \E x \in D : b[x] = y

\* They are as many.
LEMMA AsManyCarried ==
  ASSUME NEW D, NEW E, IsFiniteSet(D), NEW b, Pairs(b, D, E)
  PROVE  IsFiniteSet(E) /\ Cardinality(D) = Cardinality(E)
<1>1. b \in Bijection(D, E)
  <2>1. b \in Injection(D, E)
    BY DEF Pairs, Injection, IsInjective
  <2>2. b \in Surjection(D, E)
    BY DEF Pairs, Surjection
  <2> QED
    BY <2>1, <2>2 DEF Bijection
<1>2. ExistsBijection(D, E)
  BY <1>1 DEF ExistsBijection
<1> QED
  BY <1>2, FS_Bijection

\* Where the recent events stand in the trail.
Recently(events, today, window) == {i \in DOMAIN events : today - events[i].day < window}

\* t is what at picks of s, the places in D and no others.
Windowed(t, s, at, D) ==
  /\ DOMAIN t = 1 .. Len(t) /\ IsFiniteSet(DOMAIN t) /\ IsFiniteSet(D)
  /\ at \in [DOMAIN t -> D] /\ D \subseteq DOMAIN s
  /\ \A i, j \in DOMAIN t : at[i] = at[j] => i = j
  /\ \A x \in D : \E k \in DOMAIN t : at[k] = x
  /\ \A k \in DOMAIN t : t[k] = s[at[k]]

\* What is looked at is what is recent.
LEMMA WindowIsRecent ==
  ASSUME NEW X, NEW events \in Seq(X), NEW today \in Int, NEW window \in Int,
         \A i \in DOMAIN events : events[i].day \in Int
  PROVE  \E at : Windowed(InWindow(events, today, window), events, at,
                          Recently(events, today, window))
<1>1. PICK D : D = Recently(events, today, window)
  OBVIOUS
<1>2. DOMAIN events = 1 .. Len(events) /\ Len(events) \in Int
  BY LenProperties
<1>3. {i \in DOMAIN events : events[i].day >= today - (window - 1)} = D
  <2>1. \A i \in DOMAIN events : events[i].day >= today - (window - 1) <=> today - events[i].day < window
    <3> TAKE i \in DOMAIN events
    <3>1. PICK day \in Int : day = events[i].day
      OBVIOUS
    <3>2. day >= today - (window - 1) <=> today - day < window
      OBVIOUS
    <3> QED
      BY <3>1, <3>2
  <2> QED
    BY <1>1, <2>1 DEF Recently
<1>4. PICK t : t = InWindow(events, today, window)
  OBVIOUS
<1>5. t = Keep(events, D)
  BY <1>3, <1>4 DEF InWindow, Filter
<1>6. D \in SUBSET (1 .. Len(events))
  BY <1>1, <1>2 DEF Recently
<1>7. t \in Seq(X) /\ Len(t) = Cardinality(D)
  BY <1>5, <1>6, KeepPicks
<1>8. PICK at : /\ Picks(t, events, at)
                /\ \A k \in 1 .. Len(t) : at[k] \in D
                /\ \A x \in D : \E k \in 1 .. Len(t) : at[k] = x
  BY <1>5, <1>6, KeepPicks
<1>9. DOMAIN t = 1 .. Len(t) /\ Len(t) \in Nat
  BY <1>7, LenProperties
<1>10. IsFiniteSet(1 .. Len(t)) /\ IsFiniteSet(D)
  <2>1. 1 \in Int /\ Len(t) \in Int
    BY <1>9
  <2>2. IsFiniteSet(1 .. Len(t)) /\ IsFiniteSet(1 .. Len(events))
    BY ONLY <1>2, <2>1, FS_Interval
  <2> QED
    BY <1>6, <2>2, FS_Subset
<1>11. at \in [1 .. Len(t) -> D]
  BY <1>8 DEF Picks
<1>12. \A i, j \in 1 .. Len(t) : at[i] = at[j] => i = j
  <2> TAKE i, j \in 1 .. Len(t)
  <2>1. at[i] \in Int /\ at[j] \in Int /\ i \in Int /\ j \in Int
    <3>1. D \subseteq Int
      BY <1>2, <1>6
    <3> QED
      <4>1. at[i] \in D /\ at[j] \in D
        BY <1>8
      <4>2. i \in Int /\ j \in Int
        OBVIOUS
      <4> QED
        BY <3>1, <4>1, <4>2
  <2>2. (i < j => at[i] < at[j]) /\ (j < i => at[j] < at[i])
    BY <1>8 DEF Picks
  <2> QED
    BY <2>1, <2>2
<1>13. \A k \in 1 .. Len(t) : t[k] = events[at[k]]
  BY <1>8 DEF Picks
<1>14. D \subseteq DOMAIN events
  BY <1>2, <1>6
<1>15. Windowed(t, events, at, D)
  BY <1>8, <1>9, <1>10, <1>11, <1>12, <1>13, <1>14 DEF Windowed
<1> QED
  BY <1>1, <1>4, <1>15

\* A part of what is looked at, and the same part of the trail.
SamePart(P, Q, places, at) == \A k \in places : k \in P <=> at[k] \in Q

\* They are finite, and in pairs.
LEMMA WindowedPart ==
  ASSUME NEW t, NEW s, NEW at, NEW D, Windowed(t, s, at, D),
         NEW P \in SUBSET DOMAIN t, NEW Q \in SUBSET D, SamePart(P, Q, DOMAIN t, at)
  PROVE  IsFiniteSet(P) /\ IsFiniteSet(Q) /\ Pairs([k \in P |-> at[k]], P, Q)
<1> DEFINE b == [k \in P |-> at[k]]
<1>0. \A k \in DOMAIN t : k \in P <=> at[k] \in Q
  BY DEF SamePart
<1>1. IsFiniteSet(P) /\ IsFiniteSet(Q)
  BY FS_Subset DEF Windowed
<1>2. b \in [P -> Q] /\ \A i, j \in P : b[i] = b[j] => i = j
  BY <1>0 DEF Windowed
<1>3. \A x \in Q : \E k \in P : b[k] = x
  <2> TAKE x \in Q
  <2>1. PICK k \in DOMAIN t : at[k] = x
    BY DEF Windowed
  <2> QED
    BY <1>0, <2>1
<1> QED
  BY <1>1, <1>2, <1>3 DEF Pairs

-----------------------------------------------------------------------------
\* What is recorded of the use of the model and of tools.
IsUsage(e) ==
  /\ e.day \in Int
  /\ \/ e.type = "token_usage" /\ e.prompt \in Nat /\ e.completion \in Nat
     \/ e.type = "tool_call"

\* Every token and every call of the window is in the totals, each call under its tool
\* (usage_service.py:78-134).
THEOREM UsageAddsUp ==
  ASSUME NEW X, NEW events \in Seq(X), \A i \in DOMAIN events : IsUsage(events[i]),
         NEW today \in Int, NEW window \in Int
  PROVE  UsageIsSound(events, today, window, Usage(events, today, window))
<1>1. PICK t : t = InWindow(events, today, window)
  OBVIOUS
<1>2. PICK D : D = Recently(events, today, window)
  OBVIOUS
<1>3. PICK at : Windowed(t, events, at, D)
  <2>1. \A i \in DOMAIN events : events[i].day \in Int
    BY DEF IsUsage
  <2> QED
    BY <1>1, <1>2, <2>1, WindowIsRecent
<1>4. /\ at \in [DOMAIN t -> D] /\ \A k \in DOMAIN t : t[k] = events[at[k]] /\ IsUsage(t[k])
      /\ \A x \in D : x \in DOMAIN events /\ IsUsage(events[x])
      /\ IsFiniteSet(D) /\ IsFiniteSet(DOMAIN t)
  BY <1>3 DEF Windowed
<1> DEFINE Tokens == {i \in DOMAIN t : t[i].type = "token_usage"}
           Calls == {i \in DOMAIN t : t[i].type = "tool_call"}
           spent == [i \in D |-> IF events[i].type = "tool_call" THEN 0
                                 ELSE events[i].prompt + events[i].completion]
           p == [i \in Tokens |-> t[i].prompt]
           c == [i \in Tokens |-> t[i].completion]
           both == [i \in Tokens |-> t[i].prompt + t[i].completion]
           calls == {i \in D : events[i].type = "tool_call"}
           Tools == {t[i].tool : i \in Calls}
           byTool == [tool \in Tools |-> Cardinality({i \in Calls : t[i].tool = tool})]
<1>5. Usage(events, today, window)
        = [prompt_tokens |-> SumFunction(p), completion_tokens |-> SumFunction(c),
           total_tokens |-> SumFunction(p) + SumFunction(c),
           tool_calls |-> SumFunction(byTool), tool_calls_by_tool |-> byTool]
  BY <1>1 DEF Usage
<1>6. IsFiniteSet(Tokens) /\ IsFiniteSet(Calls) /\ IsFiniteSet(calls)
  BY <1>4, FS_Subset
<1>7. SumFunction(p) + SumFunction(c) = SumFunction(spent)
  <2>1. \A i \in Tokens : t[i].prompt \in Int /\ t[i].completion \in Int
    BY <1>4 DEF IsUsage
  <2>2. p \in [Tokens -> Int] /\ c \in [Tokens -> Int] /\ both \in [Tokens -> Int]
    BY <2>1
  <2>3. \A i \in Tokens : both[i] = p[i] + c[i]
    OBVIOUS
  <2>4. SumFunction(both) = SumFunction(p) + SumFunction(c)
    <3>1. Together(both, p, c, Tokens)
      BY <2>2, <2>3 DEF Together
    <3> HIDE DEF p, c, both, Tokens
    <3> QED
      BY <1>6, <3>1, SumOfSums
  <2>5. spent \in [D -> Int]
    <3>1. \A i \in D : events[i].type # "tool_call" => events[i].prompt + events[i].completion \in Int
      BY <1>4 DEF IsUsage
    <3> QED
      BY <3>1
  <2>6. PICK b : b = [i \in Tokens |-> at[i]]
    OBVIOUS
  <2>7. b \in [Tokens -> D] /\ \A x, y \in Tokens : b[x] = b[y] => x = y
    BY <1>3, <2>6 DEF Windowed
  <2>8. \A x \in Tokens : both[x] = spent[b[x]]
    BY <1>4, <2>6
  <2>9. \A y \in D : (\A x \in Tokens : b[x] # y) => spent[y] = 0
    <3> SUFFICES ASSUME NEW y \in D, \A x \in Tokens : b[x] # y PROVE spent[y] = 0
      OBVIOUS
    <3>1. PICK k \in DOMAIN t : at[k] = y
      BY <1>3 DEF Windowed
    <3>2. k \notin Tokens
      BY <2>6, <3>1
    <3>3. events[y].type = "tool_call"
      BY <1>4, <3>1, <3>2 DEF IsUsage
    <3> QED
      BY <3>3
  <2>10. SumFunction(both) = SumFunction(spent)
    <3> HIDE DEF both, spent, Tokens
    <3>1. Carries(b, both, Tokens, spent, D)
      BY <2>2, <2>5, <2>7, <2>8, <2>9 DEF Carries
    <3> QED
      BY <1>4, <1>6, <3>1, SumCarried
  <2> QED
    BY <2>4, <2>10
<1>8. ASSUME NEW tool
      PROVE  Cardinality({i \in Calls : t[i].tool = tool}) = Cardinality({i \in calls : events[i].tool = tool})
  <2>1. PICK P : P = {i \in Calls : t[i].tool = tool}
    OBVIOUS
  <2>2. PICK Q : Q = {i \in calls : events[i].tool = tool}
    OBVIOUS
  <2>3. \A k \in DOMAIN t : k \in P <=> at[k] \in Q
    BY <1>4, <2>1, <2>2
  <2>4. P \in SUBSET DOMAIN t /\ Q \in SUBSET D /\ SamePart(P, Q, DOMAIN t, at)
    BY <2>1, <2>2, <2>3 DEF SamePart
  <2>5. IsFiniteSet(P) /\ \E b : Pairs(b, P, Q)
    BY <1>3, <2>4, WindowedPart
  <2>6. Cardinality(P) = Cardinality(Q)
    BY <2>5, AsManyCarried
  <2> QED
    BY <2>1, <2>2, <2>6
<1>9. Cardinality(Calls) = Cardinality(calls)
  <2>1. \A k \in DOMAIN t : k \in Calls <=> at[k] \in calls
    BY <1>4
  <2>2. Calls \in SUBSET DOMAIN t /\ calls \in SUBSET D /\ SamePart(Calls, calls, DOMAIN t, at)
    BY <2>1 DEF SamePart
  <2> HIDE DEF Calls, calls
  <2>3. \E b : Pairs(b, Calls, calls)
    BY <1>3, <2>2, WindowedPart
  <2> QED
    BY <1>6, <2>3, AsManyCarried
<1>10. SumFunction(byTool) = Cardinality(Calls)
  <2>1. PICK ones : ones = [i \in Calls |-> 1]
    OBVIOUS
  <2>2. PICK k : k = [i \in Calls |-> t[i].tool]
    OBVIOUS
  <2>3. k \in [Calls -> Tools] /\ ones \in [Calls -> Int]
    BY <2>1, <2>2
  <2>4. IsFiniteSet(Tools)
    <3>1. k \in Surjection(Calls, Tools)
      BY <2>2 DEF Surjection
    <3> HIDE DEF Calls, Tools
    <3> QED
      BY <1>6, <3>1, FS_Surjection
  <2>5. ASSUME NEW tool \in Tools
        PROVE  /\ byTool[tool] \in Int
               /\ byTool[tool] = SumFunction([i \in {i \in Calls : k[i] = tool} |-> ones[i]])
    <3>1. PICK P : P = {i \in Calls : k[i] = tool}
      OBVIOUS
    <3>2. P = {i \in Calls : t[i].tool = tool} /\ P \in SUBSET Calls
      BY <2>2, <3>1
    <3>3. IsFiniteSet(P) /\ Cardinality(P) \in Int
      <4> HIDE DEF Calls
      <4> QED
        BY <1>6, <3>2, FS_Subset, FS_CardinalityType
    <3>4. byTool[tool] = Cardinality(P)
      BY <3>2
    <3>5. PICK some : some = [i \in P |-> ones[i]]
      OBVIOUS
    <3>6. some \in [P -> Int] /\ \A i \in P : some[i] = 1 /\ some[i] \in {0, 1}
      BY <2>1, <3>2, <3>5
    <3>7. SumFunction(some) = Cardinality(P)
      BY <3>3, <3>6, SumCounts
    <3> QED
      BY <3>1, <3>3, <3>4, <3>5, <3>7
  <2>6. byTool \in [Tools -> Int]
    BY <2>5
  <2>7. SumFunction(byTool) = SumFunction(ones)
    <3> HIDE DEF Calls, Tools, byTool
    <3>1. Groups(k, ones, Calls, byTool, Tools)
      BY <2>3, <2>5, <2>6 DEF Groups
    <3> QED
      BY <1>6, <2>4, <3>1, SumOfGroups
  <2>8. SumFunction(ones) = Cardinality(Calls)
    <3> HIDE DEF Calls
    <3>1. \A i \in Calls : ones[i] = 1 /\ ones[i] \in {0, 1}
      BY <2>1
    <3> QED
      BY <1>6, <2>3, <3>1, SumCounts
  <2> QED
    BY <2>7, <2>8
<1>11. \A i \in calls : byTool[events[i].tool] = Cardinality({j \in calls : events[j].tool = events[i].tool})
  <2> TAKE i \in calls
  <2>1. PICK k \in DOMAIN t : at[k] = i
    BY <1>3 DEF Windowed
  <2>2. k \in Calls /\ t[k].tool = events[i].tool
    BY <1>4, <2>1
  <2>3. events[i].tool \in Tools
    BY <2>2
  <2>4. PICK tool : tool = events[i].tool
    OBVIOUS
  <2>5. byTool[tool] = Cardinality({j \in Calls : t[j].tool = tool})
    BY <2>3, <2>4
  <2>6. Cardinality({j \in Calls : t[j].tool = tool}) = Cardinality({j \in calls : events[j].tool = tool})
    BY <1>8
  <2> QED
    BY <2>4, <2>5, <2>6
<1>12. PICK u : u = Usage(events, today, window)
  OBVIOUS
<1>13. /\ u.total_tokens = SumFunction(spent) /\ u.tool_calls = Cardinality(calls)
       /\ u.tool_calls_by_tool = byTool
  <2> HIDE DEF p, c, spent, byTool, Calls, calls
  <2> QED
    BY <1>5, <1>7, <1>9, <1>10, <1>12
<1>14. UsageIsSound(events, today, window, u)
  BY <1>2, <1>11, <1>13 DEF UsageIsSound, Recently
<1> QED
  BY <1>12, <1>14

-----------------------------------------------------------------------------
(* Streaks.                                                                *)

\* v is what one pass over the days of active up to v.last knows: the run that ends
\* there, and no stretch so far is longer than the longest.
StreakSoFar(active, v) ==
  /\ v.last \in active /\ v.run \in Nat \ {0} /\ v.longest \in Nat /\ v.run <= v.longest
  /\ v.last - v.run \notin active
  /\ v.last - v.run + 1 .. v.last \subseteq active
  /\ \E day \in active : day .. day + v.longest - 1 \subseteq active
  /\ \A day \in Int : day .. day + v.longest \subseteq active => day + v.longest > v.last

\* The first day begins a run,
LEMMA StreakBegins ==
  ASSUME NEW active \in SUBSET Int, NEW d \in active, \A x \in active : d <= x
  PROVE  StreakSoFar(active, StreakStep([last |-> -1, run |-> 0, longest |-> 0], d))
<1>1. PICK v : v = StreakStep([last |-> -1, run |-> 0, longest |-> 0], d)
  OBVIOUS
<1>2. v.last = d /\ v.run = 1 /\ v.longest = 1
  BY <1>1 DEF StreakStep
<1>3. d \in Int /\ d - 1 \in Int /\ d - 1 \notin active
  BY SMT
<1>4. \A x \in d - 1 + 1 .. d : x = d
  BY <1>3
<1>5. \A x \in d .. d + 1 - 1 : x = d
  BY <1>3
<1>6. \A day \in Int : day .. day + 1 \subseteq active => day + 1 > d
  <2> TAKE day \in Int
  <2> SUFFICES ASSUME day .. day + 1 \subseteq active PROVE day + 1 > d
    OBVIOUS
  <2>1. day \in day .. day + 1
    OBVIOUS
  <2>2. d <= day
    BY <2>1
  <2> QED
    BY <1>3, <2>2
<1>7. StreakSoFar(active, v)
  BY <1>2, <1>3, <1>4, <1>5, <1>6 DEF StreakSoFar
<1> QED
  BY <1>1, <1>7

\* and the next one goes on with it or begins another.
LEMMA StreakGoesOn ==
  ASSUME NEW active \in SUBSET Int, NEW v, StreakSoFar(active, v), NEW d \in active, v.last < d,
         \A x \in active : x <= v.last \/ d <= x
  PROVE  StreakSoFar(active, StreakStep(v, d))
<1>1. PICK u : u = StreakStep(v, d)
  OBVIOUS
<1>2. PICK p \in Int, run \in Nat \ {0}, longest \in Nat :
        p = v.last /\ run = v.run /\ longest = v.longest /\ p \in active /\ run <= longest
  BY DEF StreakSoFar
<1>3. /\ p - run \notin active /\ p - run + 1 .. p \subseteq active
      /\ \E day \in active : day .. day + longest - 1 \subseteq active
      /\ \A day \in Int : day .. day + longest \subseteq active => day + longest > p
  BY <1>2 DEF StreakSoFar
<1>4. d \in Int /\ p < d /\ \A x \in active : x <= p \/ d <= x
  BY <1>2
<1>5. PICK next \in Nat \ {0} : next = IF d = p + 1 THEN run + 1 ELSE 1
  OBVIOUS
<1>6. PICK most \in Nat : most = IF next > longest THEN next ELSE longest
  OBVIOUS
<1>7. u.last = d /\ u.run = next /\ u.longest = most
  BY <1>1, <1>2, <1>5, <1>6 DEF StreakStep
<1>8. d - next \notin active /\ d - next + 1 .. d \subseteq active
  <2>1. CASE d = p + 1
    <3>1. d - next = p - run
      BY <1>5, <2>1
    <3>2. \A x \in d - next + 1 .. d : x = d \/ x \in p - run + 1 .. p
      BY <1>4, <1>5, <2>1
    <3> QED
      BY <1>3, <3>1, <3>2
  <2>2. CASE d # p + 1
    <3>1. next = 1 /\ d - 1 \in Int /\ ~ d - 1 <= p /\ ~ d <= d - 1
      BY <1>4, <1>5, <2>2
    <3>2. \A x \in d - 1 + 1 .. d : x = d
      BY <1>4
    <3> QED
      BY <1>4, <3>1, <3>2
  <2> QED
    BY <2>1, <2>2
<1>9. \E day \in active : day .. day + most - 1 \subseteq active
  <2>1. CASE next > longest
    <3>1. most = next /\ d - next + 1 \in d - next + 1 .. d /\ d - next + 1 + next - 1 = d
      BY <1>4, <1>6, <2>1
    <3>2. d - next + 1 \in active /\ d - next + 1 .. d - next + 1 + most - 1 \subseteq active
      BY <1>8, <3>1
    <3> QED
      BY <3>2
  <2>2. CASE ~ next > longest
    BY <1>3, <1>6, <2>2
  <2> QED
    BY <2>1, <2>2
<1>10. ASSUME NEW day \in Int, day .. day + most \subseteq active PROVE day + most > d
  <2>1. SUFFICES ASSUME ~ day + most > d PROVE FALSE
    OBVIOUS
  <2>2. longest <= most /\ next <= most
    BY <1>6
  <2>3. day + most \in day .. day + most
    BY <2>2
  <2>4. day + most = d
    <3>1. SUFFICES ASSUME day + most # d PROVE FALSE
      OBVIOUS
    <3>2. day + most <= p
      BY <1>4, <1>10, <2>1, <2>3, <3>1
    <3>3. \A x \in day .. day + longest : x \in day .. day + most
      BY <2>2
    <3>4. day + longest > p
      BY <1>3, <1>10, <3>3
    <3> QED
      BY <2>2, <3>2, <3>4
  <2>5. d - next \in day .. day + most
    BY <2>2, <2>4
  <2> QED
    BY <1>8, <1>10, <2>5
<1>11. next <= most /\ d \in active
  BY <1>6
<1>12. StreakSoFar(active, u)
  BY <1>7, <1>8, <1>9, <1>10, <1>11 DEF StreakSoFar
<1> QED
  BY <1>1, <1>12

\* One pass over the days finds the longest stretch of them.
LEMMA LongestIsFound ==
  ASSUME NEW active \in SUBSET Int, IsFiniteSet(active), NEW today
  PROVE  LET longest == Streaks(active, today).longest
         IN  /\ longest \in Nat /\ (active = {} => longest = 0)
             /\ active # {} => \E day \in active : day .. day + longest - 1 \subseteq active
             /\ \A day \in active : ~ (day .. day + longest \subseteq active)
<1>1. PICK days : days = Sorted(active, <)
  OBVIOUS
<1>2. PICK n \in Nat : n = Cardinality(active)
  BY FS_CardinalityType
<1>3. /\ days \in [1 .. n -> active] /\ \A i, j \in 1 .. n : i < j => days[i] < days[j]
      /\ \A x \in active : \E k \in 1 .. n : days[k] = x
  BY <1>1, <1>2, SortedLists DEF Listing
<1>4. days \in Seq(active) /\ Len(days) = n
  BY <1>3, FunctionIsSeq
<1> DEFINE start == [last |-> -1, run |-> 0, longest |-> 0]
           State == [last : Int, run : Int, longest : Int]
           D == DOMAIN days
           Body(it) == [s \in SUBSET D |-> IF s = {} THEN start
                          ELSE StreakStep(it[s \ {Max(s)}], days[Max(s)])]
           fold == CHOOSE it : it = Body(it)
<1>5. Streaks(active, today).longest = fold[D].longest
  <2>1. FoldLeft(StreakStep, start, days) = fold[D]
    BY Zenon DEF FoldLeft, MapThenFoldSet
  <2>2. Streaks(active, today).longest = FoldLeft(StreakStep, start, days).longest
    BY <1>1 DEF Streaks
  <2> QED
    BY <2>1, <2>2
<1>6. D = 1 .. n
  BY <1>3
<1> HIDE DEF D
<1>7. PICK G : G = [i \in 1 .. n |-> [v \in State |-> StreakStep(v, days[i])]]
  OBVIOUS
<1>8. \A i \in 1 .. n : \A v \in State : /\ G[i][v] = StreakStep(v, days[i])
                                         /\ G[i][v] \in State
  <2> TAKE i \in 1 .. n
  <2> TAKE v \in State
  <2>1. days[i] \in Int
    BY <1>3
  <2>2. StreakStep(v, days[i]) \in State
    BY <2>1 DEF StreakStep
  <2> QED
    BY <1>7, <2>2
<1>9. start \in State
  OBVIOUS
<1> HIDE DEF start, State
<1>10. PICK it : Folds(it, 1 .. n, State, start, LastOf(n), G)
  <2>1. IsFiniteSet(1 .. n)
    BY FS_Interval
  <2>2. \A s \in SUBSET (1 .. n) : s # {} => LastOf(n)[s] \in s
    BY LastIsIn
  <2> QED
    BY <1>8, <1>9, <2>1, <2>2, FoldExists
<1>11. it \in [SUBSET (1 .. n) -> State]
  BY <1>10 DEF Folds
<1>12. it = Body(it)
  <2>1. ASSUME NEW s \in SUBSET (1 .. n)
        PROVE  it[s] = IF s = {} THEN start ELSE StreakStep(it[s \ {Max(s)}], days[Max(s)])
    <3>1. it[s] = IF s = {} THEN start ELSE G[LastOf(n)[s]][it[s \ {LastOf(n)[s]}]]
      BY <1>10 DEF Folds
    <3>2. CASE s = {}
      BY <3>1, <3>2
    <3>3. CASE s # {}
      <4>1. PICK x \in s : x = Max(s) /\ LastOf(n)[s] = x
        BY <3>3, LastIsIn
      <4>2. x \in 1 .. n /\ s \ {x} \in SUBSET (1 .. n)
        OBVIOUS
      <4>3. it[s \ {x}] \in State
        BY <1>11, <4>2
      <4>4. it[s] = G[x][it[s \ {x}]]
        BY <3>1, <3>3, <4>1
      <4>5. G[x][it[s \ {x}]] = StreakStep(it[s \ {x}], days[x])
        BY <1>8, <4>2, <4>3
      <4> QED
        BY <3>3, <4>1, <4>4, <4>5
    <3> QED
      BY <3>2, <3>3
  <2> QED
    BY <1>6, <1>11, <2>1
<1>13. fold = Body(fold)
  BY <1>12
<1> HIDE DEF fold
<1>14. fold[{}] = start
  BY <1>13
<1>15. ASSUME NEW i \in 1 .. n PROVE fold[1 .. i] = StreakStep(fold[1 .. i - 1], days[i])
  <2>1. Max(1 .. i) = i
    BY LastIsIn
  <2>2. (1 .. i) \ {i} = 1 .. i - 1 /\ 1 .. i # {} /\ 1 .. i \in SUBSET D
    <3>1. \A k : k \in (1 .. i) \ {i} <=> k \in 1 .. i - 1
      OBVIOUS
    <3>2. i \in 1 .. i /\ \A k \in 1 .. i : k \in 1 .. n
      OBVIOUS
    <3> QED
      BY <1>6, <3>1, <3>2
  <2>3. PICK s : s = 1 .. i
    OBVIOUS
  <2>4. s \in SUBSET D /\ s # {} /\ Max(s) = i /\ s \ {i} = 1 .. i - 1
    BY <2>1, <2>2, <2>3
  <2>5. fold[s] = StreakStep(fold[s \ {Max(s)}], days[Max(s)])
    BY <1>13, <2>4
  <2> QED
    BY <2>3, <2>4, <2>5
<1>16. ASSUME NEW i \in 1 .. n PROVE StreakSoFar(active, fold[1 .. i]) /\ fold[1 .. i].last = days[i]
  <2> DEFINE Good(k) == StreakSoFar(active, fold[1 .. k]) /\ fold[1 .. k].last = days[k]
             T == {k \in 1 .. n : ~ Good(k)}
  <2>1. SUFFICES ASSUME T # {} PROVE FALSE
    OBVIOUS
  <2>2. PICK m \in T : \A k \in Nat : k < m => k \notin T
    <3>1. T \in SUBSET Nat
      OBVIOUS
    <3> HIDE DEF T
    <3> QED
      BY <2>1, <3>1, LeastNumber
  <2>3. m \in 1 .. n /\ ~ Good(m)
    OBVIOUS
  <2>4. days[m] \in active /\ fold[1 .. m] = StreakStep(fold[1 .. m - 1], days[m])
    BY <1>3, <1>15, <2>3
  <2>5. fold[1 .. m].last = days[m]
    BY <2>4 DEF StreakStep
  <2>6. CASE m = 1
    <3>1. 1 .. m - 1 = {}
      BY <2>6
    <3>2. \A x \in active : days[m] <= x
      <4> TAKE x \in active
      <4>1. PICK k \in 1 .. n : days[k] = x
        BY <1>3
      <4>2. CASE k = m
        <5>1. days[m] = x /\ x \in Int
          BY <4>1, <4>2
        <5> QED
          BY <5>1
      <4>3. CASE k # m
        <5>1. m < k
          BY <2>6, <4>3
        <5>2. days[m] < x
          BY <1>3, <2>3, <4>1, <5>1
        <5>3. days[m] \in Int /\ x \in Int
          BY <2>4
        <5> QED
          BY <5>2, <5>3
      <4> QED
        BY <4>2, <4>3
    <3>3. fold[1 .. m - 1] = [last |-> -1, run |-> 0, longest |-> 0]
      BY <1>14, <3>1 DEF start
    <3>4. StreakSoFar(active, fold[1 .. m])
      BY <2>4, <3>2, <3>3, StreakBegins
    <3> QED
      BY <2>3, <2>5, <3>4
  <2>7. CASE m # 1
    <3>1. m - 1 \in 1 .. n /\ m - 1 \in Nat /\ m - 1 < m
      BY <2>3, <2>7
    <3>2. Good(m - 1)
      BY <2>2, <3>1
    <3>3. PICK v : v = fold[1 .. m - 1]
      OBVIOUS
    <3>4. StreakSoFar(active, v) /\ v.last = days[m - 1]
      BY <3>2, <3>3
    <3>5. v.last < days[m]
      BY <1>3, <2>3, <3>1, <3>4
    <3>6. \A x \in active : x <= v.last \/ days[m] <= x
      <4> TAKE x \in active
      <4>1. PICK k \in 1 .. n : days[k] = x
        BY <1>3
      <4>2. k < m - 1 \/ k = m - 1 \/ k = m \/ m < k
        BY <2>3
      <4>3. \/ days[k] < days[m - 1] \/ days[k] = days[m - 1]
            \/ days[k] = days[m] \/ days[m] < days[k]
        BY <1>3, <2>3, <3>1, <4>2
      <4>4. days[m - 1] \in Int /\ days[m] \in Int /\ x \in Int
        BY <1>3, <2>3, <3>1
      <4> QED
        BY <3>4, <4>1, <4>3, <4>4
    <3>7. StreakSoFar(active, StreakStep(v, days[m]))
      BY <2>4, <3>4, <3>5, <3>6, StreakGoesOn
    <3> QED
      BY <2>3, <2>4, <2>5, <3>3, <3>7
  <2> QED
    BY <2>6, <2>7
<1>17. PICK longest : longest = Streaks(active, today).longest
  OBVIOUS
<1>18. CASE active = {}
  <2>1. n = 0
    BY <1>2, <1>18, FS_EmptySet
  <2>2. D = {}
    BY <1>6, <2>1
  <2>3. longest = 0
    BY <1>5, <1>14, <1>17, <2>2 DEF start
  <2> QED
    BY <1>17, <1>18, <2>3
<1>19. CASE active # {}
  <2>1. PICK k \in 1 .. n : TRUE
    BY <1>3, <1>19
  <2>2. n \in 1 .. n
    BY <2>1
  <2>3. PICK v : v = fold[1 .. n]
    OBVIOUS
  <2>4. StreakSoFar(active, v) /\ v.last = days[n] /\ longest = v.longest
    BY <1>5, <1>6, <1>16, <1>17, <2>2, <2>3
  <2>5. longest \in Nat /\ \E day \in active : day .. day + longest - 1 \subseteq active
    BY <2>4 DEF StreakSoFar
  <2>6. ASSUME NEW day \in active, day .. day + longest \subseteq active PROVE FALSE
    <3>1. day \in Int /\ day + longest \in day .. day + longest
      BY <2>5
    <3>2. day + longest > days[n]
      BY <2>4, <2>6, <3>1 DEF StreakSoFar
    <3>3. PICK j \in 1 .. n : days[j] = day + longest
      BY <1>3, <2>6, <3>1
    <3>4. j = n \/ days[j] < days[n]
      BY <1>3, <2>2
    <3>5. PICK l \in Nat : l = longest
      BY <2>5
    <3>6. days[n] \in Int /\ day + l \in Int
      <4>1. days[n] \in active
        BY <1>3, <2>2
      <4>2. PICK e \in Int : e = day
        BY <3>1
      <4>3. PICK x \in Int : x = days[n]
        BY <4>1
      <4>4. e + l \in Int
        OBVIOUS
      <4> QED
        BY <4>2, <4>3, <4>4
    <3> QED
      BY <3>2, <3>3, <3>4, <3>5, <3>6
  <2> QED
    BY <1>17, <1>19, <2>5, <2>6
<1> QED
  BY <1>18, <1>19

\* The current streak ends today, and no longest one is shorter.
LEMMA CurrentIsFound ==
  ASSUME NEW active \in SUBSET Int, IsFiniteSet(active), NEW today \in Int
  PROVE  LET s == Streaks(active, today)
         IN  /\ s.current \in Nat /\ s.current <= s.longest
             /\ today - s.current + 1 .. today - s.current + 1 + s.current - 1 \subseteq active
             /\ today - s.current \notin active
<1>1. PICK n \in Nat : n = Cardinality(active)
  BY FS_CardinalityType
<1>2. PICK misses : misses = {k \in 0 .. n : today - k \notin active}
  OBVIOUS
<1>3. misses # {}
  <2>1. SUFFICES ASSUME misses = {} PROVE FALSE
    OBVIOUS
  <2>2. PICK f : f = [k \in 0 .. n |-> today - k]
    OBVIOUS
  <2>3. f \in [0 .. n -> active]
    BY <1>2, <2>1, <2>2
  <2>4. \A k, l \in 0 .. n : f[k] = f[l] => k = l
    BY <2>2
  <2>5. f \in Injection(0 .. n, active)
    BY <2>3, <2>4 DEF Injection, IsInjective
  <2>6. Cardinality(0 .. n) <= n
    BY <1>1, <2>5, FS_Injection
  <2>7. Cardinality(0 .. n) = n + 1
    <3>1. 0 \in Int /\ n \in Int /\ ~ 0 > n /\ n - 0 + 1 = n + 1
      OBVIOUS
    <3> QED
      BY <3>1, FS_Interval
  <2> QED
    BY <2>6, <2>7
<1>4. misses \in SUBSET Nat
  BY <1>2
<1>5. PICK m \in misses : \A k \in Nat : k < m => k \notin misses
  BY <1>3, <1>4, LeastNumber
<1>6. PICK s : s = Streaks(active, today)
  OBVIOUS
<1>7. s.current = CHOOSE k \in misses : \A l \in misses : k <= l
  BY <1>1, <1>2, <1>6 DEF Streaks
<1>8. s.current = m
  <2>1. \A l \in misses : m <= l
    BY <1>4, <1>5
  <2>2. \A k \in misses : (\A l \in misses : k <= l) => k = m
    <3> TAKE k \in misses
    <3>1. k \in Nat /\ m \in Nat
      BY <1>4
    <3> QED
      BY <2>1, <3>1
  <2> QED
    BY <1>7, <2>1, <2>2
<1>9. m \in 0 .. n /\ today - m \notin active
  BY <1>2
<1>10. today - m + 1 .. today \subseteq active
  <2> SUFFICES ASSUME NEW x \in today - m + 1 .. today PROVE x \in active
    OBVIOUS
  <2>1. today - x \in Nat /\ today - x < m /\ today - x \in 0 .. n /\ today - (today - x) = x
    BY <1>9
  <2>2. today - x \notin misses
    BY <1>5, <2>1
  <2> QED
    BY <1>2, <2>1, <2>2
<1>11. PICK longest \in Nat : /\ longest = s.longest
                              /\ \A day \in active : ~ (day .. day + longest \subseteq active)
  BY <1>6, LongestIsFound
<1>12. m <= longest
  <2>1. SUFFICES ASSUME ~ m <= longest PROVE FALSE
    OBVIOUS
  <2>2. today - m + 1 \in today - m + 1 .. today
    BY <1>9, <2>1
  <2>3. \A x \in today - m + 1 .. today - m + 1 + longest : x \in today - m + 1 .. today
    BY <1>9, <2>1
  <2>4. today - m + 1 .. today - m + 1 + longest \subseteq active
    BY <1>10, <2>3
  <2> QED
    BY <1>10, <1>11, <2>2, <2>4
<1>13. today - m + 1 + m - 1 = today /\ m \in Nat
  BY <1>9
<1>14. today - m + 1 .. today - m + 1 + m - 1 \subseteq active
  BY <1>10, <1>13
<1> QED
  BY <1>6, <1>8, <1>9, <1>11, <1>12, <1>13, <1>14

-----------------------------------------------------------------------------
\* What is recorded of the reading of a document.
IsReading(e) ==
  /\ e.day \in Int /\ e.from_page \in Int \cup {Unset} /\ e.to_page \in Int \cup {Unset}

\* Where the trail tells of pages read within the window.
Gained(events, today, window) ==
  {i \in DOMAIN events : /\ events[i].type = "position_advanced"
                         /\ events[i].from_page # Unset
                         /\ events[i].to_page # Unset
                         /\ events[i].to_page > events[i].from_page
                         /\ today - events[i].day < window}

\* What the pages of each day come to.
ByDays(pages, gained, events) ==
  /\ DOMAIN pages = {events[i].day : i \in gained}
  /\ IsFiniteSet(DOMAIN pages) /\ DOMAIN pages \in SUBSET Int
  /\ SumFunction(pages) = SumFunction([i \in gained |-> events[i].to_page - events[i].from_page])

\* The pages are those of the days, and the days those of the events that count.
LEMMA PagesAddUp ==
  ASSUME Unset \notin Int, NEW X, NEW events \in Seq(X), \A i \in DOMAIN events : IsReading(events[i]),
         NEW today \in Int, NEW window \in Int, NEW gained, gained = Gained(events, today, window),
         NEW pages, pages = PagesByDay(InWindow(events, today, window))
  PROVE  ByDays(pages, gained, events)
<1>1. PICK t : t = InWindow(events, today, window)
  OBVIOUS
<1>2. PICK D : D = Recently(events, today, window)
  OBVIOUS
<1>3. PICK at : Windowed(t, events, at, D)
  <2>1. \A i \in DOMAIN events : events[i].day \in Int
    BY DEF IsReading
  <2> QED
    BY <1>1, <1>2, <2>1, WindowIsRecent
<1>4. PICK counted : counted = Counted(t)
  OBVIOUS
<1>5. /\ at \in [DOMAIN t -> D] /\ \A k \in DOMAIN t : t[k] = events[at[k]]
      /\ \A x \in D : x \in DOMAIN events
      /\ \A x \in D : \E k \in DOMAIN t : at[k] = x
  BY <1>3 DEF Windowed
<1>6. ASSUME NEW e, IsReading(e), e.from_page # Unset, e.to_page # Unset
      PROVE  Gain(e) \in Int /\ Gain(e) = e.to_page - e.from_page /\ (Gain(e) > 0 <=> e.to_page > e.from_page)
  <2>1. PICK from \in Int, to \in Int : from = e.from_page /\ to = e.to_page
    BY <1>6 DEF IsReading
  <2>2. to - from \in Int /\ (to - from > 0 <=> to > from)
    OBVIOUS
  <2> QED
    BY <2>1, <2>2 DEF Gain
<1>7. \A k \in DOMAIN t : k \in counted <=> at[k] \in gained
  <2> TAKE k \in DOMAIN t
  <2>1. PICK e : e = t[k]
    OBVIOUS
  <2>2. e = events[at[k]] /\ at[k] \in D /\ at[k] \in DOMAIN events /\ IsReading(e)
    BY <1>5, <2>1
  <2>3. today - events[at[k]].day < window
    BY <1>2, <2>2 DEF Recently
  <2>4. k \in counted <=> /\ e.type = "position_advanced" /\ e.from_page # Unset
                          /\ e.to_page # Unset /\ Gain(e) > 0
    BY <1>4, <2>1 DEF Counted
  <2>5. at[k] \in gained <=> /\ e.type = "position_advanced" /\ e.from_page # Unset
                             /\ e.to_page # Unset /\ e.to_page > e.from_page
    BY <2>2, <2>3 DEF Gained
  <2> QED
    BY <1>6, <2>2, <2>4, <2>5
<1>8. /\ counted \in SUBSET DOMAIN t /\ gained \in SUBSET D
      /\ \A k \in counted : /\ IsReading(t[k]) /\ t[k].from_page # Unset /\ t[k].to_page # Unset
                            /\ t[k] = events[at[k]]
  <2>1. counted \in SUBSET DOMAIN t /\ gained \in SUBSET D
    BY <1>2, <1>4 DEF Counted, Gained, Recently
  <2>2. \A k \in counted : t[k].from_page # Unset /\ t[k].to_page # Unset
    BY <1>4 DEF Counted
  <2> QED
    BY <1>5, <2>1, <2>2
<1>9. /\ IsFiniteSet(counted) /\ IsFiniteSet(gained)
      /\ Pairs([k \in counted |-> at[k]], counted, gained)
  <2>1. SamePart(counted, gained, DOMAIN t, at)
    BY <1>7 DEF SamePart
  <2>2. counted \in SUBSET DOMAIN t /\ gained \in SUBSET D
    BY <1>8
  <2> QED
    BY ONLY <1>3, <2>1, <2>2, WindowedPart
<1>10. PICK b : b = [k \in counted |-> at[k]]
  OBVIOUS
<1>11. /\ b \in [counted -> gained] /\ \A x, y \in counted : b[x] = b[y] => x = y
       /\ \A y \in gained : \E x \in counted : b[x] = y
       /\ \A x \in counted : t[x] = events[b[x]]
  BY <1>8, <1>9, <1>10 DEF Pairs
<1>12. PICK Days : Days = {t[i].day : i \in counted}
  OBVIOUS
<1>13. Days = {events[i].day : i \in gained}
  <2>1. \A i \in counted : t[i].day \in {events[j].day : j \in gained}
    BY <1>11
  <2>2. \A j \in gained : \E i \in counted : t[i].day = events[j].day
    BY <1>11
  <2> QED
    BY <1>12, <2>1, <2>2
<1>14. PICK gain : gain = [i \in counted |-> Gain(t[i])]
  OBVIOUS
<1>15. PICK k : k = [i \in counted |-> t[i].day]
  OBVIOUS
<1>16. gain \in [counted -> Int] /\ k \in [counted -> Days] /\ Days \in SUBSET Int
  <2>1. \A i \in counted : Gain(t[i]) \in Int
    BY <1>6, <1>8
  <2>2. \A i \in counted : t[i].day \in Int
    BY <1>8 DEF IsReading
  <2> QED
    BY <1>12, <1>14, <1>15, <2>1, <2>2
<1>17. IsFiniteSet(Days)
  <2>1. k \in Surjection(counted, Days)
    BY <1>12, <1>15, <1>16 DEF Surjection
  <2> QED
    BY <1>9, <2>1, FS_Surjection
<1>18. pages = [day \in Days |->
                  SumFunction([i \in {i \in counted : t[i].day = day} |-> Gain(t[i])])]
  BY <1>1, <1>4, <1>12 DEF PagesByDay
<1>19. ASSUME NEW day \in Days
       PROVE  /\ pages[day] \in Int
              /\ pages[day] = SumFunction([i \in {i \in counted : k[i] = day} |-> gain[i]])
  <2>1. PICK P : P = {i \in counted : k[i] = day}
    OBVIOUS
  <2>2. P = {i \in counted : t[i].day = day} /\ P \in SUBSET counted
    BY <1>15, <2>1
  <2>3. PICK some : some = [i \in P |-> gain[i]]
    OBVIOUS
  <2>4. some = [i \in P |-> Gain(t[i])]
    BY <1>14, <2>2, <2>3
  <2>5. pages[day] = SumFunction(some)
    BY <1>18, <2>2, <2>4
  <2>6. IsFiniteSet(P) /\ some \in [P -> Int]
    BY <1>9, <1>16, <2>2, <2>3, FS_Subset
  <2>7. SumFunction(some) \in Int
    <3>1. PICK u : Totals(u, some, P) /\ SumFunction(some) = u[P]
      BY <2>6, SumIsTotal
    <3> QED
      BY <3>1 DEF Totals
  <2> QED
    BY <2>1, <2>3, <2>5, <2>7
<1>20. pages \in [Days -> Int]
  BY <1>18, <1>19
<1>21. SumFunction(pages) = SumFunction(gain)
  <2>1. Groups(k, gain, counted, pages, Days)
    BY <1>16, <1>19, <1>20 DEF Groups
  <2> QED
    BY <1>9, <1>17, <2>1, SumOfGroups
<1>22. PICK gains : gains = [i \in gained |-> events[i].to_page - events[i].from_page]
  OBVIOUS
<1>23. SumFunction(gain) = SumFunction(gains)
  <2>1. \A x \in counted : gain[x] = gains[b[x]]
    <3> TAKE x \in counted
    <3>1. gain[x] = t[x].to_page - t[x].from_page
      BY <1>6, <1>8, <1>14
    <3> QED
      BY <1>11, <1>22, <3>1
  <2>2. gains \in [gained -> Int]
    <3>1. \A y \in gained : gains[y] \in Int
      BY <1>11, <1>16, <2>1
    <3> QED
      BY <1>22, <3>1
  <2>3. Carries(b, gain, counted, gains, gained)
    BY <1>11, <1>16, <2>1, <2>2 DEF Carries
  <2> QED
    BY <1>9, <2>3, SumCarried
<1>24. DOMAIN pages = Days
  BY <1>20
<1> QED
  BY <1>13, <1>16, <1>17, <1>21, <1>22, <1>23, <1>24 DEF ByDays

\* The analytics count every forward page of the window once, and its streaks are what they
\* are called (analytics_service.py:76-145).
THEOREM AnalyticsAddUp ==
  ASSUME Unset \notin Int, NEW X, NEW events \in Seq(X), \A i \in DOMAIN events : IsReading(events[i]),
         NEW today \in Int, NEW window \in Int
  PROVE  AnalyticsAreSound(events, today, window, Analytics(events, today, window))
<1>1. PICK pages : pages = PagesByDay(InWindow(events, today, window))
  OBVIOUS
<1>2. PICK gained : gained = Gained(events, today, window)
  OBVIOUS
<1>3. PICK active : active = DOMAIN pages
  OBVIOUS
<1>4. /\ active = {events[i].day : i \in gained}
      /\ IsFiniteSet(active) /\ active \in SUBSET Int
      /\ SumFunction(pages) = SumFunction([i \in gained |-> events[i].to_page - events[i].from_page])
  <2>1. ByDays(pages, gained, events)
    BY <1>1, <1>2, PagesAddUp
  <2> QED
    BY <1>3, <2>1 DEF ByDays
<1>5. PICK s : s = Streaks(active, today)
  OBVIOUS
<1>6. PICK a : a = Analytics(events, today, window)
  OBVIOUS
<1>7. a.pages_read = SumFunction(pages) /\ a.active_days = Cardinality(active) /\ a.streaks = s
  BY <1>1, <1>3, <1>5, <1>6 DEF Analytics
<1>8. PICK longest \in Nat :
        /\ longest = s.longest
        /\ active # {} => \E day \in active : day .. day + longest - 1 \subseteq active
        /\ \A day \in active : ~ (day .. day + longest \subseteq active)
  BY <1>4, <1>5, LongestIsFound
<1>9. PICK current \in Nat :
        /\ current = s.current /\ current <= s.longest
        /\ today - current + 1 .. today - current + 1 + current - 1 \subseteq active
        /\ today - current \notin active
  BY <1>4, <1>5, CurrentIsFound
<1>10. \A day \in active : ~ (day .. day + (longest + 1) - 1 \subseteq active)
  <2> TAKE day \in active
  <2>1. PICK e \in Int : e = day
    BY <1>4
  <2>2. e + (longest + 1) - 1 = e + longest
    OBVIOUS
  <2> QED
    BY <1>8, <2>1, <2>2
<1>11. AnalyticsAreSound(events, today, window, a)
  <2>1. a.pages_read = SumFunction([i \in gained |-> events[i].to_page - events[i].from_page])
    BY <1>4, <1>7
  <2>2. a.active_days = Cardinality(active)
    BY <1>7
  <2>3. active # {} => \E day \in active : day .. day + a.streaks.longest - 1 \subseteq active
    BY <1>7, <1>8
  <2>4. \A day \in active : ~ (day .. day + (a.streaks.longest + 1) - 1 \subseteq active)
    BY <1>7, <1>8, <1>10
  <2>5. /\ a.streaks.current <= a.streaks.longest
        /\ today - a.streaks.current + 1 .. today - a.streaks.current + 1 + a.streaks.current - 1
             \subseteq active
        /\ today - a.streaks.current \notin active
    BY <1>7, <1>9
  <2> QED
    BY <1>2, <1>4, <2>1, <2>2, <2>3, <2>4, <2>5 DEF AnalyticsAreSound, Gained
<1> QED
  BY <1>6, <1>11

-----------------------------------------------------------------------------
\* The three scores of a retrieval agree (scorers/retrieval.py:11-43).
THEOREM ScoresAlwaysAgree ==
  ASSUME NEW X, NEW retrieved \in Seq(X), NEW expected, IsFiniteSet(expected)
  PROVE  ScoresAgree(retrieved, expected) /\ HitRate(retrieved, expected) \in {0, 1}
<1>1. PICK n \in Nat : n = Len(retrieved) /\ DOMAIN retrieved = 1 .. n
  BY LenProperties
<1>2. PICK hits : hits = ToSet(retrieved) \cap expected
  OBVIOUS
<1>3. PICK ranks : ranks = {r \in DOMAIN retrieved : retrieved[r] \in expected}
  OBVIOUS
<1>4. hits = {retrieved[r] : r \in ranks} /\ ranks \in SUBSET (1 .. n)
  BY <1>1, <1>2, <1>3 DEF ToSet
<1>5. IsFiniteSet(hits) /\ Cardinality(hits) \in Nat /\ Cardinality(hits) <= Cardinality(expected)
  BY <1>2, FS_Subset, FS_CardinalityType
<1>6. Cardinality(hits) = 0 <=> hits = {}
  BY <1>5, FS_EmptySet
<1>7. PICK hit : hit = HitRate(retrieved, expected)
  OBVIOUS
<1>8. hit \in {0, 1} /\ (hit = 0 <=> hits = {})
  BY <1>2, <1>7 DEF HitRate
<1>9. PICK recall : recall = Recall(retrieved, expected)
  OBVIOUS
<1>10. PICK mrr : mrr = MeanReciprocalRank(retrieved, expected)
  OBVIOUS
<1>11. CASE hits = {}
  <2>1. ranks = {}
    BY <1>4, <1>11
  <2>2. mrr = <<0, 1>>
    BY <1>3, <1>10, <2>1 DEF MeanReciprocalRank
  <2>3. recall[1] = 0 /\ recall[1] <= recall[2]
    <3>1. CASE expected = {}
      BY <1>9, <3>1 DEF Recall
    <3>2. CASE expected # {}
      <4>1. recall = <<0, Cardinality(expected)>>
        BY <1>2, <1>6, <1>9, <1>11, <3>2 DEF Recall
      <4>2. Cardinality(expected) >= 0
        BY FS_CardinalityType
      <4> QED
        BY <4>1, <4>2
    <3> QED
      BY <3>1, <3>2
  <2>4. hit = 0 /\ mrr[1] = 0
    BY <1>8, <1>11, <2>2
  <2> QED
    BY <1>7, <1>8, <1>9, <1>10, <2>3, <2>4 DEF ScoresAgree
<1>12. CASE hits # {}
  <2>1. ranks # {} /\ expected # {}
    BY <1>2, <1>4, <1>12
  <2>2. PICK r \in ranks : \A s \in Nat : s < r => s \notin ranks
    <3>1. ranks \in SUBSET Nat
      BY <1>4
    <3> QED
      BY <2>1, <3>1, LeastNumber
  <2>3. r \in 1 .. n /\ \A s \in ranks : r <= s
    <3>1. \A s \in ranks : s \in Nat
      BY <1>4
    <3>2. r \in Nat /\ r \in 1 .. n
      BY <1>4
    <3> QED
      BY <2>2, <3>1, <3>2
  <2>4. (CHOOSE x \in ranks : \A s \in ranks : x <= s) = r
    <3>1. \A x \in ranks : (\A s \in ranks : x <= s) => x = r
      <4> TAKE x \in ranks
      <4>1. x \in Nat /\ r \in Nat
        BY <1>4
      <4> QED
        BY <2>3, <4>1
    <3> QED
      BY <2>3, <3>1
  <2>5. mrr = <<1, r>>
    BY <1>3, <1>10, <2>1, <2>4 DEF MeanReciprocalRank
  <2>6. recall = <<Cardinality(hits), Cardinality(expected)>>
    BY <1>2, <1>9, <2>1 DEF Recall
  <2>7. Cardinality(hits) + r - 1 <= n
    <3>1. IsFiniteSet(r .. n) /\ Cardinality(r .. n) = n - r + 1
      <4>1. r \in Int /\ n \in Int /\ ~ r > n
        BY <2>3
      <4> QED
        BY <4>1, FS_Interval
    <3>2. PICK f : f = [k \in ranks |-> retrieved[k]]
      OBVIOUS
    <3>3. ranks \in SUBSET (r .. n)
      <4>1. \A s \in ranks : s \in r .. n
        BY <1>4, <2>3
      <4> QED
        BY <4>1
    <3>4. IsFiniteSet(ranks) /\ Cardinality(ranks) <= n - r + 1 /\ Cardinality(ranks) \in Nat
      BY <3>1, <3>3, FS_Subset, FS_CardinalityType
    <3>5. f \in Surjection(ranks, hits)
      BY <1>4, <3>2 DEF Surjection
    <3>6. Cardinality(hits) <= Cardinality(ranks)
      BY <3>4, <3>5, FS_Surjection
    <3> QED
      BY <1>1, <1>5, <2>3, <3>4, <3>6
  <2>8. /\ recall[1] = Cardinality(hits) /\ recall[2] = Cardinality(expected)
        /\ mrr[1] = 1 /\ mrr[2] = r
    BY <2>5, <2>6
  <2>9. recall[1] # 0 /\ mrr[1] # 0 /\ hit # 0
    BY <1>6, <1>8, <1>12, <2>8
  <2> QED
    BY <1>1, <1>5, <1>7, <1>8, <1>9, <1>10, <2>7, <2>8, <2>9 DEF ScoresAgree
<1> QED
  BY <1>11, <1>12

\* A hit rate is at most one.
LEMMA HitsAreCases ==
  ASSUME NEW X, NEW cases \in Seq(X), \A i \in DOMAIN cases : cases[i].hit \in {0, 1}
  PROVE  LET rate == SummarizeCases(cases).hit_rate IN rate[1] <= rate[2]
<1>1. PICK n \in Nat : n = Len(cases) /\ DOMAIN cases = 1 .. n
  BY LenProperties
<1>2. PICK hits : hits = [i \in DOMAIN cases |-> cases[i].hit]
  OBVIOUS
<1>3. IsFiniteSet(1 .. n) /\ Cardinality(1 .. n) = n
  <2>1. IsFiniteSet(1 .. n) /\ Cardinality(1 .. n) = IF 1 > n THEN 0 ELSE n - 1 + 1
    BY FS_Interval
  <2> QED
    BY <2>1
<1>4. hits \in [1 .. n -> Int] /\ \A i \in 1 .. n : hits[i] \in {0, 1}
  BY <1>1, <1>2
<1>5. SumFunction(hits) <= n
  BY <1>3, <1>4, SumCounts
<1>6. PICK rate : rate = SummarizeCases(cases).hit_rate
  OBVIOUS
<1>7. rate = <<0, 1>> \/ rate = <<SumFunction(hits), n>>
  BY <1>1, <1>2, <1>6 DEF SummarizeCases
<1>8. rate[1] <= rate[2]
  BY <1>5, <1>7
<1> QED
  BY <1>6, <1>8

-----------------------------------------------------------------------------
\* How many words a note shares with the query.
SharedWords(query, notes) == [i \in DOMAIN notes |-> Cardinality(query \cap notes[i].words)]

\* Those that share one, from the most words down.
NotesByWords(others, query) ==
  LET Shared(i) == Cardinality(query \cap others[i].words)
  IN  Ranked(others, {i \in DOMAIN others : Shared(i) > 0},
        LAMBDA i, j : Shared(i) > Shared(j) \/ (Shared(i) = Shared(j) /\ i > j))

\* rest lists notes of others from the most words shared down: none without one, at most
\* limit, and another is left out only for want of room.
BestNotes(rest, others, score, limit) ==
  /\ Len(rest) <= limit
  /\ \A k \in 1 .. Len(rest) : \E i \in DOMAIN others : rest[k] = others[i] /\ score[i] > 0
  /\ \A i \in DOMAIN others :
       \/ score[i] = 0
       \/ \E k \in 1 .. Len(rest) : rest[k] = others[i]
       \/ /\ Len(rest) = limit
          /\ \A k \in 1 .. Len(rest) :
               \E j \in DOMAIN others : rest[k] = others[j] /\ score[j] >= score[i]

\* The first of the notes by the words they share are the best.
LEMMA BestNotesFirst ==
  ASSUME NEW X, NEW others \in Seq(X), NEW query, NEW limit \in Nat,
         NEW score \in [DOMAIN others -> Nat], score = SharedWords(query, others),
         NEW best, best = NotesByWords(others, query)
  PROVE  First(best, limit) \in Seq(X) /\ BestNotes(First(best, limit), others, score, limit)
<1> DEFINE Shared(i) == Cardinality(query \cap others[i].words)
           D == {i \in DOMAIN others : Shared(i) > 0}
           Before(i, j) == Shared(i) > Shared(j) \/ (Shared(i) = Shared(j) /\ i > j)
           at == Sorted(D, Before)
           major == [i \in D |-> 0 - score[i]]
           minor == [i \in D |-> 0 - i]
           ahead == ByKeys(D, major, minor)
<1>1. DOMAIN others = 1 .. Len(others) /\ Len(others) \in Nat /\ Len(others) \in Int
  BY LenProperties
<1>2. IsFiniteSet(D) /\ D \in SUBSET (1 .. Len(others))
  <2>1. 1 \in Int
    OBVIOUS
  <2>2. IsFiniteSet(1 .. Len(others))
    BY ONLY <1>1, <2>1, FS_Interval
  <2>3. D \in SUBSET (1 .. Len(others))
    BY <1>1
  <2> HIDE DEF D
  <2> QED
    BY <2>2, <2>3, FS_Subset
<1>3. best = [k \in DOMAIN at |-> others[at[k]]]
  BY DEF NotesByWords, Ranked
<1>0. \A i \in DOMAIN others : Shared(i) = score[i]
  BY DEF SharedWords
<1> HIDE DEF Shared
<1>4. \A i \in D : i \in Int /\ score[i] \in Nat /\ i \in DOMAIN others /\ score[i] > 0
  <2>1. \A i \in D : i \in 1 .. Len(others)
    BY <1>2
  <2>2. \A i \in D : i \in DOMAIN others /\ score[i] \in Nat /\ score[i] > 0
    BY <1>0
  <2> HIDE DEF D
  <2> QED
    BY <2>1, <2>2
<1>5. \A i \in DOMAIN others : i \in D <=> score[i] > 0
  BY <1>0
<1> HIDE DEF D
<1>6. StrictOrder(D, ahead)
  <2>1. major \in [D -> Int] /\ minor \in [D -> Int]
    BY <1>4
  <2>2. \A x, y \in D : major[x] = major[y] /\ minor[x] = minor[y] => x = y
    <3> SUFFICES ASSUME NEW x \in D, NEW y \in D, minor[x] = minor[y] PROVE x = y
      OBVIOUS
    <3>1. 0 - x = 0 - y /\ x \in Int /\ y \in Int
      BY <1>4
    <3> QED
      BY <3>1
  <2> HIDE DEF major, minor
  <2> QED
    BY <2>1, <2>2, KeysOrder
<1>7. \A x \in D : {y \in D : Before(y, x)} = ahead[x]
  <2>1. ASSUME NEW x \in D, NEW y \in D
        PROVE  Before(y, x) <=> \/ major[y] < major[x]
                                \/ major[y] = major[x] /\ minor[y] < minor[x]
    <3>1. x \in Int /\ y \in Int
      BY <1>4
    <3>2. PICK p \in Nat, q \in Nat : /\ p = score[x] /\ q = score[y]
                                     /\ p = Shared(x) /\ q = Shared(y)
      BY <1>0, <1>4
    <3>3. q > p \/ (q = p /\ y > x) <=> 0 - q < 0 - p \/ (0 - q = 0 - p /\ 0 - y < 0 - x)
      BY <3>1
    <3> QED
      BY <3>2, <3>3
  <2> HIDE DEF Before, major, minor
  <2> QED
    BY <2>1 DEF ByKeys
<1>8. at = [k \in 1 .. Cardinality(D) |->
              CHOOSE x \in D : Cardinality({y \in D : Before(y, x)}) = k - 1]
  BY DEF Sorted
<1>9. InOrder(D, ahead, at)
  <2> HIDE DEF ahead, at, Before
  <2>1. \A k \in 1 .. Cardinality(D) :
          \E x \in D : Cardinality({y \in D : Before(y, x)}) = k - 1
    <3> TAKE k \in 1 .. Cardinality(D)
    <3>1. PICK x \in D : Cardinality(ahead[x]) = k - 1
      BY <1>2, <1>6, RankIsTaken
    <3>2. Cardinality({y \in D : Before(y, x)}) = k - 1
      BY <1>7, <3>1
    <3> QED
      BY <3>2
  <2>2. at \in [1 .. Cardinality(D) -> D]
    BY <1>8, <2>1
  <2>3. \A k \in 1 .. Cardinality(D) : Cardinality(ahead[at[k]]) = k - 1
    BY <1>7, <1>8, <2>1
  <2>4. ByRank(D, ahead, at)
    BY <2>2, <2>3 DEF ByRank
  <2> QED
    BY <1>2, <1>6, <2>4, RanksInOrder
<1>10. PICK n \in Nat : n = Cardinality(D)
  BY <1>2, FS_CardinalityType
<1>11. PICK order : order = at
  OBVIOUS
<1>12. /\ order \in [1 .. n -> D]
       /\ \A x \in D : \E k \in 1 .. n : order[k] = x
  BY <1>9, <1>10, <1>11 DEF InOrder
<1>13. ASSUME NEW i \in 1 .. n, NEW j \in 1 .. n, i < j PROVE score[order[i]] >= score[order[j]]
  <2>1. order[i] \in ahead[order[j]] /\ order[i] \in D /\ order[j] \in D
    <3> HIDE DEF ahead, at
    <3> QED
      BY <1>9, <1>10, <1>11, <1>12, <1>13 DEF InOrder
  <2>2. PICK x \in D, y \in D : x = order[i] /\ y = order[j]
    BY <2>1
  <2>3. major[x] < major[y] \/ major[x] = major[y]
    BY <2>1, <2>2 DEF ByKeys
  <2>4. PICK p \in Nat, q \in Nat : p = score[x] /\ q = score[y]
    BY <1>4
  <2>5. 0 - p < 0 - q \/ 0 - p = 0 - q
    BY <2>3, <2>4
  <2>6. p >= q
    BY <2>5
  <2> QED
    BY <2>2, <2>4, <2>6
<1>14. best = [k \in 1 .. n |-> others[order[k]]]
  BY <1>3, <1>8, <1>10, <1>11
<1> HIDE DEF at, ahead
<1>15. best \in Seq(X) /\ Len(best) = n
  <2>1. \A x \in D : others[x] \in X
    BY <1>1, <1>4
  <2>2. best \in [1 .. n -> X]
    BY <1>12, <1>14, <2>1
  <2> QED
    BY <2>2, FunctionIsSeq
<1>16. PICK rest : rest = First(best, limit)
  OBVIOUS
<1>17. PICK l \in Nat : l = Len(rest) /\ l = IF limit < n THEN limit ELSE n
  BY <1>15, <1>16, FirstOf
<1>18. rest \in Seq(X) /\ \A k \in 1 .. l : rest[k] = best[k]
  BY <1>15, <1>16, <1>17, FirstOf
<1>19. \A k \in 1 .. l : k \in 1 .. n /\ rest[k] = others[order[k]] /\ order[k] \in D
  <2>1. \A k \in 1 .. l : k \in 1 .. n
    BY <1>17
  <2> QED
    BY <1>12, <1>14, <1>18, <2>1
<1>20. \A k \in 1 .. l : \E i \in DOMAIN others : rest[k] = others[i] /\ score[i] > 0
  BY <1>4, <1>19
<1>21. ASSUME NEW i \in DOMAIN others, score[i] # 0, ~ \E k \in 1 .. l : rest[k] = others[i]
       PROVE  /\ l = limit
              /\ \A k \in 1 .. l :
                   \E j \in DOMAIN others : rest[k] = others[j] /\ score[j] >= score[i]
  <2>1. i \in D
    <3>1. PICK p \in Nat : p = score[i]
      OBVIOUS
    <3>2. p > 0
      BY <1>21, <3>1
    <3> QED
      BY <1>5, <3>1, <3>2
  <2>2. PICK m \in 1 .. n : order[m] = i
    BY <1>12, <2>1
  <2>3. m \notin 1 .. l
    BY <1>19, <1>21, <2>2
  <2>4. l < m /\ l = limit
    BY <1>17, <2>3
  <2>5. ASSUME NEW k \in 1 .. l
        PROVE  \E j \in DOMAIN others : rest[k] = others[j] /\ score[j] >= score[i]
    <3>1. k < m /\ k \in 1 .. n
      BY <1>17, <2>4
    <3>2. score[order[k]] >= score[order[m]]
      BY <1>13, <3>1
    <3> QED
      BY <1>4, <1>19, <2>2, <3>2
  <2> QED
    BY <2>4, <2>5
<1>22. l <= limit
  BY <1>17
<1>23. BestNotes(rest, others, score, limit)
  BY <1>17, <1>20, <1>21, <1>22 DEF BestNotes
<1> QED
  BY <1>16, <1>18, <1>23

\* What is joined is taken apart again.
LEMMA JoinedApart ==
  ASSUME NEW X, NEW x \in Seq(X), NEW y \in Seq(X)
  PROVE  /\ SubSeq(x \o y, 1, Len(x)) = x
         /\ SubSeq(x \o y, Len(x) + 1, Len(x \o y)) = y
<1>1. PICK n \in Nat : n = Len(x)
  BY LenProperties
<1>2. n <= Len(x)
  BY <1>1
<1>3. /\ SubSeq(x \o y, 1, n) = SubSeq(x, 1, n)
      /\ SubSeq(x \o y, n + 1, Len(x \o y)) = SubSeq(x, n + 1, Len(x)) \o y
  BY ONLY x \in Seq(X), y \in Seq(X), <1>2, SliceOfJoined
<1>4. SubSeq(x, 1, Len(x)) = x
  BY SubSeqFull
<1>5. SubSeq(x, n + 1, n) = <<>>
  <2>1. n + 1 \in Int /\ n \in Int /\ n < n + 1
    OBVIOUS
  <2> QED
    BY ONLY <2>1, SubSeqEmpty
<1>6. <<>> \o y = y
  BY ConcatEmptySeq
<1> QED
  BY <1>1, <1>3, <1>4, <1>5, <1>6

\* The scratchpad recalls every plan and the best of the other notes
\* (scratchpad_service.py:135-168).
THEOREM BestIsRecalled ==
  ASSUME NEW X, NEW notes \in Seq(X), NEW query, NEW limit \in Nat,
         \A i \in DOMAIN notes : IsFiniteSet(query \cap notes[i].words)
  PROVE  RecallKeepsTheBest(notes, query, limit, RecallNotes(notes, query, limit))
<1>1. PICK n \in Nat : n = Len(notes) /\ DOMAIN notes = 1 .. n
  BY LenProperties
<1>2. PICK P : P = {i \in DOMAIN notes : notes[i].kind = "plan"}
  OBVIOUS
<1>3. PICK O : O = {i \in DOMAIN notes : notes[i].kind # "plan"}
  OBVIOUS
<1>4. P \in SUBSET (1 .. Len(notes)) /\ O \in SUBSET (1 .. Len(notes))
  BY <1>1, <1>2, <1>3
<1>5. PICK plans \in Seq(X) : plans = Plans(notes)
  <2>1. Plans(notes) = Keep(notes, P)
    BY <1>2 DEF Plans, Filter
  <2> QED
    BY <1>4, <2>1, KeepPicks
<1>6. PICK others \in Seq(X) : others = Keep(notes, O)
  BY <1>4, KeepPicks
<1>7. PICK at : /\ Picks(others, notes, at)
                /\ \A k \in 1 .. Len(others) : at[k] \in O
                /\ \A x \in O : \E k \in 1 .. Len(others) : at[k] = x
  BY <1>4, <1>6, KeepPicks
<1>8. DOMAIN others = 1 .. Len(others)
  BY LenProperties
<1>9. \A k \in DOMAIN others : others[k] = notes[at[k]] /\ at[k] \in DOMAIN notes
  BY <1>1, <1>7, <1>8 DEF Picks
<1>10. PICK score : score = SharedWords(query, others)
  OBVIOUS
<1>11. /\ score \in [DOMAIN others -> Nat]
       /\ \A k \in DOMAIN others : score[k] = Cardinality(query \cap others[k].words)
  <2>1. \A k \in DOMAIN others : Cardinality(query \cap others[k].words) \in Nat
    <3> TAKE k \in DOMAIN others
    <3>1. IsFiniteSet(query \cap others[k].words)
      BY <1>9
    <3> QED
      BY <3>1, FS_CardinalityType
  <2> QED
    BY <1>10, <2>1 DEF SharedWords
<1>12. PICK best : best = NotesByWords(others, query)
  OBVIOUS
<1>13. PICK rest \in Seq(X) : rest = First(best, limit) /\ BestNotes(rest, others, score, limit)
  BY <1>10, <1>11, <1>12, BestNotesFirst
<1>14. PICK found : found = RecallNotes(notes, query, limit)
  OBVIOUS
<1>15. found = plans \o rest
  <2>1. others = Filter(notes, LAMBDA m : m.kind # "plan")
    BY <1>3, <1>6 DEF Filter
  <2>2. RecallNotes(notes, query, limit)
          = Plans(notes) \o First(NotesByWords(others, query), limit)
    BY <2>1 DEF RecallNotes, NotesByWords
  <2> QED
    BY <1>5, <1>12, <1>13, <1>14, <2>2
<1>16. /\ SubSeq(found, 1, Len(plans)) = plans
       /\ SubSeq(found, Len(plans) + 1, Len(found)) = rest
  BY <1>15, JoinedApart
<1>17. DOMAIN rest = 1 .. Len(rest) /\ ToSet(rest) = {rest[k] : k \in 1 .. Len(rest)}
  BY LenProperties DEF ToSet
<1>18. \A k \in DOMAIN rest : Cardinality(query \cap rest[k].words) > 0
  <2> TAKE k \in DOMAIN rest
  <2>1. PICK i \in DOMAIN others : rest[k] = others[i] /\ score[i] > 0
    BY <1>13, <1>17 DEF BestNotes
  <2> QED
    BY <1>11, <2>1
<1>19. ASSUME NEW i \in DOMAIN notes, notes[i].kind # "plan",
              Cardinality(query \cap notes[i].words) # 0, notes[i] \notin ToSet(rest)
       PROVE  /\ Len(rest) = limit
              /\ \A k \in DOMAIN rest :
                   Cardinality(query \cap rest[k].words) >= Cardinality(query \cap notes[i].words)
  <2>1. i \in O
    BY <1>3, <1>19
  <2>2. PICK k \in DOMAIN others : at[k] = i
    BY <1>7, <1>8, <2>1
  <2>3. others[k] = notes[i] /\ score[k] = Cardinality(query \cap notes[i].words) /\ score[k] # 0
    BY <1>9, <1>11, <1>19, <2>2
  <2>4. ~ \E j \in 1 .. Len(rest) : rest[j] = others[k]
    BY <1>17, <1>19, <2>3
  <2>5. /\ Len(rest) = limit
        /\ \A m \in 1 .. Len(rest) :
             \E j \in DOMAIN others : rest[m] = others[j] /\ score[j] >= score[k]
    BY <1>13, <2>3, <2>4 DEF BestNotes
  <2>6. ASSUME NEW m \in DOMAIN rest
        PROVE  Cardinality(query \cap rest[m].words) >= Cardinality(query \cap notes[i].words)
    <3>1. PICK j \in DOMAIN others : rest[m] = others[j] /\ score[j] >= score[k]
      BY <1>17, <2>5
    <3> QED
      BY <1>11, <2>3, <3>1
  <2> QED
    BY <2>5, <2>6
<1>20. Len(rest) <= limit
  BY <1>13 DEF BestNotes
<1>21. RecallKeepsTheBest(notes, query, limit, found)
  BY <1>5, <1>16, <1>18, <1>19, <1>20 DEF RecallKeepsTheBest
<1> QED
  BY <1>14, <1>21

-----------------------------------------------------------------------------
(* Recording the use of the model and of tools.                            *)

\* it does not leave V from one place of 1 .. n to the next.
StaysIn(it, n, V) ==
  /\ it[{}] \in V
  /\ \A s \in SUBSET (1 .. n) : \A x \in s : x = LastOf(n)[s] /\ it[s \ {x}] \in V => it[s] \in V

\* It ends in V.
LEMMA FoldStays ==
  ASSUME NEW n \in Nat, NEW it, NEW V, StaysIn(it, n, V) PROVE it[1 .. n] \in V
<1> DEFINE T == {s \in SUBSET (1 .. n) : it[s] \notin V}
<1>1. SUFFICES ASSUME T # {} PROVE FALSE
  <2>1. 1 .. n \in SUBSET (1 .. n)
    OBVIOUS
  <2> QED
    BY <2>1
<1>2. PICK s \in T : \A x \in s : s \ {x} \notin T
  <2>1. IsFiniteSet(1 .. n) /\ T \in SUBSET (SUBSET (1 .. n))
    BY FS_Interval
  <2> HIDE DEF T
  <2> QED
    BY <1>1, <2>1, LeastSet
<1>3. s \in SUBSET (1 .. n) /\ it[s] \notin V
  OBVIOUS
<1>4. s # {}
  BY <1>3 DEF StaysIn
<1>5. PICK x \in s : x = LastOf(n)[s]
  BY <1>3, <1>4, LastIsIn
<1>6. it[s \ {x}] \in V
  BY <1>2, <1>3
<1> QED
  BY <1>3, <1>5, <1>6 DEF StaysIn

\* The events of calls of the model,
TokenEvents(calls) ==
  FoldLeft(LAMBDA u, c : RecordTokenUsage(u, c.prompt, c.completion, c.day), <<>>, calls)

\* and after them those of calls of tools.
ToolEvents(tokens, tools) ==
  FoldLeft(LAMBDA u, c : RecordToolCall(u, c.tool, c.day), tokens, tools)

\* Both are typed.
TokenEvent ==
  [type : {"token_usage"}, prompt : Nat, completion : Nat, tool : {Unset}, day : Int]

ToolEvent(tools) ==
  [type : {"tool_call"}, prompt : {Unset}, completion : {Unset},
   tool : {tools[i].tool : i \in DOMAIN tools}, day : Int]

\* calls tell their tokens and their day.
TellTokens(calls, n) ==
  /\ DOMAIN calls = 1 .. n
  /\ \A i \in 1 .. n : calls[i].prompt \in Nat /\ calls[i].completion \in Nat /\ calls[i].day \in Int

\* Calls of the model are recorded,
LEMMA TokensRecorded ==
  ASSUME NEW calls, NEW n \in Nat, TellTokens(calls, n)
  PROVE  TokenEvents(calls) \in Seq(TokenEvent)
<1> DEFINE D == DOMAIN calls
           V == Seq(TokenEvent)
           Record(u, c) == RecordTokenUsage(u, c.prompt, c.completion, c.day)
           Body(it) == [s \in SUBSET D |-> IF s = {} THEN <<>>
                          ELSE Record(it[s \ {Max(s)}], calls[Max(s)])]
           fold == CHOOSE it : it = Body(it)
<1>1. TokenEvents(calls) = fold[D]
  BY Zenon DEF TokenEvents, FoldLeft, MapThenFoldSet
<1>2. D = 1 .. n
  BY DEF TellTokens
<1> HIDE DEF D
<1>3. ASSUME NEW i \in 1 .. n, NEW v \in V PROVE Record(v, calls[i]) \in V
  <2>1. PICK p \in Nat, c \in Nat, d \in Int :
          p = calls[i].prompt /\ c = calls[i].completion /\ d = calls[i].day
    BY DEF TellTokens
  <2>2. [type |-> "token_usage", prompt |-> p, completion |-> c, tool |-> Unset, day |-> d]
          \in TokenEvent
    BY DEF TokenEvent
  <2>3. Append(v, [type |-> "token_usage", prompt |-> p, completion |-> c, tool |-> Unset, day |-> d])
          \in V
    BY <2>2, AppendProperties
  <2> QED
    BY <2>1, <2>3 DEF RecordTokenUsage
<1>4. PICK G : G = [i \in 1 .. n |-> [v \in V |-> Record(v, calls[i])]]
  OBVIOUS
<1>5. <<>> \in V
  BY EmptySeq
<1> HIDE DEF V, Record
<1>6. \A i \in 1 .. n : \A v \in V : G[i][v] = Record(v, calls[i]) /\ G[i][v] \in V
  BY <1>3, <1>4
<1>7. PICK it : Folds(it, 1 .. n, V, <<>>, LastOf(n), G)
  <2>1. IsFiniteSet(1 .. n)
    BY FS_Interval
  <2>2. \A s \in SUBSET (1 .. n) : s # {} => LastOf(n)[s] \in s
    BY LastIsIn
  <2> QED
    BY <1>5, <1>6, <2>1, <2>2, FoldExists
<1>8. it \in [SUBSET (1 .. n) -> V]
  BY <1>7 DEF Folds
<1>9. it = Body(it)
  <2>1. ASSUME NEW s \in SUBSET (1 .. n)
        PROVE  it[s] = IF s = {} THEN <<>> ELSE Record(it[s \ {Max(s)}], calls[Max(s)])
    <3>1. it[s] = IF s = {} THEN <<>> ELSE G[LastOf(n)[s]][it[s \ {LastOf(n)[s]}]]
      BY <1>7 DEF Folds
    <3>2. CASE s = {}
      BY <3>1, <3>2
    <3>3. CASE s # {}
      <4>1. PICK x \in s : x = Max(s) /\ LastOf(n)[s] = x
        BY <3>3, LastIsIn
      <4>2. x \in 1 .. n /\ s \ {x} \in SUBSET (1 .. n)
        OBVIOUS
      <4>3. it[s \ {x}] \in V
        BY <1>8, <4>2
      <4>4. it[s] = G[x][it[s \ {x}]]
        BY <3>1, <3>3, <4>1
      <4>5. G[x][it[s \ {x}]] = Record(it[s \ {x}], calls[x])
        BY <1>6, <4>2, <4>3
      <4> QED
        BY <3>3, <4>1, <4>4, <4>5
    <3> QED
      BY <3>2, <3>3
  <2> QED
    BY <1>2, <1>8, <2>1
<1>10. fold = Body(fold)
  BY <1>9
<1> HIDE DEF fold
<1>11. StaysIn(fold, n, V)
  <2>1. fold[{}] \in V
    BY <1>5, <1>10
  <2>2. ASSUME NEW s \in SUBSET (1 .. n), NEW x \in s, x = LastOf(n)[s], fold[s \ {x}] \in V
        PROVE  fold[s] \in V
    <3>1. s # {} /\ x = Max(s) /\ x \in 1 .. n /\ s \in SUBSET D
      BY <1>2, <2>2, LastIsIn
    <3>2. fold[s] = Record(fold[s \ {x}], calls[x])
      BY <1>10, <3>1
    <3> QED
      BY <1>3, <2>2, <3>1, <3>2
  <2> QED
    BY <2>1, <2>2 DEF StaysIn
<1>12. fold[1 .. n] \in V
  BY <1>11, FoldStays
<1> QED
  BY <1>1, <1>2, <1>12 DEF V

\* and calls of tools with them.
LEMMA ToolsRecorded ==
  ASSUME NEW tools, NEW n \in Nat, DOMAIN tools = 1 .. n, \A i \in 1 .. n : tools[i].day \in Int,
         NEW X, ToolEvent(tools) \subseteq X, NEW tokens \in Seq(X)
  PROVE  ToolEvents(tokens, tools) \in Seq(X)
<1> DEFINE D == DOMAIN tools
           V == Seq(X)
           Record(u, c) == RecordToolCall(u, c.tool, c.day)
           Body(it) == [s \in SUBSET D |-> IF s = {} THEN tokens
                          ELSE Record(it[s \ {Max(s)}], tools[Max(s)])]
           fold == CHOOSE it : it = Body(it)
<1>1. ToolEvents(tokens, tools) = fold[D]
  BY Zenon DEF ToolEvents, FoldLeft, MapThenFoldSet
<1>2. D = 1 .. n
  OBVIOUS
<1> HIDE DEF D
<1>3. ASSUME NEW i \in 1 .. n, NEW v \in V PROVE Record(v, tools[i]) \in V
  <2>1. PICK d \in Int : d = tools[i].day
    OBVIOUS
  <2>2. PICK e : e = [type |-> "tool_call", prompt |-> Unset, completion |-> Unset,
                      tool |-> tools[i].tool, day |-> d]
    OBVIOUS
  <2>3. e \in X
    BY <2>2 DEF ToolEvent
  <2>4. Append(v, e) \in V
    BY <2>3, AppendProperties
  <2> QED
    BY <2>1, <2>2, <2>4 DEF RecordToolCall
<1>4. PICK G : G = [i \in 1 .. n |-> [v \in V |-> Record(v, tools[i])]]
  OBVIOUS
<1>5. tokens \in V
  OBVIOUS
<1> HIDE DEF V, Record
<1>6. \A i \in 1 .. n : \A v \in V : G[i][v] = Record(v, tools[i]) /\ G[i][v] \in V
  BY <1>3, <1>4
<1>7. PICK it : Folds(it, 1 .. n, V, tokens, LastOf(n), G)
  <2>1. IsFiniteSet(1 .. n)
    BY FS_Interval
  <2>2. \A s \in SUBSET (1 .. n) : s # {} => LastOf(n)[s] \in s
    BY LastIsIn
  <2> QED
    BY <1>5, <1>6, <2>1, <2>2, FoldExists
<1>8. it \in [SUBSET (1 .. n) -> V]
  BY <1>7 DEF Folds
<1>9. it = Body(it)
  <2>1. ASSUME NEW s \in SUBSET (1 .. n)
        PROVE  it[s] = IF s = {} THEN tokens ELSE Record(it[s \ {Max(s)}], tools[Max(s)])
    <3>1. it[s] = IF s = {} THEN tokens ELSE G[LastOf(n)[s]][it[s \ {LastOf(n)[s]}]]
      BY <1>7 DEF Folds
    <3>2. CASE s = {}
      BY <3>1, <3>2
    <3>3. CASE s # {}
      <4>1. PICK x \in s : x = Max(s) /\ LastOf(n)[s] = x
        BY <3>3, LastIsIn
      <4>2. x \in 1 .. n /\ s \ {x} \in SUBSET (1 .. n)
        OBVIOUS
      <4>3. it[s \ {x}] \in V
        BY <1>8, <4>2
      <4>4. it[s] = G[x][it[s \ {x}]]
        BY <3>1, <3>3, <4>1
      <4>5. G[x][it[s \ {x}]] = Record(it[s \ {x}], tools[x])
        BY <1>6, <4>2, <4>3
      <4> QED
        BY <3>3, <4>1, <4>4, <4>5
    <3> QED
      BY <3>2, <3>3
  <2> QED
    BY <1>2, <1>8, <2>1
<1>10. fold = Body(fold)
  BY <1>9
<1> HIDE DEF fold
<1>11. StaysIn(fold, n, V)
  <2>1. fold[{}] \in V
    BY <1>5, <1>10
  <2>2. ASSUME NEW s \in SUBSET (1 .. n), NEW x \in s, x = LastOf(n)[s], fold[s \ {x}] \in V
        PROVE  fold[s] \in V
    <3>1. s # {} /\ x = Max(s) /\ x \in 1 .. n /\ s \in SUBSET D
      BY <1>2, <2>2, LastIsIn
    <3>2. fold[s] = Record(fold[s \ {x}], tools[x])
      BY <1>10, <3>1
    <3> QED
      BY <1>3, <2>2, <3>1, <3>2
  <2> QED
    BY <2>1, <2>2 DEF StaysIn
<1>12. fold[1 .. n] \in V
  BY <1>11, FoldStays
<1> QED
  BY <1>1, <1>2, <1>12 DEF V

\* What is recorded is as the dashboards read it.
LEMMA TrailIsUsage ==
  ASSUME NEW calls, NEW n \in Nat, TellTokens(calls, n),
         NEW tools, NEW m \in Nat, DOMAIN tools = 1 .. m, \A i \in 1 .. m : tools[i].day \in Int
  PROVE  \E X : /\ ToolEvents(TokenEvents(calls), tools) \in Seq(X)
                /\ \A e \in X : IsUsage(e)
<1>1. PICK X : X = TokenEvent \cup ToolEvent(tools)
  OBVIOUS
<1>2. TokenEvents(calls) \in Seq(TokenEvent)
  BY TokensRecorded
<1>3. PICK tokens \in Seq(TokenEvent) : tokens = TokenEvents(calls)
  BY <1>2
<1>4. tokens \in Seq(X)
  BY <1>1
<1>5. ToolEvent(tools) \subseteq X
  BY <1>1
<1>6. ToolEvents(tokens, tools) \in Seq(X)
  BY <1>4, <1>5, ToolsRecorded
<1>7. \A e \in X : IsUsage(e)
  BY <1>1 DEF IsUsage, TokenEvent, ToolEvent
<1> QED
  BY <1>3, <1>6, <1>7

=============================================================================
