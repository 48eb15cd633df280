-------------------------- MODULE LanguageRunProofs --------------------------
(***************************************************************************)
(* What the parser accepts, what it refuses, and what is made of it, for   *)
(* every set of paths, every bodies and every limits.                      *)
(*                                                                         *)
(* The parser's stack is a walk through the uses of the verified path, and *)
(* the invariant says where in the unfolding that walk is: the statements  *)
(* met so far, followed by what is left of every path on the stack, are    *)
(* the unfolding (Walked).  That an unfolding of N uses is enough, N the   *)
(* number of paths, is because no path is twice on the stack (Shape); that *)
(* a program is accepted only if its uses end, because every use that was  *)
(* expanded leads no further than the stack may grow (Explored).           *)
(*                                                                         *)
(* FlattenSeq, Chains and Unfold are recursive functions: their equations  *)
(* come first, by induction over the natural numbers, which is taken from  *)
(* the well-foundedness of finite sets.                                    *)
(*                                                                         *)
(* And what is executed, for every accepted program, any number of shots   *)
(* and whatever is drawn.  A shot under way is a play from the ground      *)
(* state with what was drawn so far, whatever is drawn from here on; the   *)
(* state prepared once is that of a play of its first gates (UnderWay);    *)
(* and what is counted are the completed plays (PastInv).  The report and  *)
(* the verdicts of verify follow from this invariant, RunInv, alone.       *)
(***************************************************************************)
EXTENDS LanguageRun, SequenceTheorems, FiniteSetTheorems, WellFoundedInduction, TLAPS

\* Every set of natural numbers that is not empty has a least one.
LEMMA LeastNumber ==
  ASSUME NEW P \in SUBSET Nat, P # {}
  PROVE  \E n \in P : \A m \in P : n <= m
<1> DEFINE Below == {0 .. n : n \in P}
<1>1. IsWellFoundedOn(StrictSubsetOrdering(Nat), FiniteSubsetsOf(Nat))
  BY FS_StrictSubsetOrderingWellFounded
<1>2. Below \subseteq FiniteSubsetsOf(Nat)
  <2>1. ASSUME NEW n \in P PROVE 0 .. n \in FiniteSubsetsOf(Nat)
    <3>1. IsFiniteSet(0 .. n)
      BY FS_Interval
    <3>2. 0 .. n \subseteq Nat
      OBVIOUS
    <3>3. QED
      BY <3>1, <3>2 DEF FiniteSubsetsOf
  <2>2. QED
    BY <2>1
<1>3. Below # {}
  OBVIOUS
<1> HIDE DEF Below
<1>4. PICK x \in Below : \A y \in Below : <<y, x>> \notin StrictSubsetOrdering(Nat)
  BY <1>1, <1>2, <1>3, WFMin
<1> USE DEF Below
<1>5. PICK n \in P : x = 0 .. n
  BY <1>4
<1>6. ASSUME NEW m \in P PROVE n <= m
  <2>1. SUFFICES ASSUME m < n PROVE FALSE
    OBVIOUS
  <2>2. 0 .. m \in SUBSET Nat /\ 0 .. n \in SUBSET Nat /\ 0 .. m \subseteq 0 .. n /\ 0 .. m # 0 .. n
    <3>1. n \in 0 .. n /\ n \notin 0 .. m
      BY <2>1
    <3>2. QED
      BY <2>1, <3>1
  <2>3. <<0 .. m, 0 .. n>> \in StrictSubsetOrdering(Nat)
    BY <2>2 DEF StrictSubsetOrdering
  <2>4. QED
    BY <1>4, <1>5, <2>3
<1>7. QED
  BY <1>6

\* Induction over the natural numbers, for a set in place of a predicate.
LEMMA Induction ==
  ASSUME NEW P, 0 \in P, \A n \in Nat : n \in P => n + 1 \in P
  PROVE  Nat \subseteq P
<1> DEFINE Q == Nat \ P
<1>1. SUFFICES ASSUME Q # {} PROVE FALSE
  OBVIOUS
<1> HIDE DEF Q
<1>2. Q \in SUBSET Nat
  BY DEF Q
<1>3. PICK n \in Q : \A m \in Q : n <= m
  BY <1>1, <1>2, LeastNumber
<1>4. n \in Nat /\ n # 0 /\ n \notin P
  BY <1>3 DEF Q
<1>5. n - 1 \in Nat /\ n - 1 \notin Q
  BY <1>3, <1>4, <1>2
<1>6. QED
  BY <1>4, <1>5 DEF Q

-----------------------------------------------------------------------------
\* FlattenSeq, by the sequences flattened so far.
LEMMA FlattenRuns ==
  ASSUME NEW S, NEW seqs \in Seq(Seq(S))
  PROVE  \E f \in [0 .. Len(seqs) -> Seq(S)] :
           /\ f[0] = <<>> /\ \A i \in 1 .. Len(seqs) : f[i] = f[i - 1] \o seqs[i]
           /\ f[Len(seqs)] = FlattenSeq(seqs)
<1> DEFINE n == Len(seqs)
<1>1. n \in Nat /\ \A i \in 1 .. n : seqs[i] \in Seq(S)
  OBVIOUS
<1>2. CASE n = 0
  <2>1. seqs = <<>> /\ FlattenSeq(seqs) = seqs
    BY <1>2 DEF FlattenSeq
  <2> DEFINE f == [i \in 0 .. n |-> <<>>]
  <2>2. f \in [0 .. n -> Seq(S)] /\ f[0] = <<>> /\ f[n] = <<>>
    BY <1>2
  <2> HIDE DEF f
  <2>3. 1 .. n = {}
    BY <1>2
  <2>4. QED
    BY <1>2, <2>1, <2>2, <2>3
<1>3. CASE n # 0
  <2> DEFINE Body(f, i) == IF i = 1 THEN seqs[i] ELSE f[i - 1] \o seqs[i]
             P == {m \in Nat : \E f : f = [i \in 1 .. m |-> Body(f, i)]}
             flatten == CHOOSE f : f = [i \in 1 .. n |-> Body(f, i)]
  <2>1. 0 \in P
    <3> DEFINE f == [i \in 1 .. 0 |-> <<>>]
    <3>1. f = [i \in 1 .. 0 |-> Body(f, i)]
      OBVIOUS
    <3>2. QED
      BY <3>1
  <2>2. ASSUME NEW m \in Nat, m \in P PROVE m + 1 \in P
    <3>1. PICK f : f = [i \in 1 .. m |-> Body(f, i)]
      BY <2>2
    <3> HIDE DEF Body
    <3> DEFINE g == [i \in 1 .. m + 1 |-> IF i = m + 1 THEN Body(f, i) ELSE f[i]]
    <3>2. ASSUME NEW i \in 1 .. m + 1 PROVE g[i] = Body(g, i)
      <4>1. g[i] = Body(f, i)
        <5>1. CASE i = m + 1
          BY <5>1
        <5>2. CASE i # m + 1
          <6>1. i \in 1 .. m
            BY <5>2
          <6>2. QED
            BY <3>1, <5>2, <6>1
        <5>3. QED
          BY <5>1, <5>2
      <4>2. i # 1 => i - 1 \in 1 .. m + 1 /\ i - 1 # m + 1
        OBVIOUS
      <4>3. i # 1 => g[i - 1] = f[i - 1]
        BY <4>2
      <4>4. QED
        BY <4>1, <4>3 DEF Body
    <3>3. g = [i \in 1 .. m + 1 |-> g[i]]
      OBVIOUS
    <3> HIDE DEF g
    <3>4. g = [i \in 1 .. m + 1 |-> Body(g, i)]
      BY <3>2, <3>3
    <3>5. QED
      BY <3>4
  <2> HIDE DEF P
  <2>3. n \in P
    BY <1>1, <2>1, <2>2, Induction
  <2>4. flatten = [i \in 1 .. n |-> Body(flatten, i)]
    BY <2>3, Zenon DEF P
  <2>5. FlattenSeq(seqs) = flatten[n]
    BY <1>3, Zenon DEF FlattenSeq
  <2> HIDE DEF flatten
  <2> DEFINE T == {i \in Nat : i + 1 \in 1 .. n => flatten[i + 1] \in Seq(S)}
  <2>6. 0 \in T
    BY <1>1, <2>4
  <2>7. ASSUME NEW i \in Nat, i \in T PROVE i + 1 \in T
    <3>1. SUFFICES ASSUME i + 2 \in 1 .. n PROVE flatten[i + 2] \in Seq(S)
      OBVIOUS
    <3>2. flatten[i + 2] = flatten[i + 1] \o seqs[i + 2]
      <4>1. (i + 2) - 1 = i + 1 /\ i + 2 # 1
        OBVIOUS
      <4>2. flatten[i + 2] = Body(flatten, i + 2)
        <5> HIDE DEF Body
        <5>1. QED
          BY <2>4, <3>1
      <4>3. QED
        BY <4>1, <4>2
    <3>3. flatten[i + 1] \in Seq(S) /\ seqs[i + 2] \in Seq(S)
      BY <1>1, <2>7, <3>1
    <3>4. QED
      BY <3>2, <3>3
  <2>8. Nat \subseteq T
    <3> HIDE DEF T
    <3>1. QED
      BY <2>6, <2>7, Induction
  <2>9. ASSUME NEW i \in 1 .. n PROVE flatten[i] \in Seq(S)
    <3>1. i - 1 \in Nat /\ (i - 1) + 1 = i
      OBVIOUS
    <3>2. i - 1 \in T
      <4> HIDE DEF T
      <4>1. QED
        BY <2>8, <3>1
    <3>3. QED
      BY <3>1, <3>2
  <2> DEFINE f == [i \in 0 .. n |-> IF i = 0 THEN <<>> ELSE flatten[i]]
  <2>10. f \in [0 .. n -> Seq(S)] /\ f[0] = <<>> /\ f[n] = flatten[n]
    <3>1. n \in 0 .. n
      BY <1>1
    <3>2. QED
      BY <1>1, <1>3, <2>9, <3>1
  <2>11. ASSUME NEW i \in 1 .. n PROVE f[i] = f[i - 1] \o seqs[i]
    <3>1. CASE i = 1
      <4>1. f[i] = seqs[1] /\ f[i - 1] = <<>> /\ seqs[1] \in Seq(S)
        BY <1>1, <2>4, <3>1
      <4>2. <<>> \o seqs[1] = seqs[1]
        BY <4>1, ConcatEmptySeq
      <4> HIDE DEF f
      <4>3. QED
        BY <3>1, <4>1, <4>2
    <3>2. CASE i # 1
      <4>1. i - 1 \in 0 .. n /\ i \in 0 .. n /\ i # 0 /\ i - 1 # 0
        BY <3>2
      <4>2. QED
        BY <2>4, <3>2, <4>1
    <3>3. QED
      BY <3>1, <3>2
  <2> HIDE DEF f
  <2>12. QED
    BY <2>5, <2>10, <2>11
<1>4. QED
  BY <1>2, <1>3

\* ... and nothing else is flattened that way.
LEMMA FlattenUnique ==
  ASSUME NEW S, NEW seqs \in Seq(Seq(S)), NEW f, f[0] = <<>>,
         \A i \in 1 .. Len(seqs) : f[i] = f[i - 1] \o seqs[i]
  PROVE  f[Len(seqs)] = FlattenSeq(seqs) /\ FlattenSeq(seqs) \in Seq(S)
<1> DEFINE n == Len(seqs)
<1>1. n \in Nat
  OBVIOUS
<1>2. PICK g \in [0 .. n -> Seq(S)] :
        /\ g[0] = <<>> /\ \A i \in 1 .. n : g[i] = g[i - 1] \o seqs[i]
        /\ g[n] = FlattenSeq(seqs)
  BY FlattenRuns
<1> DEFINE P == {i \in Nat : i <= n => f[i] = g[i]}
<1>3. 0 \in P
  BY <1>2
<1>4. ASSUME NEW i \in Nat, i \in P PROVE i + 1 \in P
  <2>1. SUFFICES ASSUME i + 1 <= n PROVE f[i + 1] = g[i + 1]
    OBVIOUS
  <2>2. i + 1 \in 1 .. n /\ (i + 1) - 1 = i /\ i <= n
    BY <1>1, <2>1
  <2>3. f[i + 1] = f[i] \o seqs[i + 1] /\ g[i + 1] = g[i] \o seqs[i + 1]
    BY <1>2, <2>2
  <2>4. QED
    BY <1>4, <2>2, <2>3
<1>5. Nat \subseteq P
  <2> HIDE DEF P
  <2>1. QED
    BY <1>3, <1>4, Induction
<1>6. f[n] = g[n]
  BY <1>1, <1>5
<1>7. g[n] \in Seq(S)
  BY <1>1, <1>2
<1>8. QED
  BY <1>2, <1>6, <1>7

\* Two sequences of sequences are flattened one after the other.
LEMMA FlattenConcat ==
  ASSUME NEW S, NEW a \in Seq(Seq(S)), NEW b \in Seq(Seq(S))
  PROVE  FlattenSeq(a \o b) = FlattenSeq(a) \o FlattenSeq(b)
<1> DEFINE k == Len(a)
           n == Len(b)
<1>1. k \in Nat /\ n \in Nat /\ a \o b \in Seq(Seq(S)) /\ Len(a \o b) = k + n
  OBVIOUS
<1>0. /\ \A i \in 1 .. k : a[i] \in Seq(S)
      /\ \A i \in 1 .. n : b[i] \in Seq(S)
      /\ \A i \in 1 .. k + n : (a \o b)[i] = IF i <= k THEN a[i] ELSE b[i - k]
  OBVIOUS
<1>2. PICK fa \in [0 .. k -> Seq(S)] :
        /\ fa[0] = <<>> /\ \A i \in 1 .. k : fa[i] = fa[i - 1] \o a[i]
        /\ fa[k] = FlattenSeq(a)
  BY FlattenRuns
<1>3. PICK fb \in [0 .. n -> Seq(S)] :
        /\ fb[0] = <<>> /\ \A i \in 1 .. n : fb[i] = fb[i - 1] \o b[i]
        /\ fb[n] = FlattenSeq(b)
  BY FlattenRuns
<1> HIDE DEF k, n
<1> DEFINE f == [i \in 0 .. k + n |-> IF i <= k THEN fa[i] ELSE fa[k] \o fb[i - k]]
<1>4. f[0] = <<>>
  BY <1>1, <1>2
<1>5. ASSUME NEW i \in 1 .. k + n PROVE f[i] = f[i - 1] \o (a \o b)[i]
  <2>1. i - 1 \in 0 .. k + n /\ i \in 0 .. k + n
    BY <1>1
  <2>2. CASE i <= k
    <3>1. f[i] = fa[i] /\ f[i - 1] = fa[i - 1] /\ (a \o b)[i] = a[i] /\ i \in 1 .. k
      BY <1>0, <1>1, <2>1, <2>2
    <3>2. QED
      BY <1>2, <3>1
  <2>3. CASE i = k + 1
    <3>1. f[i] = fa[k] \o fb[1] /\ f[i - 1] = fa[k] /\ (a \o b)[i] = b[1] /\ 1 \in 1 .. n
      <4>1. ~(i <= k) /\ i - k = 1 /\ i - 1 = k /\ 1 \in 1 .. n /\ k <= k
        BY <1>1, <2>3
      <4>2. f[i] = fa[k] \o fb[1] /\ f[i - 1] = fa[k]
        BY <2>1, <4>1
      <4>3. (a \o b)[i] = b[1]
        BY <1>0, <4>1
      <4>4. QED
        BY <4>1, <4>2, <4>3
    <3>2. fb[1] = fb[0] \o b[1] /\ b[1] \in Seq(S)
      <4>1. 1 - 1 = 0
        OBVIOUS
      <4>2. QED
        BY <1>0, <1>3, <3>1, <4>1
    <3>3. fb[1] = b[1]
      BY <1>3, <3>2
    <3>4. QED
      BY <3>1, <3>3
  <2>4. CASE i > k + 1
    <3>0. ~(i <= k) /\ ~(i - 1 <= k)
      BY <1>1, <2>4
    <3>1. f[i] = fa[k] \o fb[i - k]
      BY <2>1, <3>0, Zenon
    <3>2. f[i - 1] = fa[k] \o fb[i - 1 - k]
      BY <2>1, <3>0, Zenon
    <3>3. (a \o b)[i] = b[i - k] /\ i - k \in 1 .. n /\ i - 1 - k \in 0 .. n /\ (i - k) - 1 = i - 1 - k
      <4>1. ~(i <= k) /\ i - k \in 1 .. n /\ i - 1 - k \in 0 .. n /\ (i - k) - 1 = i - 1 - k
        BY <1>1, <2>4
      <4>2. (a \o b)[i] = b[i - k]
        BY <1>0, <4>1
      <4>3. QED
        BY <4>1, <4>2
    <3>4. fb[i - k] = fb[i - 1 - k] \o b[i - k]
      BY <1>3, <3>3
    <3>5. k \in 0 .. k /\ fa[k] \in Seq(S)
      BY <1>1, <1>2
    <3>6. fb[i - 1 - k] \in Seq(S) /\ b[i - k] \in Seq(S)
      BY <1>0, <1>1, <1>3, <3>3
    <3>7. (fa[k] \o fb[i - 1 - k]) \o b[i - k] = fa[k] \o (fb[i - 1 - k] \o b[i - k])
      <4>1. ASSUME NEW x \in Seq(S), NEW y \in Seq(S), NEW z \in Seq(S)
            PROVE  (x \o y) \o z = x \o (y \o z)
        BY ConcatAssociative
      <4>2. QED
        BY <3>5, <3>6, <4>1
    <3>8. QED
      BY <3>1, <3>2, <3>3, <3>4, <3>7
  <2> HIDE DEF f
  <2>5. i <= k \/ i = k + 1 \/ i > k + 1
    BY <1>1
  <2>6. QED
    BY <2>2, <2>3, <2>4, <2>5
<1>6. f[k + n] = fa[k] \o fb[n]
  <2>1. k + n \in 0 .. k + n /\ fa[k] \in Seq(S) /\ fb[n] \in Seq(S)
    <3>1. k + n \in 0 .. k + n /\ k \in 0 .. k /\ n \in 0 .. n
      BY <1>1
    <3>2. fa[k] \in Seq(S)
      BY <1>2, <3>1
    <3>3. fb[n] \in Seq(S)
      BY <1>3, <3>1
    <3>4. QED
      BY <3>1, <3>2, <3>3
  <2>2. CASE n = 0
    BY <1>1, <1>3, <2>1, <2>2
  <2>3. CASE n # 0
    <3>1. ~(k + n <= k) /\ (k + n) - k = n
      BY <1>1, <2>3
    <3>2. QED
      BY <2>1, <3>1
  <2>4. QED
    BY <2>2, <2>3
<1> HIDE DEF f
<1> USE DEF k, n
<1>7. f[k + n] = FlattenSeq(a \o b)
  BY <1>1, <1>4, <1>5, FlattenUnique
<1>8. QED
  BY <1>2, <1>3, <1>6, <1>7

\* A single sequence is its own flattening.
LEMMA FlattenOne ==
  ASSUME NEW S, NEW s \in Seq(S)
  PROVE  FlattenSeq(<<s>>) = s /\ FlattenSeq(<<>>) = <<>>
<1> DEFINE f == [i \in 0 .. 1 |-> IF i = 0 THEN <<>> ELSE s]
<1>1. <<s>> \in Seq(Seq(S)) /\ Len(<<s>>) = 1 /\ <<s>>[1] = s
  OBVIOUS
<1>2. f[0] = <<>> /\ f[1] = s /\ <<>> \o s = s
  OBVIOUS
<1> HIDE DEF f
<1>3. \A i \in 1 .. 1 : f[i] = f[i - 1] \o <<s>>[i]
  BY <1>1, <1>2
<1>4. f[1] = FlattenSeq(<<s>>)
  BY <1>1, <1>2, <1>3, FlattenUnique
<1>5. FlattenSeq(<<>>) = <<>>
  BY DEF FlattenSeq
<1>6. QED
  BY <1>2, <1>4, <1>5

-----------------------------------------------------------------------------
\* How many paths there are: as deep as a walk without a repetition can go.
N == Cardinality(Paths)

\* There is a path, and there are finitely many.
LEMMA PathCount == N \in Nat \ {0}
<1>1. IsFiniteSet(Paths) /\ Paths # {}
  BY PathAssumption
<1>2. N \in Nat /\ N # 0
  BY <1>1, FS_CardinalityType, FS_EmptySet DEF N
<1>3. QED
  BY <1>2

-----------------------------------------------------------------------------
\* The definition of Chains, as the equations it stands for.
LEMMA ChainsEquations ==
  /\ Chains[0] = Paths
  /\ \A n \in 1 .. N : Chains[n] = {p \in Paths : Uses(p) \cap Chains[n - 1] # {}}
<1> DEFINE Body(f, n) == IF n = 0 THEN Paths ELSE {p \in Paths : Uses(p) \cap f[n - 1] # {}}
           P == {m \in Nat : \E f : f = [n \in 0 .. m |-> Body(f, n)]}
<1>1. 0 \in P
  <2> DEFINE f == [n \in 0 .. 0 |-> Paths]
  <2>1. f = [n \in 0 .. 0 |-> Body(f, n)]
    OBVIOUS
  <2>2. QED
    BY <2>1
<1>2. ASSUME NEW m \in Nat, m \in P PROVE m + 1 \in P
  <2>1. PICK f : f = [n \in 0 .. m |-> Body(f, n)]
    BY <1>2
  <2> HIDE DEF Body
  <2> DEFINE g == [n \in 0 .. m + 1 |-> IF n = m + 1 THEN Body(f, n) ELSE f[n]]
  <2>2. ASSUME NEW n \in 0 .. m + 1 PROVE g[n] = Body(g, n)
    <3>1. g[n] = Body(f, n)
      <4>1. CASE n = m + 1
        BY <4>1
      <4>2. CASE n # m + 1
        <5>1. n \in 0 .. m
          BY <4>2
        <5>2. QED
          BY <2>1, <4>2, <5>1
      <4>3. QED
        BY <4>1, <4>2
    <3>2. n # 0 => n - 1 \in 0 .. m + 1 /\ n - 1 # m + 1
      OBVIOUS
    <3>3. n # 0 => g[n - 1] = f[n - 1]
      BY <3>2
    <3>4. QED
      BY <3>1, <3>3 DEF Body
  <2>3. g = [n \in 0 .. m + 1 |-> g[n]]
    OBVIOUS
  <2> HIDE DEF g
  <2>4. g = [n \in 0 .. m + 1 |-> Body(g, n)]
    BY <2>2, <2>3
  <2>5. QED
    BY <2>4
<1> HIDE DEF P
<1>3. N \in P
  BY <1>1, <1>2, Induction, PathCount
<1>4. Chains = [n \in 0 .. N |-> Body(Chains, n)]
  BY <1>3, Zenon DEF P, Chains, N
<1>5. 0 \in 0 .. N /\ \A n \in 1 .. N : n \in 0 .. N /\ n # 0
  BY PathCount
<1>6. Chains[0] = Body(Chains, 0) /\ \A n \in 1 .. N : Chains[n] = Body(Chains, n)
  <2> HIDE DEF Body
  <2>1. QED
    BY <1>4, <1>5
<1>7. QED
  BY <1>5, <1>6

\* The longer the way that is left, the fewer paths one can go it from.
LEMMA ChainsShrink ==
  ASSUME NEW m \in 0 .. N, NEW n \in 0 .. N, m <= n
  PROVE  Chains[n] \subseteq Chains[m]
<1> DEFINE P == {k \in Nat : k + 1 <= N => Chains[k + 1] \subseteq Chains[k]}
           Q == {k \in Nat : m + k <= N => Chains[m + k] \subseteq Chains[m]}
<1>1. 0 \in P
  <2>1. 1 <= N => 1 \in 1 .. N
    BY PathCount
  <2>2. QED
    BY <2>1, ChainsEquations
<1>2. ASSUME NEW k \in Nat, k \in P PROVE k + 1 \in P
  <2>1. SUFFICES ASSUME k + 2 <= N PROVE Chains[k + 2] \subseteq Chains[k + 1]
    BY PathCount
  <2>2. k + 2 \in 1 .. N /\ k + 1 \in 1 .. N /\ (k + 2) - 1 = k + 1 /\ (k + 1) - 1 = k
    BY <2>1, PathCount
  <2>3. Chains[k + 1] \subseteq Chains[k]
    BY <1>2, <2>2
  <2>4. Chains[k + 2] = {p \in Paths : Uses(p) \cap Chains[k + 1] # {}}
    BY <2>2, ChainsEquations
  <2>5. Chains[k + 1] = {p \in Paths : Uses(p) \cap Chains[k] # {}}
    BY <2>2, ChainsEquations
  <2>6. QED
    BY <2>3, <2>4, <2>5
<1>3. Nat \subseteq P
  <2> HIDE DEF P
  <2>1. QED
    BY <1>1, <1>2, Induction
<1>4. 0 \in Q
  OBVIOUS
<1>5. ASSUME NEW k \in Nat, k \in Q PROVE k + 1 \in Q
  <2>1. SUFFICES ASSUME m + (k + 1) <= N PROVE Chains[m + (k + 1)] \subseteq Chains[m]
    OBVIOUS
  <2>2. m + k \in Nat /\ (m + k) + 1 = m + (k + 1) /\ (m + k) + 1 <= N /\ m + k <= N
    BY <2>1, PathCount
  <2>3. m + k \in P
    BY <1>3, <2>2
  <2>4. Chains[m + (k + 1)] \subseteq Chains[m + k]
    BY <2>2, <2>3
  <2>5. QED
    BY <1>5, <2>2, <2>4
<1>6. Nat \subseteq Q
  <2> HIDE DEF Q
  <2>1. QED
    BY <1>4, <1>5, Induction
<1>7. n - m \in Nat /\ m + (n - m) = n /\ n <= N
  BY PathCount
<1>8. n - m \in Q
  <2> HIDE DEF Q
  <2>1. QED
    BY <1>6, <1>7
<1>9. QED
  BY <1>7, <1>8

\* Where every path uses another, no way ends.
LEMMA EndlessChains ==
  ASSUME NEW O \in SUBSET Paths, \A p \in O : Uses(p) \cap O # {}
  PROVE  \A n \in 0 .. N : O \subseteq Chains[n]
<1> DEFINE P == {n \in Nat : n <= N => O \subseteq Chains[n]}
<1>1. 0 \in P
  BY ChainsEquations
<1>2. ASSUME NEW n \in Nat, n \in P PROVE n + 1 \in P
  <2>1. SUFFICES ASSUME n + 1 <= N PROVE O \subseteq Chains[n + 1]
    OBVIOUS
  <2>2. n + 1 \in 1 .. N /\ (n + 1) - 1 = n /\ n <= N
    BY <2>1, PathCount
  <2>3. O \subseteq Chains[n]
    BY <1>2, <2>2
  <2>4. Chains[n + 1] = {p \in Paths : Uses(p) \cap Chains[n] # {}}
    BY <2>2, ChainsEquations
  <2>5. QED
    BY <2>3, <2>4
<1>3. Nat \subseteq P
  <2> HIDE DEF P
  <2>1. QED
    BY <1>1, <1>2, Induction
<1>4. QED
  BY <1>3, PathCount

-----------------------------------------------------------------------------
\* The statements, by what tells them apart.
LEMMA StatementKinds ==
  /\ \A s \in Operations : s \in Statements /\ s.op \in OperationKinds
  /\ \A s \in Statements :
       /\ IsUse(s) => s.target \in Paths \cup {Unknown} /\ s = [op |-> "use", target |-> s.target]
       /\ ~IsUse(s) => s \in Operations \/ s.op = "invalid"
       /\ s.op \in OperationKinds => s \in Operations
<1>1. \A s \in Operations : s.op \in OperationKinds
  BY DEF Operations, OperationKinds
<1>2. \A s \in Operations : s \in Statements
  BY DEF Statements
<1>3. ASSUME NEW s \in Statements
      PROVE  \/ s \in Operations /\ s.op \in OperationKinds
             \/ s.op = "use" /\ s.target \in Paths \cup {Unknown} /\ s = [op |-> "use", target |-> s.target]
             \/ s.op = "invalid"
  <2>1. CASE s \in Operations
    BY <1>1, <2>1
  <2>2. CASE s \in [op : {"use"}, target : Paths \cup {Unknown}]
    BY <2>2
  <2>3. CASE s = Invalid
    BY <2>3 DEF Invalid
  <2>4. QED
    BY <2>1, <2>2, <2>3 DEF Statements
<1>4. "use" \notin OperationKinds /\ "invalid" \notin OperationKinds
  BY DEF OperationKinds
<1>5. QED
  BY <1>1, <1>2, <1>3, <1>4 DEF IsUse

-----------------------------------------------------------------------------
\* A statement, and what it stands for if it is a use.
StandsFor(s, meaning) ==
  <<s>> \o (IF IsUse(s) /\ s.target \in Paths THEN meaning[s.target] ELSE <<>>)

\* What the paths stand for.
Meanings == [Paths -> Seq(Statements)]

\* What a statement stands for is a sequence of statements.
LEMMA StandsForType ==
  ASSUME NEW s \in Statements, NEW meaning \in Meanings
  PROVE  StandsFor(s, meaning) \in Seq(Statements)
<1> DEFINE rest == IF IsUse(s) /\ s.target \in Paths THEN meaning[s.target] ELSE <<>>
<1>1. rest \in Seq(Statements)
  BY DEF Meanings
<1>2. <<s>> \in Seq(Statements)
  OBVIOUS
<1> HIDE DEF rest
<1>3. <<s>> \o rest \in Seq(Statements)
  BY <1>1, <1>2
<1>4. QED
  BY <1>3 DEF StandsFor, rest

\* The sequences g makes of the elements of c, one after the other.
Gathered(g, c) == FlattenSeq([i \in DOMAIN c |-> g[c[i]]])

\* What is gathered from two sequences is gathered from each in turn.
LEMMA GatheredConcat ==
  ASSUME NEW S, NEW T, NEW g \in [S -> Seq(T)], NEW a \in Seq(S), NEW b \in Seq(S)
  PROVE  /\ Gathered(g, a) \in Seq(T)
         /\ Gathered(g, a \o b) = Gathered(g, a) \o Gathered(g, b)
<1> DEFINE Of(c) == [i \in DOMAIN c |-> g[c[i]]]
<1>1. ASSUME NEW c \in Seq(S)
      PROVE  Of(c) \in Seq(Seq(T)) /\ Len(Of(c)) = Len(c)
  <2>1. DOMAIN c = 1 .. Len(c) /\ Len(c) \in Nat /\ \A i \in 1 .. Len(c) : c[i] \in S
    OBVIOUS
  <2>2. \A i \in 1 .. Len(c) : g[c[i]] \in Seq(T)
    BY <2>1
  <2>3. Of(c) \in [1 .. Len(c) -> Seq(T)]
    BY <2>1, <2>2
  <2>4. ASSUME NEW n \in Nat, NEW f \in [1 .. n -> Seq(T)]
        PROVE  f \in Seq(Seq(T)) /\ Len(f) = n
    OBVIOUS
  <2> HIDE DEF Of
  <2>5. QED
    BY <2>1, <2>3, <2>4
<1>2. a \o b \in Seq(S) /\ Len(a \o b) = Len(a) + Len(b) /\ Len(a) \in Nat /\ Len(b) \in Nat
  OBVIOUS
<1>3. \A i \in 1 .. Len(a) + Len(b) : (a \o b)[i] = IF i <= Len(a) THEN a[i] ELSE b[i - Len(a)]
  OBVIOUS
<1>4. DOMAIN a = 1 .. Len(a) /\ DOMAIN b = 1 .. Len(b) /\ DOMAIN (a \o b) = 1 .. Len(a) + Len(b)
  BY <1>2
<1>5. ASSUME NEW i \in 1 .. Len(a) + Len(b)
      PROVE  Of(a \o b)[i] = IF i <= Len(a) THEN Of(a)[i] ELSE Of(b)[i - Len(a)]
  <2>1. Of(a \o b)[i] = g[(a \o b)[i]]
    BY <1>4
  <2>2. CASE i <= Len(a)
    <3>1. i \in DOMAIN a /\ (a \o b)[i] = a[i]
      BY <1>2, <1>3, <1>4, <2>2
    <3>2. QED
      BY <2>1, <2>2, <3>1
  <2>3. CASE ~(i <= Len(a))
    <3>1. i - Len(a) \in DOMAIN b /\ (a \o b)[i] = b[i - Len(a)]
      BY <1>2, <1>3, <1>4, <2>3
    <3>2. QED
      BY <2>1, <2>3, <3>1
  <2>4. QED
    BY <2>2, <2>3
<1>6. /\ Of(a) \in Seq(Seq(T)) /\ Len(Of(a)) = Len(a)
      /\ Of(b) \in Seq(Seq(T)) /\ Len(Of(b)) = Len(b)
      /\ Of(a \o b) \in Seq(Seq(T)) /\ Len(Of(a \o b)) = Len(a) + Len(b)
  <2> HIDE DEF Of
  <2>1. QED
    BY <1>1, <1>2
<1>7. /\ Gathered(g, a) = FlattenSeq(Of(a)) /\ Gathered(g, b) = FlattenSeq(Of(b))
      /\ Gathered(g, a \o b) = FlattenSeq(Of(a \o b))
  BY Zenon DEF Gathered
<1> HIDE DEF Of
<1>8. /\ Of(a) \o Of(b) \in Seq(Seq(T))
      /\ Len(Of(a) \o Of(b)) = Len(a) + Len(b)
      /\ \A i \in 1 .. Len(a) + Len(b) :
           (Of(a) \o Of(b))[i] = IF i <= Len(a) THEN Of(a)[i] ELSE Of(b)[i - Len(a)]
  <2>1. ASSUME NEW x \in Seq(Seq(T)), NEW y \in Seq(Seq(T))
        PROVE  /\ x \o y \in Seq(Seq(T)) /\ Len(x \o y) = Len(x) + Len(y)
               /\ \A i \in 1 .. Len(x) + Len(y) :
                    (x \o y)[i] = IF i <= Len(x) THEN x[i] ELSE y[i - Len(x)]
    BY ConcatProperties
  <2>2. Of(a) \in Seq(Seq(T)) /\ Of(b) \in Seq(Seq(T))
    BY <1>6
  <2>3. /\ Of(a) \o Of(b) \in Seq(Seq(T)) /\ Len(Of(a) \o Of(b)) = Len(Of(a)) + Len(Of(b))
        /\ \A i \in 1 .. Len(Of(a)) + Len(Of(b)) :
             (Of(a) \o Of(b))[i] = IF i <= Len(Of(a)) THEN Of(a)[i] ELSE Of(b)[i - Len(Of(a))]
    BY <2>1, <2>2, Zenon
  <2>4. Len(Of(a)) = Len(a) /\ Len(Of(b)) = Len(b)
    BY <1>6
  <2>5. QED
    BY <2>3, <2>4, Zenon
<1>9. Of(a \o b) = Of(a) \o Of(b)
  BY <1>5, <1>6, <1>8, SeqEqual
<1>10. FlattenSeq(Of(a) \o Of(b)) = FlattenSeq(Of(a)) \o FlattenSeq(Of(b))
  BY <1>6, FlattenConcat
<1>11. FlattenSeq(Of(a)) \in Seq(T)
  <2>1. PICK f \in [0 .. Len(Of(a)) -> Seq(T)] : f[Len(Of(a))] = FlattenSeq(Of(a))
    BY <1>6, FlattenRuns
  <2>2. Len(Of(a)) \in 0 .. Len(Of(a))
    BY <1>2, <1>6
  <2>3. QED
    BY <2>1, <2>2
<1>12. QED
  BY <1>7, <1>9, <1>10, <1>11

\* ... and from a single element.
LEMMA GatheredOne ==
  ASSUME NEW S, NEW T, NEW g \in [S -> Seq(T)], NEW s \in S
  PROVE  Gathered(g, <<s>>) = g[s] /\ Gathered(g, <<>>) = <<>>
<1> DEFINE Of(c) == [i \in DOMAIN c |-> g[c[i]]]
<1>1. \A c : Gathered(g, c) = FlattenSeq(Of(c))
  BY Zenon DEF Gathered
<1>2. Of(<<s>>) = <<g[s]>>
  OBVIOUS
<1>3. Of(<<>>) = <<>>
  OBVIOUS
<1>4. FlattenSeq(<<g[s]>>) = g[s] /\ FlattenSeq(<<>>) = <<>>
  BY FlattenOne
<1> HIDE DEF Of
<1>5. QED
  BY <1>1, <1>2, <1>3, <1>4

\* A body is inlined statement by statement.
LEMMA InlinedConcat ==
  ASSUME NEW meaning \in Meanings
  PROVE  /\ \A a \in Seq(Statements) : Inlined(a, meaning) \in Seq(Statements)
         /\ \A a, b \in Seq(Statements) :
              Inlined(a \o b, meaning) = Inlined(a, meaning) \o Inlined(b, meaning)
         /\ \A s \in Statements : Inlined(<<s>>, meaning) = StandsFor(s, meaning)
         /\ Inlined(<<>>, meaning) = <<>>
<1> DEFINE g == [s \in Statements |-> StandsFor(s, meaning)]
<1>1. g \in [Statements -> Seq(Statements)]
  BY StandsForType
<1>2. ASSUME NEW c \in Seq(Statements)
      PROVE  Inlined(c, meaning) = Gathered(g, c)
  <2>1. \A i \in DOMAIN c : c[i] \in Statements
    OBVIOUS
  <2>2. [i \in DOMAIN c |-> StandsFor(c[i], meaning)] = [i \in DOMAIN c |-> g[c[i]]]
    BY <2>1
  <2>3. Inlined(c, meaning) = FlattenSeq([i \in DOMAIN c |-> StandsFor(c[i], meaning)])
    BY Zenon DEF Inlined, StandsFor
  <2>4. QED
    BY <2>2, <2>3, Zenon DEF Gathered
<1>3. \A s \in Statements : g[s] = StandsFor(s, meaning) /\ <<s>> \in Seq(Statements)
  OBVIOUS
<1>4. <<>> \in Seq(Statements) /\ \A a, b \in Seq(Statements) : a \o b \in Seq(Statements)
  OBVIOUS
<1>5. \E s \in Statements : TRUE
  BY DEF Statements
<1> HIDE DEF g
<1>6. /\ \A a \in Seq(Statements) : Gathered(g, a) \in Seq(Statements)
      /\ \A a, b \in Seq(Statements) : Gathered(g, a \o b) = Gathered(g, a) \o Gathered(g, b)
  <2> DEFINE T == Statements
  <2>1. g \in [Statements -> Seq(T)]
    BY <1>1
  <2> HIDE DEF T
  <2>2. /\ \A a \in Seq(Statements) : Gathered(g, a) \in Seq(T)
        /\ \A a, b \in Seq(Statements) : Gathered(g, a \o b) = Gathered(g, a) \o Gathered(g, b)
    BY <2>1, GatheredConcat
  <2>3. QED
    BY <2>2 DEF T
<1>7. /\ \A s \in Statements : Gathered(g, <<s>>) = g[s]
      /\ Gathered(g, <<>>) = <<>>
  BY <1>1, <1>5, GatheredOne
<1>8. QED
  BY <1>2, <1>3, <1>4, <1>6, <1>7

\* The operations of a sequence of statements, statement by statement.
LEMMA OperationsConcat ==
  /\ \A a \in Seq(Statements) : OperationsOf(a) \in Seq(Statements)
  /\ \A a, b \in Seq(Statements) : OperationsOf(a \o b) = OperationsOf(a) \o OperationsOf(b)
  /\ \A s \in Statements : OperationsOf(<<s>>) = IF IsUse(s) THEN <<>> ELSE <<s>>
  /\ OperationsOf(<<>>) = <<>>
<1> DEFINE g == [s \in Statements |-> IF IsUse(s) THEN <<>> ELSE <<s>>]
<1>1. g \in [Statements -> Seq(Statements)]
  OBVIOUS
<1>2. ASSUME NEW c \in Seq(Statements)
      PROVE  OperationsOf(c) = Gathered(g, c)
  <2>1. \A i \in DOMAIN c : c[i] \in Statements
    OBVIOUS
  <2>2. [i \in DOMAIN c |-> IF IsUse(c[i]) THEN <<>> ELSE <<c[i]>>] = [i \in DOMAIN c |-> g[c[i]]]
    BY <2>1
  <2>3. QED
    BY <2>2, Zenon DEF Gathered, OperationsOf
<1>3. \A s \in Statements : g[s] = (IF IsUse(s) THEN <<>> ELSE <<s>>) /\ <<s>> \in Seq(Statements)
  OBVIOUS
<1>4. <<>> \in Seq(Statements) /\ \A a, b \in Seq(Statements) : a \o b \in Seq(Statements)
  OBVIOUS
<1>5. \E s \in Statements : TRUE
  BY DEF Statements
<1> HIDE DEF g
<1>6. /\ \A a \in Seq(Statements) : Gathered(g, a) \in Seq(Statements)
      /\ \A a, b \in Seq(Statements) : Gathered(g, a \o b) = Gathered(g, a) \o Gathered(g, b)
  <2> DEFINE T == Statements
  <2>1. g \in [Statements -> Seq(T)]
    BY <1>1
  <2> HIDE DEF T
  <2>2. /\ \A a \in Seq(Statements) : Gathered(g, a) \in Seq(T)
        /\ \A a, b \in Seq(Statements) : Gathered(g, a \o b) = Gathered(g, a) \o Gathered(g, b)
    BY <2>1, GatheredConcat
  <2>3. QED
    BY <2>2 DEF T
<1>7. /\ \A s \in Statements : Gathered(g, <<s>>) = g[s]
      /\ Gathered(g, <<>>) = <<>>
  BY <1>1, <1>5, GatheredOne
<1>8. QED
  BY <1>2, <1>3, <1>4, <1>6, <1>7

\* What a use may name.
Names == Paths \cup {Unknown}

\* The uses of a sequence of statements, statement by statement.
LEMMA TargetsConcat ==
  /\ \A a \in Seq(Statements) : TargetsOf(a) \in Seq(Names)
  /\ \A a, b \in Seq(Statements) : TargetsOf(a \o b) = TargetsOf(a) \o TargetsOf(b)
  /\ \A s \in Statements : TargetsOf(<<s>>) = IF IsUse(s) THEN <<s.target>> ELSE <<>>
  /\ TargetsOf(<<>>) = <<>>
<1> DEFINE g == [s \in Statements |-> IF IsUse(s) THEN <<s.target>> ELSE <<>>]
<1>1. g \in [Statements -> Seq(Names)]
  <2>1. ASSUME NEW s \in Statements PROVE g[s] \in Seq(Names)
    <3>1. CASE IsUse(s)
      <4>1. s.target \in Names
        BY <3>1, StatementKinds DEF Names
      <4>2. QED
        BY <3>1, <4>1
    <3>2. CASE ~IsUse(s)
      BY <3>2
    <3>3. QED
      BY <3>1, <3>2
  <2>2. QED
    BY <2>1
<1>2. ASSUME NEW c \in Seq(Statements)
      PROVE  TargetsOf(c) = Gathered(g, c)
  <2>1. \A i \in DOMAIN c : c[i] \in Statements
    OBVIOUS
  <2>2. [i \in DOMAIN c |-> IF IsUse(c[i]) THEN <<c[i].target>> ELSE <<>>] = [i \in DOMAIN c |-> g[c[i]]]
    BY <2>1
  <2>3. QED
    BY <2>2, Zenon DEF Gathered, TargetsOf
<1>3. \A s \in Statements : /\ g[s] = IF IsUse(s) THEN <<s.target>> ELSE <<>>
                            /\ <<s>> \in Seq(Statements)
  OBVIOUS
<1>4. <<>> \in Seq(Statements) /\ \A a, b \in Seq(Statements) : a \o b \in Seq(Statements)
  OBVIOUS
<1>5. \E s \in Statements : TRUE
  BY DEF Statements
<1> HIDE DEF g
<1>6. /\ \A a \in Seq(Statements) : Gathered(g, a) \in Seq(Names)
      /\ \A a, b \in Seq(Statements) : Gathered(g, a \o b) = Gathered(g, a) \o Gathered(g, b)
  BY <1>1, GatheredConcat
<1>7. /\ \A s \in Statements : Gathered(g, <<s>>) = g[s]
      /\ Gathered(g, <<>>) = <<>>
  BY <1>1, <1>5, GatheredOne
<1>8. QED
  BY <1>2, <1>3, <1>4, <1>6, <1>7

\* What is left of a body, by its next statement.
LEMMA InlinedNext ==
  ASSUME NEW body \in Seq(Statements), NEW k \in 1 .. Len(body), NEW meaning \in Meanings
  PROVE  Inlined(SubSeq(body, k, Len(body)), meaning)
           = StandsFor(body[k], meaning) \o Inlined(SubSeq(body, k + 1, Len(body)), meaning)
<1>1. Len(body) \in k .. Len(body) /\ Len(body) \in Nat
  OBVIOUS
<1>2. SubSeq(body, k, Len(body)) = <<body[k]>> \o SubSeq(body, k + 1, Len(body))
  BY <1>1, SubSeqRecursiveFirst
<1>3. body[k] \in Statements /\ <<body[k]>> \in Seq(Statements)
  OBVIOUS
<1>4. SubSeq(body, k + 1, Len(body)) \in Seq(Statements)
  <2>1. k + 1 \in Int /\ Len(body) \in Int /\ \A i \in k + 1 .. Len(body) : body[i] \in Statements
    BY <1>1
  <2>2. QED
    BY <2>1, SubSeqProperties
<1>5. Inlined(<<body[k]>> \o SubSeq(body, k + 1, Len(body)), meaning)
        = Inlined(<<body[k]>>, meaning) \o Inlined(SubSeq(body, k + 1, Len(body)), meaning)
  BY <1>3, <1>4, InlinedConcat, Zenon
<1>6. QED
  BY <1>2, <1>3, <1>5, InlinedConcat

-----------------------------------------------------------------------------
\* The definition of Unfold, as the equations it stands for.
LEMMA UnfoldEquations ==
  ASSUME program \in [Paths -> Seq(Statements)]
  PROVE  /\ \A n \in 0 .. N : Unfold[n] \in Meanings
         /\ \A n \in 1 .. N : \A p \in Paths : Unfold[n][p] = Inlined(program[p], Unfold[n - 1])
<1> DEFINE Nothing == [q \in Paths |-> <<>>]
           Body(f, n) == [p \in Paths |-> Inlined(program[p], IF n = 0 THEN [q \in Paths |-> <<>>] ELSE f[n - 1])]
           P == {m \in Nat : \E f : f = [n \in 0 .. m |-> Body(f, n)]}
<1>1. 0 \in P
  <2> DEFINE f == [n \in 0 .. 0 |-> [p \in Paths |-> Inlined(program[p], Nothing)]]
  <2>1. f = [n \in 0 .. 0 |-> Body(f, n)]
    OBVIOUS
  <2>2. QED
    BY <2>1
<1>2. ASSUME NEW m \in Nat, m \in P PROVE m + 1 \in P
  <2>1. PICK f : f = [n \in 0 .. m |-> Body(f, n)]
    BY <1>2
  <2> HIDE DEF Body
  <2> DEFINE g == [n \in 0 .. m + 1 |-> IF n = m + 1 THEN Body(f, n) ELSE f[n]]
  <2>2. ASSUME NEW n \in 0 .. m + 1 PROVE g[n] = Body(g, n)
    <3>1. g[n] = Body(f, n)
      <4>1. CASE n = m + 1
        BY <4>1
      <4>2. CASE n # m + 1
        <5>1. n \in 0 .. m
          BY <4>2
        <5>2. QED
          BY <2>1, <4>2, <5>1
      <4>3. QED
        BY <4>1, <4>2
    <3>2. n # 0 => n - 1 \in 0 .. m + 1 /\ n - 1 # m + 1
      OBVIOUS
    <3>3. n # 0 => g[n - 1] = f[n - 1]
      BY <3>2
    <3>4. QED
      BY <3>1, <3>3 DEF Body
  <2>3. g = [n \in 0 .. m + 1 |-> g[n]]
    OBVIOUS
  <2> HIDE DEF g
  <2>4. g = [n \in 0 .. m + 1 |-> Body(g, n)]
    BY <2>2, <2>3
  <2>5. QED
    BY <2>4
<1> HIDE DEF P
<1>3. N \in P
  BY <1>1, <1>2, Induction, PathCount
<1>4. Unfold = [n \in 0 .. N |-> Body(Unfold, n)]
  BY <1>3, Zenon DEF P, Unfold, N
<1>5. 0 \in 0 .. N /\ \A n \in 1 .. N : n \in 0 .. N /\ n # 0
  BY PathCount
<1>6. \A n \in 0 .. N : Unfold[n] = Body(Unfold, n)
  <2> HIDE DEF Body
  <2>1. QED
    BY <1>4
<1>7. \A n \in 1 .. N : \A p \in Paths : Unfold[n][p] = Inlined(program[p], Unfold[n - 1])
  BY <1>5, <1>6
<1>8. Nothing \in Meanings /\ Unfold[0] = [p \in Paths |-> Inlined(program[p], Nothing)]
  BY <1>5, <1>6 DEF Meanings
<1>9. ASSUME NEW meaning \in Meanings
      PROVE  [p \in Paths |-> Inlined(program[p], meaning)] \in Meanings
  <2>1. \A p \in Paths : Inlined(program[p], meaning) \in Seq(Statements)
    BY InlinedConcat
  <2>2. QED
    BY <2>1 DEF Meanings
<1> DEFINE Q == {n \in Nat : n <= N => Unfold[n] \in Meanings}
<1>10. 0 \in Q
  <2> HIDE DEF Nothing
  <2>1. QED
    BY <1>8, <1>9
<1>11. ASSUME NEW n \in Nat, n \in Q PROVE n + 1 \in Q
  <2>1. SUFFICES ASSUME n + 1 <= N PROVE Unfold[n + 1] \in Meanings
    OBVIOUS
  <2>2. n + 1 \in 0 .. N /\ n + 1 # 0 /\ (n + 1) - 1 = n /\ n <= N
    BY <2>1, PathCount
  <2>3. Unfold[n + 1] = [p \in Paths |-> Inlined(program[p], Unfold[n])]
    BY <1>6, <2>2
  <2>4. QED
    BY <1>9, <1>11, <2>2, <2>3
<1>12. Nat \subseteq Q
  <2> HIDE DEF Q
  <2>1. QED
    BY <1>10, <1>11, Induction
<1>13. \A n \in 0 .. N : Unfold[n] \in Meanings
  BY <1>12
<1>14. QED
  BY <1>7, <1>13

-----------------------------------------------------------------------------
\* What is on the stack: a path and the next of its statements.
Frames == [path : Paths, at : Nat \ {0}]

\* The deepest a stack gets: every path on it is another, and the depth has its limit.
Deepest == IF limits.depth # Unbounded /\ limits.depth < N THEN limits.depth ELSE N

\* The body of a path on the stack.
Body(i) == program[stack[i].path]

\* The stack is a walk from the target along uses, without a repetition.
Shape ==
  /\ Len(stack) \in 1 .. Deepest
  /\ stack[1].path = Target
  /\ \A i \in 1 .. Len(stack) : stack[i].at <= Len(Body(i)) + 1
  /\ \A i, j \in 1 .. Len(stack) : stack[i].path = stack[j].path => i = j
  /\ \A i \in 1 .. Len(stack) - 1 :
       /\ stack[i].at >= 2 /\ IsUse(Body(i)[stack[i].at - 1])
       /\ Body(i)[stack[i].at - 1].target = stack[i + 1].path

\* What is left of the body of a path on the stack.
Left(i) == Inlined(SubSeq(Body(i), stack[i].at, Len(Body(i))), Unfold[N - i])

\* A statement the language allows where it stands.
Good(s) == IF IsUse(s) THEN s.target \in Paths ELSE s \in Operations

\* The statements met so far are those counted, and with what is left of every path on
\* the stack they make up the unfolding.
Walked ==
  \E met \in Seq(Statements), rest \in [0 .. Len(stack) -> Seq(Statements)] :
    /\ operations = OperationsOf(met) /\ used = TargetsOf(met) /\ visits = Len(met)
    /\ \A k \in 1 .. Len(met) : Good(met[k])
    /\ rest[0] = <<>>
    /\ \A i \in 1 .. Len(stack) : rest[i] = Left(i) \o rest[i - 1]
    /\ met \o rest[Len(stack)] = Visited

\* No use that has been expanded leads further than the stack may grow.
Explored ==
  \A i \in 1 .. Len(stack) : \A k \in 1 .. stack[i].at - 1 :
    /\ IsUse(Body(i)[k])
    /\ i = Len(stack) \/ k # stack[i].at - 1
    => Body(i)[k].target \notin Chains[Deepest - i]

\* No limit has been passed.
Budget ==
  /\ Within(visits, limits.visits) /\ Within(Len(used), limits.invocations)
  /\ Within(Len(operations), limits.operations)

\* The full measurement is noticed, and nothing follows it.
FullLast ==
  /\ fullMeasured <=> "full" \in Kinds(operations)
  /\ \A i \in 1 .. Len(operations) - 1 : operations[i].op # "full"

\* What holds of the parser in every state.
ParserInv == ParserTypeOK /\ Shape /\ Walked /\ Explored /\ Budget /\ FullLast

-----------------------------------------------------------------------------
\* The unfolding changes only with the program, and no step of the parser
\* changes it.
LEMMA SameProgram ==
  ASSUME program' = program, limits' = limits
  PROVE  Unfold' = Unfold /\ Chains' = Chains /\ Visited' = Visited /\ Deepest' = Deepest
<1>1. Unfold' = Unfold
  BY DEF Unfold
<1>2. Chains' = Chains
  BY DEF Chains, Uses
<1>3. Visited' = Visited
  BY <1>1 DEF Visited
<1>4. Deepest' = Deepest
  BY DEF Deepest
<1>5. QED
  BY <1>1, <1>2, <1>3, <1>4

\* The deepest a stack gets is at least one path and at most all of them.
LEMMA DeepestType ==
  ASSUME limits \in LimitChoices
  PROVE  /\ Deepest \in 1 .. N
         /\ limits.depth # Unbounded => limits.depth \in Nat \ {0} /\ Deepest <= limits.depth
         /\ limits.depth = Unbounded => Deepest = N
<1>1. limits.depth \in Bounds
  BY PathAssumption DEF Limits
<1>2. limits.depth = Unbounded \/ limits.depth \in Nat \ {0}
  BY <1>1 DEF Bounds
<1>3. QED
  BY <1>2, PathCount DEF Deepest

\* The statement that is up.
LEMMA TopFacts ==
  ASSUME ParserTypeOK, Shape
  PROVE  /\ Len(stack) \in Nat /\ Top = stack[Len(stack)] /\ Top \in Frames
         /\ \A i \in 1 .. Len(stack) : /\ stack[i] \in Frames /\ stack[i].path \in Paths
                                       /\ stack[i].at \in Nat \ {0}
                                       /\ Body(i) \in Seq(Statements) /\ Len(Body(i)) \in Nat
         /\ program[Top.path] = Body(Len(stack))
         /\ AtEnd => Top.at = Len(Body(Len(stack))) + 1
         /\ ~AtEnd => /\ Top.at \in 1 .. Len(Body(Len(stack)))
                      /\ Statement = Body(Len(stack))[Top.at] /\ Statement \in Statements
<1>1. stack \in Seq(Frames) /\ Len(stack) \in Nat /\ \A i \in 1 .. Len(stack) : stack[i] \in Frames
  <2>1. stack \in Seq(Frames)
    BY DEF ParserTypeOK, Frames
  <2>2. QED
    BY <2>1
<1>2. \A i \in 1 .. Len(stack) : stack[i].path \in Paths /\ stack[i].at \in Nat \ {0}
  BY <1>1 DEF Frames
<1>3. \A i \in 1 .. Len(stack) : Body(i) \in Seq(Statements) /\ Len(Body(i)) \in Nat
  BY <1>2 DEF ParserTypeOK, Body
<1>4. Len(stack) \in 1 .. Len(stack) /\ Top = stack[Len(stack)]
  BY <1>1 DEF Shape, Top, Last
<1>5. program[Top.path] = Body(Len(stack))
  BY <1>4 DEF Body
<1>6. Top.at <= Len(Body(Len(stack))) + 1
  BY <1>4 DEF Shape
<1>7. Top.at \in Nat \ {0} /\ Len(Body(Len(stack))) \in Nat
  BY <1>2, <1>3, <1>4
<1>8. AtEnd => Top.at = Len(Body(Len(stack))) + 1
  BY <1>5, <1>6, <1>7 DEF AtEnd
<1>9. ~AtEnd => Top.at \in 1 .. Len(Body(Len(stack)))
  BY <1>5, <1>7 DEF AtEnd
<1>10. ASSUME ~AtEnd PROVE Statement = Body(Len(stack))[Top.at] /\ Statement \in Statements
  <2>1. Statement = Body(Len(stack))[Top.at]
    BY <1>5 DEF Statement
  <2>2. Body(Len(stack)) \in Seq(Statements) /\ Top.at \in 1 .. Len(Body(Len(stack)))
    BY <1>3, <1>4, <1>9, <1>10
  <2>3. QED
    BY <2>1, <2>2
<1>11. QED
  BY <1>1, <1>2, <1>3, <1>4, <1>5, <1>8, <1>9, <1>10

\* The stack with its top a statement further.
LEMMA AdvancedFacts ==
  ASSUME ParserTypeOK, Shape
  PROVE  /\ Advanced \in Seq(Frames) /\ Len(Advanced) = Len(stack)
         /\ \A i \in 1 .. Len(stack) :
              /\ Advanced[i].path = stack[i].path
              /\ Advanced[i].at = IF i = Len(stack) THEN stack[i].at + 1 ELSE stack[i].at
<1>1. stack \in Seq(Frames) /\ Len(stack) \in Nat /\ Len(stack) \in 1 .. Len(stack)
  BY DEF ParserTypeOK, Frames, Shape
<1>2. \A i \in 1 .. Len(stack) : stack[i] \in Frames
  BY <1>1
<1> DEFINE new == [stack[Len(stack)] EXCEPT !.at = @ + 1]
<1>3. new \in Frames /\ new.path = stack[Len(stack)].path /\ new.at = stack[Len(stack)].at + 1
  BY <1>1, <1>2 DEF Frames
<1>4. Advanced = [stack EXCEPT ![Len(stack)] = new]
  BY DEF Advanced
<1> HIDE DEF new
<1>5. /\ Advanced \in Seq(Frames) /\ Len(Advanced) = Len(stack)
      /\ \A i \in 1 .. Len(stack) : Advanced[i] = IF i = Len(stack) THEN new ELSE stack[i]
  BY <1>1, <1>3, <1>4, ExceptSeq
<1>6. QED
  BY <1>3, <1>5

\* A stack whose paths are all different is not longer than there are paths.
LEMMA NotTooLong ==
  ASSUME NEW d \in Nat, NEW s \in [1 .. d -> Paths], \A i, j \in 1 .. d : s[i] = s[j] => i = j
  PROVE  d <= N
<1>1. s \in Injection(1 .. d, Paths)
  BY DEF Injection, IsInjective
<1>2. Cardinality(1 .. d) <= N
  BY <1>1, FS_Injection, PathAssumption DEF N
<1>3. Cardinality(1 .. d) = d
  BY FS_Interval
<1>4. QED
  BY <1>2, <1>3

-----------------------------------------------------------------------------
\* The stack one use deeper.
LEMMA UseStack ==
  ASSUME ParserTypeOK, Shape, ~AtEnd, Statement.op = "use", UseRefusal = "none",
         program' = program, limits' = limits,
         stack' = Append(Advanced, Frame(Statement.target, 1))
  PROVE  /\ Statement.target \in Paths
         /\ stack' \in Seq(Frames) /\ Len(stack') = Len(stack) + 1
         /\ \A i \in 1 .. Len(stack) :
              /\ stack'[i].path = stack[i].path
              /\ stack'[i].at = IF i = Len(stack) THEN stack[i].at + 1 ELSE stack[i].at
         /\ stack'[Len(stack) + 1] = Frame(Statement.target, 1)
<1> DEFINE d == Len(stack)
           t == Statement.target
<1>1. t \in Paths
  BY DEF UseRefusal
<1>2. d \in Nat /\ d >= 1
  BY TopFacts DEF Shape
<1>3. Frame(t, 1) \in Frames /\ Frame(t, 1).path = t /\ Frame(t, 1).at = 1
  BY <1>1 DEF Frame, Frames
<1>4. /\ Advanced \in Seq(Frames) /\ Len(Advanced) = d
      /\ \A i \in 1 .. d :
              /\ Advanced[i].path = stack[i].path
              /\ Advanced[i].at = IF i = d THEN stack[i].at + 1 ELSE stack[i].at
  BY AdvancedFacts
<1>5. /\ stack' \in Seq(Frames) /\ Len(stack') = d + 1
      /\ \A i \in 1 .. d : stack'[i] = Advanced[i]
      /\ stack'[d + 1] = Frame(t, 1)
  <2>1. /\ Append(Advanced, Frame(t, 1)) \in Seq(Frames)
        /\ Len(Append(Advanced, Frame(t, 1))) = Len(Advanced) + 1
        /\ \A i \in 1 .. Len(Advanced) : Append(Advanced, Frame(t, 1))[i] = Advanced[i]
        /\ Append(Advanced, Frame(t, 1))[Len(Advanced) + 1] = Frame(t, 1)
    BY <1>3, <1>4, AppendProperties
  <2>2. QED
    BY <1>4, <2>1
<1>6. \A i \in 1 .. d :
         /\ stack'[i].path = stack[i].path
         /\ stack'[i].at = IF i = d THEN stack[i].at + 1 ELSE stack[i].at
  BY <1>4, <1>5
<1>7. QED
  BY <1>1, <1>5, <1>6

\* A use that passes the checks keeps the shape of the stack: the target is not
\* on it yet, so it is no longer than there are paths.
LEMMA UseShape ==
  ASSUME ParserTypeOK, Shape, ~AtEnd, Statement.op = "use", UseRefusal = "none",
         program' = program, limits' = limits,
         stack' \in Seq(Frames), Len(stack') = Len(stack) + 1,
         \A i \in 1 .. Len(stack) :
           /\ stack'[i].path = stack[i].path
           /\ stack'[i].at = IF i = Len(stack) THEN stack[i].at + 1 ELSE stack[i].at,
         stack'[Len(stack) + 1] = Frame(Statement.target, 1)
  PROVE  Shape'
<1> DEFINE d == Len(stack)
           t == Statement.target
<1>1. /\ t \in Paths /\ t \notin Open
      /\ ~Exceeds(d + 1, limits.depth)
  BY DEF UseRefusal
<1>2. d \in Nat /\ d >= 1
  BY TopFacts DEF Shape
<1>3. Frame(t, 1) \in Frames /\ Frame(t, 1).path = t /\ Frame(t, 1).at = 1
  BY <1>1 DEF Frame, Frames
<1>5. stack' \in Seq(Frames) /\ Len(stack') = d + 1 /\ stack'[d + 1] = Frame(t, 1)
  OBVIOUS
<1>6. \A i \in 1 .. d :
         /\ stack'[i].path = stack[i].path
         /\ stack'[i].at = IF i = d THEN stack[i].at + 1 ELSE stack[i].at
  OBVIOUS
<1>7. Deepest' = Deepest
  BY SameProgram
<1>8. \A i, j \in 1 .. d + 1 : stack'[i].path = stack'[j].path => i = j
  <2>1. \A i \in 1 .. d : stack[i].path # t
    <3>1. DOMAIN stack = 1 .. d
      BY <1>2 DEF ParserTypeOK
    <3>2. QED
      BY <1>1, <3>1 DEF Open
  <2>2. \A i, j \in 1 .. d : stack[i].path = stack[j].path => i = j
    BY DEF Shape
  <2>3. \A i \in 1 .. d + 1 : i \in 1 .. d \/ i = d + 1
    BY <1>2
  <2>4. stack'[d + 1].path = t
    BY <1>3, <1>5
  <2> HIDE DEF d, t
  <2>5. QED
    BY <1>6, <2>1, <2>2, <2>3, <2>4
<1>9. d + 1 <= Deepest
  <2>1. d + 1 <= N
    <3> DEFINE s == [i \in 1 .. d + 1 |-> stack'[i].path]
    <3>1. \A i \in 1 .. d + 1 : stack'[i] \in Frames
      BY <1>5
    <3>2. s \in [1 .. d + 1 -> Paths]
      BY <3>1 DEF Frames
    <3>3. \A i, j \in 1 .. d + 1 : s[i] = s[j] => i = j
      BY <1>8
    <3>4. d + 1 \in Nat
      BY <1>2
    <3> HIDE DEF s, d
    <3>5. QED
      BY <3>2, <3>3, <3>4, NotTooLong
  <2>2. limits.depth # Unbounded => d + 1 <= limits.depth
    BY <1>1, <1>2, DeepestType DEF Exceeds, ParserTypeOK
  <2>3. QED
    BY <2>1, <2>2 DEF Deepest
<1>10. /\ 1 \in 1 .. d /\ d + 1 \in 1 .. Deepest
       /\ \A i \in 1 .. d + 1 : i \in 1 .. d \/ i = d + 1
       /\ d \in 1 .. d
  BY <1>2, <1>9
<1>11. \A i \in 1 .. d : program'[stack'[i].path] = Body(i)
  BY <1>6 DEF Body
<1>12. /\ Top = stack[d] /\ Top.at \in 1 .. Len(Body(d)) /\ Statement = Body(d)[Top.at]
       /\ \A i \in 1 .. d : stack[i].at \in Nat \ {0} /\ Len(Body(i)) \in Nat
  BY TopFacts
<1>13. stack'[1].path = Target
  BY <1>6, <1>10 DEF Shape
<1> HIDE DEF d, t
<1>14. ASSUME NEW i \in 1 .. d + 1
       PROVE  stack'[i].at <= Len(program'[stack'[i].path]) + 1
  <2>1. CASE i = d + 1
    <3>1. program[t] \in Seq(Statements)
      BY <1>1 DEF ParserTypeOK
    <3>2. Len(program[t]) \in Nat
      BY <3>1
    <3>3. stack'[i].at = 1 /\ stack'[i].path = t
      BY <1>3, <1>5, <2>1
    <3>4. QED
      BY <3>2, <3>3
  <2>2. CASE i \in 1 .. d /\ i # d
    BY <1>6, <1>11, <2>2 DEF Shape, d
  <2>3. CASE i = d
    <3>1. stack'[i].at = stack[d].at + 1
      BY <1>6, <1>10, <2>3
    <3>2. QED
      BY <1>11, <1>12, <2>3, <3>1, <1>10
  <2>4. QED
    BY <1>10, <2>1, <2>2, <2>3
<1>15. ASSUME NEW i \in 1 .. d
       PROVE  /\ stack'[i].at >= 2 /\ IsUse(Body(i)[stack'[i].at - 1])
              /\ Body(i)[stack'[i].at - 1].target = stack'[i + 1].path
  <2>1. CASE i # d
    <3>1. i \in 1 .. d - 1 /\ i + 1 \in 1 .. d
      BY <1>2, <2>1
    <3>2. stack'[i].at = stack[i].at /\ stack'[i + 1].path = stack[i + 1].path
      BY <1>6, <2>1, <3>1
    <3>3. QED
      BY <3>1, <3>2 DEF Shape, d
  <2>2. CASE i = d
    <3>1. stack'[d].at = stack[d].at + 1 /\ stack[d].at \in Nat \ {0}
      BY <1>6, <1>10, <1>12
    <3>2. stack'[d].at - 1 = Top.at /\ stack'[d].at >= 2
      BY <1>12, <3>1
    <3>3. stack'[d + 1].path = t
      BY <1>3, <1>5 DEF t
    <3>4. Body(d)[stack'[d].at - 1] = Statement
      BY <1>12, <3>2
    <3>5. QED
      BY <2>2, <3>2, <3>3, <3>4 DEF IsUse, t
  <2>3. QED
    BY <2>1, <2>2
<1>16. Shape'
  <2>1. Len(stack') - 1 = d
    BY <1>2, <1>5
  <2>2. \A i \in 1 .. d : Body(i)' = Body(i)
    BY <1>11 DEF Body
  <2>3. \A i \in 1 .. d + 1 : stack'[i].at <= Len(Body(i)') + 1
    BY <1>14 DEF Body
  <2>4. QED
    BY <1>5, <1>7, <1>8, <1>10, <1>13, <1>15, <2>1, <2>2, <2>3 DEF Shape
<1>17. QED
  BY <1>16

\* The same stack, a statement further.
LEMMA AppendStack ==
  ASSUME ParserTypeOK, Shape, ~AtEnd, program' = program, limits' = limits, stack' = Advanced
  PROVE  /\ stack' \in Seq(Frames) /\ Len(stack') = Len(stack)
         /\ \A i \in 1 .. Len(stack) :
              /\ stack'[i].path = stack[i].path
              /\ stack'[i].at = IF i = Len(stack) THEN stack[i].at + 1 ELSE stack[i].at
         /\ Shape'
<1> DEFINE d == Len(stack)
<1>1. /\ stack' \in Seq(Frames) /\ Len(stack') = d
      /\ \A i \in 1 .. d :
              /\ stack'[i].path = stack[i].path
              /\ stack'[i].at = IF i = d THEN stack[i].at + 1 ELSE stack[i].at
  BY AdvancedFacts
<1>2. d \in Nat /\ d >= 1 /\ d \in 1 .. d
  BY TopFacts DEF Shape
<1>3. /\ Top = stack[d] /\ Top.at \in 1 .. Len(Body(d))
      /\ \A i \in 1 .. d : stack[i].at \in Nat \ {0} /\ Len(Body(i)) \in Nat
  BY TopFacts
<1>4. Deepest' = Deepest
  BY SameProgram
<1>5. \A i \in 1 .. d : Body(i)' = Body(i)
  BY <1>1 DEF Body
<1>6. ASSUME NEW i \in 1 .. d PROVE stack'[i].at <= Len(Body(i)) + 1
  <2>1. CASE i = d
    BY <1>1, <1>3, <2>1
  <2>2. CASE i # d
    BY <1>1, <2>2 DEF Shape
  <2>3. QED
    BY <2>1, <2>2
<1>7. ASSUME NEW i \in 1 .. d - 1
      PROVE  stack'[i].at = stack[i].at /\ stack'[i + 1].path = stack[i + 1].path /\ i \in 1 .. d
  <2>1. i \in 1 .. d /\ i + 1 \in 1 .. d /\ i # d
    BY <1>2
  <2>2. QED
    BY <1>1, <2>1
<1>8. stack'[1].path = Target
  BY <1>1, <1>2 DEF Shape
<1>9. \A i, j \in 1 .. d : stack'[i].path = stack'[j].path => i = j
  BY <1>1 DEF Shape
<1>10. \A i \in 1 .. d - 1 :
         /\ stack'[i].at >= 2 /\ IsUse(Body(i)[stack'[i].at - 1])
         /\ Body(i)[stack'[i].at - 1].target = stack'[i + 1].path
  BY <1>7 DEF Shape
<1>11. d \in 1 .. Deepest
  BY DEF Shape
<1> HIDE DEF d
<1>12. Shape'
  <2>1. \A i \in 1 .. d : stack'[i].at <= Len(Body(i)') + 1
    BY <1>5, <1>6
  <2>2. \A i \in 1 .. d - 1 :
         /\ stack'[i].at >= 2 /\ IsUse(Body(i)'[stack'[i].at - 1])
         /\ Body(i)'[stack'[i].at - 1].target = stack'[i + 1].path
    BY <1>5, <1>7, <1>10
  <2>3. Len(stack') = d
    BY <1>1
  <2>4. QED
    BY <1>4, <1>8, <1>9, <1>11, <2>1, <2>2, <2>3 DEF Shape
<1>13. QED
  BY <1>1, <1>12 DEF d

\* Back to the path below.
LEMMA ReturnStack ==
  ASSUME ParserTypeOK, Shape, Len(stack) > 1, program' = program, limits' = limits,
         stack' = Front(stack)
  PROVE  /\ stack' \in Seq(Frames) /\ Len(stack') = Len(stack) - 1
         /\ \A i \in 1 .. Len(stack) - 1 : stack'[i] = stack[i]
         /\ Shape'
<1> DEFINE d == Len(stack)
<1>1. stack \in Seq(Frames) /\ d \in Nat /\ d > 1
  BY TopFacts DEF ParserTypeOK, Frames
<1>2. /\ stack' \in Seq(Frames) /\ Len(stack') = d - 1
      /\ \A i \in 1 .. d - 1 : stack'[i] = stack[i]
  <2>1. \A i \in 1 .. d - 1 : stack[i] \in Frames
    BY <1>1
  <2>2. 1 \in Int /\ d - 1 \in Int /\ 1 <= d - 1 /\ (d - 1) - 1 + 1 = d - 1
    BY <1>1
  <2>3. /\ SubSeq(stack, 1, d - 1) \in Seq(Frames)
        /\ Len(SubSeq(stack, 1, d - 1)) = (d - 1) - 1 + 1
        /\ \A i \in 1 .. (d - 1) - 1 + 1 : SubSeq(stack, 1, d - 1)[i] = stack[1 + i - 1]
    BY <2>1, <2>2, SubSeqProperties
  <2>4. \A i \in 1 .. d - 1 : 1 + i - 1 = i
    OBVIOUS
  <2>5. stack' = SubSeq(stack, 1, d - 1)
    BY DEF Front
  <2> HIDE DEF d
  <2>6. QED
    BY <2>2, <2>3, <2>4, <2>5
<1>3. Deepest' = Deepest
  BY SameProgram
<1>4. \A i \in 1 .. d - 1 : i \in 1 .. d /\ Body(i)' = Body(i)
  BY <1>1, <1>2 DEF Body
<1>5. 1 \in 1 .. d - 1 /\ d - 1 \in 1 .. Deepest
  BY <1>1, DeepestType DEF Shape, ParserTypeOK
<1>6. \A i \in 1 .. (d - 1) - 1 : i \in 1 .. d - 1 /\ i + 1 \in 1 .. d - 1
  BY <1>1
<1>7. /\ stack[1].path = Target
      /\ \A i \in 1 .. d : stack[i].at <= Len(Body(i)) + 1
      /\ \A i, j \in 1 .. d : stack[i].path = stack[j].path => i = j
      /\ \A i \in 1 .. d - 1 :
           /\ stack[i].at >= 2 /\ IsUse(Body(i)[stack[i].at - 1])
           /\ Body(i)[stack[i].at - 1].target = stack[i + 1].path
  BY DEF Shape
<1> HIDE DEF d
<1>8. Shape'
  <2>1. stack'[1].path = Target
    BY <1>2, <1>5, <1>7
  <2>2. \A i \in 1 .. d - 1 : stack'[i].at <= Len(Body(i)') + 1
    BY <1>2, <1>4, <1>7
  <2>3. \A i, j \in 1 .. d - 1 : stack'[i].path = stack'[j].path => i = j
    BY <1>2, <1>4, <1>7
  <2>4. \A i \in 1 .. (d - 1) - 1 :
         /\ stack'[i].at >= 2 /\ IsUse(Body(i)'[stack'[i].at - 1])
         /\ Body(i)'[stack'[i].at - 1].target = stack'[i + 1].path
    BY <1>2, <1>4, <1>6, <1>7
  <2>5. Len(stack') = d - 1
    BY <1>2
  <2>6. QED
    BY <1>3, <1>5, <2>1, <2>2, <2>3, <2>4, <2>5 DEF Shape
<1>9. QED
  BY <1>2, <1>8 DEF d

-----------------------------------------------------------------------------
\* What is left of the top path, by the statement that is up.
After == Inlined(SubSeq(Body(Len(stack)), Top.at + 1, Len(Body(Len(stack)))), Unfold[N - Len(stack)])

\* ... what is left is the statement that is up, what it stands for, and what
\* is after it.
LEMMA LeftOfTop ==
  ASSUME ParserTypeOK, Shape
  PROVE  /\ Unfold[N - Len(stack)] \in Meanings
         /\ ~AtEnd => /\ After \in Seq(Statements)
                      /\ Left(Len(stack)) = StandsFor(Statement, Unfold[N - Len(stack)]) \o After
         /\ AtEnd => Left(Len(stack)) = <<>>
<1> DEFINE d == Len(stack)
<1>1. /\ Top = stack[d] /\ d \in 1 .. d
      /\ Body(d) \in Seq(Statements) /\ Len(Body(d)) \in Nat
      /\ Top.at \in Nat \ {0}
      /\ AtEnd => Top.at = Len(Body(d)) + 1
      /\ ~AtEnd => /\ Top.at \in 1 .. Len(Body(d))
                   /\ Statement = Body(d)[Top.at] /\ Statement \in Statements
  BY TopFacts DEF Shape
<1>2. N - d \in 0 .. N
  <2>1. Deepest \in 1 .. N /\ N \in Nat /\ d \in 1 .. Deepest
    BY DeepestType, PathCount DEF Shape, ParserTypeOK
  <2>2. QED
    BY <2>1
<1>3. Unfold[N - d] \in Meanings
  BY <1>2, UnfoldEquations DEF ParserTypeOK
<1>4. Left(d) = Inlined(SubSeq(Body(d), Top.at, Len(Body(d))), Unfold[N - d])
  BY <1>1 DEF Left
<1> HIDE DEF d
<1>5. ASSUME ~AtEnd
      PROVE  /\ After \in Seq(Statements)
             /\ Left(d) = StandsFor(Statement, Unfold[N - d]) \o After
  <2>1. Inlined(SubSeq(Body(d), Top.at, Len(Body(d))), Unfold[N - d])
          = StandsFor(Statement, Unfold[N - d]) \o Inlined(SubSeq(Body(d), Top.at + 1, Len(Body(d))), Unfold[N - d])
    BY <1>1, <1>3, <1>5, InlinedNext
  <2>2. SubSeq(Body(d), Top.at + 1, Len(Body(d))) \in Seq(Statements)
    <3>1. \A i \in Top.at + 1 .. Len(Body(d)) : i \in 1 .. Len(Body(d))
      BY <1>1
    <3>2. \A i \in 1 .. Len(Body(d)) : Body(d)[i] \in Statements
      BY <1>1
    <3>3. Top.at + 1 \in Int /\ Len(Body(d)) \in Int
      BY <1>1
    <3>4. QED
      BY <3>1, <3>2, <3>3, SubSeqProperties
  <2>3. QED
    BY <1>3, <1>4, <2>1, <2>2, InlinedConcat DEF After, d
<1>6. ASSUME AtEnd PROVE Left(d) = <<>>
  <2>1. SubSeq(Body(d), Top.at, Len(Body(d))) = <<>>
    <3>1. Len(Body(d)) < Top.at /\ Top.at \in Int /\ Len(Body(d)) \in Int
      BY <1>1, <1>6
    <3>2. QED
      BY <3>1, SubSeqEmpty
  <2>2. QED
    BY <1>3, <1>4, <2>1, InlinedConcat
<1>7. QED
  BY <1>3, <1>5, <1>6 DEF d

\* What was met, one statement more.
LEMMA MetMore ==
  ASSUME NEW met \in Seq(Statements), NEW s \in Statements
  PROVE  /\ met \o <<s>> \in Seq(Statements) /\ Len(met \o <<s>>) = Len(met) + 1
         /\ OperationsOf(met \o <<s>>) = IF IsUse(s) THEN OperationsOf(met) ELSE Append(OperationsOf(met), s)
         /\ TargetsOf(met \o <<s>>) = IF IsUse(s) THEN Append(TargetsOf(met), s.target) ELSE TargetsOf(met)
         /\ (\A k \in 1 .. Len(met) : Good(met[k])) /\ Good(s)
              => \A k \in 1 .. Len(met) + 1 : Good((met \o <<s>>)[k])
<1>1. <<s>> \in Seq(Statements) /\ met \o <<s>> \in Seq(Statements) /\ Len(met \o <<s>>) = Len(met) + 1
  OBVIOUS
<1>2. /\ Len(met) \in Nat
      /\ \A k \in 1 .. Len(met) : (met \o <<s>>)[k] = met[k]
      /\ (met \o <<s>>)[Len(met) + 1] = s
  OBVIOUS
<1>3. \A k \in 1 .. Len(met) + 1 : k \in 1 .. Len(met) \/ k = Len(met) + 1
  BY <1>2
<1>4. (\A k \in 1 .. Len(met) : Good(met[k])) /\ Good(s)
              => \A k \in 1 .. Len(met) + 1 : Good((met \o <<s>>)[k])
  BY <1>2, <1>3
<1>5. OperationsOf(met) \in Seq(Statements) /\ TargetsOf(met) \in Seq(Names)
  BY OperationsConcat, TargetsConcat
<1>6. OperationsOf(met \o <<s>>) = OperationsOf(met) \o (IF IsUse(s) THEN <<>> ELSE <<s>>)
  BY <1>1, OperationsConcat
<1>7. TargetsOf(met \o <<s>>) = TargetsOf(met) \o (IF IsUse(s) THEN <<s.target>> ELSE <<>>)
  BY <1>1, TargetsConcat
<1>8. OperationsOf(met) \o <<>> = OperationsOf(met) /\ TargetsOf(met) \o <<>> = TargetsOf(met)
  BY <1>5
<1>9. OperationsOf(met) \o <<s>> = Append(OperationsOf(met), s)
  BY <1>5
<1>10. IsUse(s) => TargetsOf(met) \o <<s.target>> = Append(TargetsOf(met), s.target)
  <2>1. IsUse(s) => s.target \in Names
    BY StatementKinds DEF Names
  <2>2. QED
    BY <1>5, <2>1
<1>11. QED
  BY <1>1, <1>4, <1>6, <1>7, <1>8, <1>9, <1>10

\* Sequences may be put together in any grouping.
LEMMA Associative ==
  ASSUME NEW a \in Seq(Statements), NEW b \in Seq(Statements), NEW c \in Seq(Statements)
  PROVE  (a \o b) \o c = a \o (b \o c) /\ a \o b \in Seq(Statements)
BY ConcatAssociative

\* An operation moves from what is left to what was met.
LEMMA AppendWalked ==
  ASSUME ParserTypeOK, Shape, Walked, ~AtEnd, ~IsUse(Statement), Statement \in Operations,
         program' = program, limits' = limits,
         Len(stack') = Len(stack),
         \A i \in 1 .. Len(stack) :
           /\ stack'[i].path = stack[i].path
           /\ stack'[i].at = IF i = Len(stack) THEN stack[i].at + 1 ELSE stack[i].at,
         operations' = Append(operations, Statement), used' = used, visits' = visits + 1
  PROVE  Walked'
<1> DEFINE d == Len(stack)
           s == Statement
<1>1. PICK met \in Seq(Statements), rest \in [0 .. d -> Seq(Statements)] :
        /\ operations = OperationsOf(met) /\ used = TargetsOf(met) /\ visits = Len(met)
        /\ \A k \in 1 .. Len(met) : Good(met[k])
        /\ rest[0] = <<>>
        /\ \A i \in 1 .. d : rest[i] = Left(i) \o rest[i - 1]
        /\ met \o rest[d] = Visited
  BY DEF Walked
<1>2. /\ d \in Nat /\ d \in 1 .. d /\ s \in Statements
      /\ Top = stack[d] /\ Top.at \in Nat \ {0}
  <2>1. d \in 1 .. d
    BY TopFacts DEF Shape
  <2>2. s \in Statements
    BY TopFacts
  <2>3. QED
    BY <2>1, <2>2, TopFacts
<1>3. After \in Seq(Statements) /\ Left(d) = <<s>> \o After
  <2>1. StandsFor(s, Unfold[N - d]) = <<s>>
    BY DEF StandsFor
  <2>2. QED
    BY <2>1, LeftOfTop
<1>4. /\ Unfold' = Unfold /\ Visited' = Visited
      /\ \A i \in 1 .. d : Body(i)' = Body(i)
  BY SameProgram DEF Body
<1>5. \A i \in 1 .. d : Left(i)' = IF i = d THEN After ELSE Left(i)
  BY <1>2, <1>4 DEF Left, After
<1> HIDE DEF d, s
<1> DEFINE more == met \o <<s>>
           rest2 == [i \in 0 .. d |-> IF i = d THEN After \o rest[d - 1] ELSE rest[i]]
<1>6. /\ more \in Seq(Statements) /\ Len(more) = visits + 1
      /\ OperationsOf(more) = Append(operations, s) /\ TargetsOf(more) = used
      /\ \A k \in 1 .. visits + 1 : Good(more[k])
  BY <1>1, <1>2, MetMore DEF s, Good
<1>7. d - 1 \in 0 .. d /\ d \in 0 .. d /\ 0 \in 0 .. d /\ d # 0 /\ \A i \in 1 .. d : i \in 0 .. d /\ i - 1 \in 0 .. d /\ i - 1 # d
  BY <1>2
<1>8. rest[d - 1] \in Seq(Statements) /\ After \o rest[d - 1] \in Seq(Statements)
  BY <1>3, <1>7, Associative
<1>9. /\ rest2 \in [0 .. d -> Seq(Statements)] /\ rest2[0] = <<>>
      /\ rest2[d] = After \o rest[d - 1]
  BY <1>1, <1>7, <1>8
<1>10. ASSUME NEW i \in 1 .. d PROVE rest2[i] = Left(i)' \o rest2[i - 1]
  <2>1. rest2[i - 1] = rest[i - 1]
    BY <1>7
  <2>2. CASE i = d
    BY <1>5, <1>9, <2>1, <2>2
  <2>3. CASE i # d
    <3>1. rest2[i] = rest[i] /\ Left(i)' = Left(i)
      BY <1>5, <1>7, <2>3
    <3>2. QED
      BY <1>1, <2>1, <3>1
  <2>4. QED
    BY <2>2, <2>3
<1>11. more \o rest2[d] = Visited
  <2>1. rest[d] = (<<s>> \o After) \o rest[d - 1]
    BY <1>1, <1>2, <1>3
  <2>2. <<s>> \in Seq(Statements)
    BY <1>2
  <2>3. rest[d] = <<s>> \o (After \o rest[d - 1])
    BY <1>3, <1>8, <2>1, <2>2, Associative
  <2>4. (met \o <<s>>) \o (After \o rest[d - 1]) = met \o (<<s>> \o (After \o rest[d - 1]))
    BY <1>8, <2>2, Associative
  <2>5. QED
    BY <1>1, <1>9, <2>3, <2>4
<1> HIDE DEF more, rest2
<1>12. QED
  BY <1>4, <1>6, <1>9, <1>10, <1>11 DEF Walked, d, s

-----------------------------------------------------------------------------
\* Concatenation, kept closed for the provers.
Join(a, b) == a \o b

\* What the proofs about concatenation use.
LEMMA JoinFacts ==
  /\ \A a, b \in Seq(Statements) : Join(a, b) \in Seq(Statements)
  /\ \A a, b, c \in Seq(Statements) : Join(Join(a, b), c) = Join(a, Join(b, c))
<1>1. \A a, b \in Seq(Statements) : Join(a, b) \in Seq(Statements)
  BY DEF Join
<1>2. ASSUME NEW a \in Seq(Statements), NEW b \in Seq(Statements), NEW c \in Seq(Statements)
      PROVE  Join(Join(a, b), c) = Join(a, Join(b, c))
  BY ConcatAssociative DEF Join
<1>3. QED
  BY <1>1, <1>2

\* A use moves from what is left to what was met, and what it stands for is
\* what is left of the path that is entered.
LEMMA UseWalked ==
  ASSUME ParserTypeOK, Shape, Walked, Shape', ~AtEnd, IsUse(Statement), Statement.target \in Paths,
         program' = program, limits' = limits,
         Len(stack') = Len(stack) + 1,
         \A i \in 1 .. Len(stack) :
           /\ stack'[i].path = stack[i].path
           /\ stack'[i].at = IF i = Len(stack) THEN stack[i].at + 1 ELSE stack[i].at,
         stack'[Len(stack) + 1] = Frame(Statement.target, 1),
         operations' = operations, used' = Append(used, Statement.target), visits' = visits + 1
  PROVE  Walked'
<1> DEFINE d == Len(stack)
           s == Statement
           t == Statement.target
           U == Unfold[N - d]
<1>1. PICK met \in Seq(Statements), rest \in [0 .. d -> Seq(Statements)] :
        /\ operations = OperationsOf(met) /\ used = TargetsOf(met) /\ visits = Len(met)
        /\ \A k \in 1 .. Len(met) : Good(met[k])
        /\ rest[0] = <<>>
        /\ \A i \in 1 .. d : rest[i] = Left(i) \o rest[i - 1]
        /\ met \o rest[d] = Visited
  BY DEF Walked
<1>2. /\ d \in Nat /\ d \in 1 .. d /\ s \in Statements
      /\ Top = stack[d] /\ Top.at \in Nat \ {0}
  <2>1. d \in 1 .. d
    BY TopFacts DEF Shape
  <2>2. s \in Statements
    BY TopFacts
  <2>3. QED
    BY <2>1, <2>2, TopFacts
<1>3. /\ After \in Seq(Statements) /\ U[t] \in Seq(Statements)
      /\ Left(d) = (<<s>> \o U[t]) \o After
  <2>1. StandsFor(s, U) = <<s>> \o U[t]
    BY DEF StandsFor
  <2>2. U \in Meanings
    BY LeftOfTop
  <2>3. U[t] \in Seq(Statements)
    BY <2>2 DEF Meanings
  <2>4. QED
    BY <2>1, <2>3, LeftOfTop
<1>4. /\ Unfold' = Unfold /\ Visited' = Visited /\ Deepest' = Deepest
      /\ \A i \in 1 .. d : Body(i)' = Body(i)
  BY SameProgram DEF Body
<1>5. \A i \in 1 .. d : Left(i)' = IF i = d THEN After ELSE Left(i)
  BY <1>2, <1>4 DEF Left, After
<1>6. ASSUME NEW i, i = d + 1 PROVE Left(i)' = U[t]
  <2>1. stack'[d + 1].path = t /\ stack'[d + 1].at = 1
    BY DEF Frame
  <2>2. program[t] \in Seq(Statements)
    BY DEF ParserTypeOK
  <2>3. Left(i)' = Inlined(SubSeq(program[t], 1, Len(program[t])), Unfold[N - (d + 1)])
    BY <1>4, <1>6, <2>1 DEF Left, Body
  <2>4. SubSeq(program[t], 1, Len(program[t])) = program[t]
    BY <2>2, SubSeqFull
  <2>5. N - d \in 1 .. N /\ (N - d) - 1 = N - (d + 1)
    <3>1. d + 1 \in 1 .. Deepest
      BY <1>4 DEF Shape
    <3>2. Deepest \in 1 .. N /\ N \in Nat
      BY DeepestType, PathCount DEF ParserTypeOK
    <3>3. QED
      BY <1>2, <3>1, <3>2
  <2>6. Unfold[N - d][t] = Inlined(program[t], Unfold[(N - d) - 1])
    BY <2>5, UnfoldEquations DEF ParserTypeOK
  <2>7. QED
    BY <2>3, <2>4, <2>5, <2>6
<1> HIDE DEF d, s, t, U
<1> DEFINE more == met \o <<s>>
           below == After \o rest[d - 1]
           rest2 == [i \in 0 .. d + 1 |-> IF i = d + 1 THEN U[t] \o below ELSE IF i = d THEN below ELSE rest[i]]
<1>7. /\ more \in Seq(Statements) /\ Len(more) = visits + 1
      /\ OperationsOf(more) = operations /\ TargetsOf(more) = Append(used, t)
      /\ \A k \in 1 .. visits + 1 : Good(more[k])
  BY <1>1, <1>2, MetMore DEF s, t, Good
<1>8. /\ d - 1 \in 0 .. d /\ d \in 0 .. d + 1 /\ d + 1 \in 0 .. d + 1 /\ 0 \in 0 .. d + 1
      /\ d # 0 /\ d + 1 # 0 /\ d + 1 # d /\ (d + 1) - 1 = d
      /\ \A i \in 1 .. d : /\ i \in 0 .. d + 1 /\ i - 1 \in 0 .. d + 1 /\ i - 1 # d /\ i - 1 # d + 1
                           /\ i # d + 1
      /\ \A i \in 1 .. d + 1 : i \in 1 .. d \/ i = d + 1
      /\ \A i \in 0 .. d + 1 : i # d + 1 => i \in 0 .. d
  BY <1>2
<1>9. /\ rest[d - 1] \in Seq(Statements) /\ below \in Seq(Statements)
      /\ U[t] \o below \in Seq(Statements)
  <2>1. rest[d - 1] \in Seq(Statements)
    BY <1>8
  <2>2. below \in Seq(Statements)
    BY <1>3, <2>1, Associative
  <2> HIDE DEF below
  <2>3. QED
    BY <1>3, <2>1, <2>2, Associative
<1>10. /\ rest2[0] = <<>> /\ rest2[d] = below /\ rest2[d + 1] = U[t] \o below
  BY <1>1, <1>8
<1>11. rest2 \in [0 .. d + 1 -> Seq(Statements)]
  <2> HIDE DEF below
  <2>1. QED
    BY <1>8, <1>9
<1>12. ASSUME NEW i \in 1 .. d + 1 PROVE rest2[i] = Left(i)' \o rest2[i - 1]
  <2>1. CASE i = d + 1
    BY <1>6, <1>8, <1>10, <2>1
  <2>2. CASE i = d
    <3>1. rest2[i - 1] = rest[i - 1]
      BY <1>2, <1>8, <2>2
    <3>2. QED
      BY <1>2, <1>5, <1>10, <2>2, <3>1
  <2>3. CASE i # d /\ i \in 1 .. d
    <3>1. rest2[i] = rest[i] /\ rest2[i - 1] = rest[i - 1] /\ Left(i)' = Left(i)
      BY <1>5, <1>8, <2>3
    <3>2. QED
      BY <1>1, <2>3, <3>1
  <2>4. QED
    BY <1>8, <2>1, <2>2, <2>3
<1>13. more \o rest2[d + 1] = Visited
  <2> DEFINE one == <<s>>
             expanded == U[t]
             left == rest[d - 1]
  <2>1. one \in Seq(Statements) /\ expanded \in Seq(Statements) /\ left \in Seq(Statements)
    BY <1>2, <1>3, <1>9
  <2>2. rest[d] = Left(d) \o left /\ Left(d) = (one \o expanded) \o After
    BY <1>1, <1>2, <1>3
  <2> HIDE DEF one, expanded, left
  <2>3. rest[d] = Join(Join(Join(one, expanded), After), left)
    BY <2>2, Zenon DEF Join
  <2>4. Join(met, rest[d]) = Join(Join(met, one), Join(expanded, Join(After, left)))
    BY <1>3, <2>1, <2>3, JoinFacts
  <2>5. met \o rest[d] = (met \o one) \o (expanded \o (After \o left))
    BY <2>4, Zenon DEF Join
  <2> USE DEF one, expanded, left
  <2>6. rest2[d + 1] = expanded \o (After \o left)
    BY <1>10
  <2> HIDE DEF rest2
  <2>7. QED
    BY <1>1, <2>5, <2>6, Zenon
<1> HIDE DEF more, rest2, below
<1>14. Len(stack') = d + 1 /\ operations' = operations /\ used' = Append(used, t) /\ visits' = visits + 1
  BY DEF d, t
<1>15. QED
  BY <1>4, <1>7, <1>10, <1>11, <1>12, <1>13, <1>14 DEF Walked

\* Of a path that ends nothing is left.
LEMMA ReturnWalked ==
  ASSUME ParserTypeOK, Shape, Walked, AtEnd, Len(stack) > 1,
         program' = program, limits' = limits,
         Len(stack') = Len(stack) - 1,
         \A i \in 1 .. Len(stack) - 1 : stack'[i] = stack[i],
         operations' = operations, used' = used, visits' = visits
  PROVE  Walked'
<1> DEFINE d == Len(stack)
<1>1. PICK met \in Seq(Statements), rest \in [0 .. d -> Seq(Statements)] :
        /\ operations = OperationsOf(met) /\ used = TargetsOf(met) /\ visits = Len(met)
        /\ \A k \in 1 .. Len(met) : Good(met[k])
        /\ rest[0] = <<>>
        /\ \A i \in 1 .. d : rest[i] = Left(i) \o rest[i - 1]
        /\ met \o rest[d] = Visited
  BY DEF Walked
<1>2. d \in Nat /\ d > 1 /\ d \in 1 .. d /\ Left(d) = <<>>
  <2>1. d \in Nat
    BY TopFacts
  <2>2. QED
    BY <2>1, LeftOfTop
<1>3. /\ Unfold' = Unfold /\ Visited' = Visited
      /\ \A i \in 1 .. d - 1 : Body(i)' = Body(i)
  BY SameProgram DEF Body
<1>4. \A i \in 1 .. d - 1 : Left(i)' = Left(i)
  BY <1>3 DEF Left
<1>5. Len(stack') = d - 1
  OBVIOUS
<1> HIDE DEF d
<1>6. rest[d - 1] \in Seq(Statements) /\ rest[d] = rest[d - 1]
  <2>1. d - 1 \in 0 .. d
    BY <1>2
  <2>2. rest[d - 1] \in Seq(Statements)
    BY <2>1
  <2>3. QED
    BY <1>1, <1>2, <2>2, ConcatEmptySeq
<1> DEFINE rest2 == [i \in 0 .. d - 1 |-> rest[i]]
<1>7. /\ \A i \in 0 .. d - 1 : i \in 0 .. d
      /\ \A i \in 1 .. d - 1 : i \in 0 .. d - 1 /\ i - 1 \in 0 .. d - 1 /\ i \in 1 .. d
      /\ 0 \in 0 .. d - 1 /\ d - 1 \in 0 .. d - 1
  BY <1>2
<1>8. rest2 \in [0 .. d - 1 -> Seq(Statements)] /\ \A i \in 0 .. d - 1 : rest2[i] = rest[i]
  BY <1>7
<1> HIDE DEF rest2
<1>9. \A i \in 1 .. d - 1 : rest2[i] = Left(i)' \o rest2[i - 1]
  BY <1>1, <1>4, <1>7, <1>8
<1>10. met \o rest2[d - 1] = Visited /\ rest2[0] = <<>>
  BY <1>1, <1>6, <1>7, <1>8
<1>11. QED
  BY <1>1, <1>3, <1>5, <1>8, <1>9, <1>10 DEF Walked

-----------------------------------------------------------------------------
\* An operation is no use: nothing new is explored.
LEMMA AppendExplored ==
  ASSUME ParserTypeOK, Shape, Explored, ~AtEnd, ~IsUse(Statement),
         program' = program, limits' = limits,
         Len(stack') = Len(stack),
         \A i \in 1 .. Len(stack) :
           /\ stack'[i].path = stack[i].path
           /\ stack'[i].at = IF i = Len(stack) THEN stack[i].at + 1 ELSE stack[i].at
  PROVE  Explored'
<1> DEFINE d == Len(stack)
<1>1. /\ Chains' = Chains /\ Deepest' = Deepest
      /\ \A i \in 1 .. d : Body(i)' = Body(i)
  BY SameProgram DEF Body
<1>2. /\ d \in Nat /\ Top = stack[d] /\ Statement = Body(d)[Top.at]
      /\ \A i \in 1 .. d : stack[i].at \in Nat \ {0}
  BY TopFacts
<1> HIDE DEF d
<1>3. SUFFICES ASSUME NEW i \in 1 .. d, NEW k \in 1 .. stack'[i].at - 1,
                      IsUse(Body(i)[k]), i = d \/ k # stack'[i].at - 1
               PROVE  Body(i)[k].target \notin Chains[Deepest - i]
  BY <1>1 DEF Explored, d
<1>4. CASE i # d
  <2>1. stack'[i].at = stack[i].at
    BY <1>4 DEF d
  <2>2. QED
    BY <1>3, <1>4, <2>1 DEF Explored, d
<1>5. CASE i = d
  <2>1. stack'[d].at = stack[d].at + 1
    BY <1>5 DEF d
  <2>2. k # stack[d].at
    BY <1>2, <1>3, <1>5
  <2>3. k \in 1 .. stack[d].at - 1
    BY <1>2, <1>5, <2>1, <2>2
  <2>4. QED
    BY <1>3, <1>5, <2>3 DEF Explored, d
<1>6. QED
  BY <1>4, <1>5

\* The use that is being expanded is not explored yet.
LEMMA UseExplored ==
  ASSUME ParserTypeOK, Shape, Explored, ~AtEnd,
         program' = program, limits' = limits,
         Len(stack') = Len(stack) + 1,
         \A i \in 1 .. Len(stack) :
           /\ stack'[i].path = stack[i].path
           /\ stack'[i].at = IF i = Len(stack) THEN stack[i].at + 1 ELSE stack[i].at,
         stack'[Len(stack) + 1] = Frame(Statement.target, 1)
  PROVE  Explored'
<1> DEFINE d == Len(stack)
<1>1. /\ Chains' = Chains /\ Deepest' = Deepest
      /\ \A i \in 1 .. d : Body(i)' = Body(i)
  BY SameProgram DEF Body
<1>2. d \in Nat /\ \A i \in 1 .. d : stack[i].at \in Nat \ {0}
  BY TopFacts
<1>3. stack'[d + 1].at = 1
  BY DEF Frame
<1>4. Len(stack') = d + 1
  OBVIOUS
<1> HIDE DEF d
<1>5. SUFFICES ASSUME NEW i \in 1 .. d + 1, NEW k \in 1 .. stack'[i].at - 1,
                      IsUse(Body(i)'[k]), i = d + 1 \/ k # stack'[i].at - 1
               PROVE  Body(i)'[k].target \notin Chains[Deepest - i]
  BY <1>1, <1>4 DEF Explored
<1>6. i # d + 1
  BY <1>3
<1>7. i \in 1 .. d /\ Body(i)' = Body(i)
  BY <1>1, <1>2, <1>6
<1>8. CASE i # d
  <2>1. stack'[i].at = stack[i].at
    BY <1>7, <1>8 DEF d
  <2>2. QED
    BY <1>5, <1>6, <1>7, <1>8, <2>1 DEF Explored, d
<1>9. CASE i = d
  <2>1. stack'[d].at = stack[d].at + 1
    BY <1>7, <1>9 DEF d
  <2>2. k # stack[d].at /\ stack[d].at \in Nat \ {0}
    BY <1>2, <1>5, <1>6, <1>7, <1>9, <2>1
  <2>3. k \in 1 .. stack[d].at - 1
    BY <1>9, <2>1, <2>2
  <2>4. QED
    BY <1>5, <1>7, <1>9, <2>3 DEF Explored, d
<1>10. QED
  BY <1>8, <1>9

\* Every use of the top path has been explored: it leads no further than they do.
LEMMA TopExplored ==
  ASSUME ParserTypeOK, Shape, Explored, AtEnd, NEW n \in 1 .. N, n = Deepest - Len(stack) + 1
  PROVE  Top.path \notin Chains[n]
<1> DEFINE d == Len(stack)
<1>1. /\ d \in Nat /\ Top = stack[d] /\ d \in 1 .. d
      /\ Top.path \in Paths /\ Top.at = Len(Body(d)) + 1 /\ Len(Body(d)) \in Nat
      /\ Body(d) \in Seq(Statements)
      /\ program[Top.path] = Body(d)
  <2>1. d \in 1 .. d
    BY TopFacts DEF Shape
  <2>2. QED
    BY <2>1, TopFacts
<1>2. Deepest \in Int /\ n - 1 = Deepest - d
  BY <1>1, DeepestType, PathCount DEF ParserTypeOK
<1>3. \A k \in 1 .. Len(Body(d)) : IsUse(Body(d)[k]) => Body(d)[k].target \notin Chains[n - 1]
  <2>1. \A k \in 1 .. Len(Body(d)) : k \in 1 .. stack[d].at - 1
    BY <1>1
  <2>2. QED
    BY <1>1, <1>2, <2>1 DEF Explored
<1>4. Uses(Top.path) \cap Chains[n - 1] = {}
  <2>1. ToSet(program[Top.path]) = {Body(d)[k] : k \in 1 .. Len(Body(d))}
    BY <1>1 DEF ToSet
  <2>2. SUFFICES ASSUME NEW q \in Uses(Top.path), q \in Chains[n - 1] PROVE FALSE
    OBVIOUS
  <2>3. PICK k \in 1 .. Len(Body(d)) : IsUse(Body(d)[k]) /\ q = Body(d)[k].target
    BY <2>1 DEF Uses
  <2>4. QED
    BY <1>3, <2>2, <2>3
<1>5. QED
  BY <1>4, ChainsEquations

\* Once its path ends, it is.
LEMMA ReturnExplored ==
  ASSUME ParserTypeOK, Shape, Explored, AtEnd, Len(stack) > 1,
         program' = program, limits' = limits,
         Len(stack') = Len(stack) - 1,
         \A i \in 1 .. Len(stack) - 1 : stack'[i] = stack[i]
  PROVE  Explored'
<1> DEFINE d == Len(stack)
<1>1. /\ Chains' = Chains /\ Deepest' = Deepest
      /\ \A i \in 1 .. d - 1 : Body(i)' = Body(i)
  BY SameProgram DEF Body
<1>2. /\ d \in Nat /\ d > 1 /\ Top = stack[d]
      /\ \A i \in 1 .. d : stack[i].at \in Nat \ {0}
  BY TopFacts
<1>3. Len(stack') = d - 1
  OBVIOUS
<1>4. Deepest \in 1 .. N /\ d \in 1 .. Deepest /\ N \in Nat
  BY DeepestType, PathCount DEF Shape, ParserTypeOK
<1>5. Top.path \notin Chains[Deepest - d + 1]
  <2>1. Deepest - d + 1 \in 1 .. N
    BY <1>4
  <2>2. QED
    BY <2>1, TopExplored
<1>6. /\ IsUse(Body(d - 1)[stack[d - 1].at - 1]) /\ stack[d - 1].at >= 2
      /\ Body(d - 1)[stack[d - 1].at - 1].target = Top.path
  <2>1. d - 1 \in 1 .. d - 1 /\ (d - 1) + 1 = d
    BY <1>2
  <2>2. QED
    BY <1>2, <2>1 DEF Shape
<1> HIDE DEF d
<1>7. SUFFICES ASSUME NEW i \in 1 .. d - 1, NEW k \in 1 .. stack[i].at - 1,
                      IsUse(Body(i)[k]), i = d - 1 \/ k # stack[i].at - 1
               PROVE  Body(i)[k].target \notin Chains[Deepest - i]
  <2>1. \A i \in 1 .. d - 1 : stack'[i] = stack[i]
    BY DEF d
  <2>2. QED
    BY <1>1, <1>3, <2>1 DEF Explored
<1>8. CASE i = d - 1 /\ k = stack[i].at - 1
  <2>1. Deepest - i = Deepest - d + 1
    BY <1>2, <1>4, <1>8
  <2>2. QED
    BY <1>5, <1>6, <1>8, <2>1
<1>9. CASE ~(i = d - 1 /\ k = stack[i].at - 1)
  <2>1. i \in 1 .. d /\ i # d /\ k # stack[i].at - 1
    BY <1>2, <1>7, <1>9
  <2>2. QED
    BY <1>7, <2>1 DEF Explored, d
<1>10. QED
  BY <1>8, <1>9

-----------------------------------------------------------------------------
\* The parser is back at the end of the verified path: what it has is the unfolding.
LEMMA EndIsUnfolding ==
  ASSUME ParserInv, AtEnd, Len(stack) = 1
  PROVE  /\ Visited \in Seq(Statements) /\ \A k \in 1 .. Len(Visited) : Good(Visited[k])
         /\ operations = OperationsOf(Visited) /\ used = TargetsOf(Visited) /\ visits = Len(Visited)
<1>1. PICK met \in Seq(Statements), rest \in [0 .. 1 -> Seq(Statements)] :
        /\ operations = OperationsOf(met) /\ used = TargetsOf(met) /\ visits = Len(met)
        /\ \A k \in 1 .. Len(met) : Good(met[k])
        /\ rest[0] = <<>>
        /\ \A i \in 1 .. 1 : rest[i] = Left(i) \o rest[i - 1]
        /\ met \o rest[1] = Visited
  BY DEF ParserInv, Walked
<1>2. Left(1) = <<>>
  BY LeftOfTop DEF ParserInv
<1>3. rest[1] = <<>>
  <2>1. rest[1] = Left(1) \o rest[1 - 1] /\ 1 - 1 = 0
    BY <1>1
  <2>2. QED
    BY <1>1, <1>2, <2>1
<1>4. met = Visited
  BY <1>1, <1>3
<1>5. QED
  BY <1>1, <1>4

\* The target's uses end, within the depth there is.
LEMMA EndIsAcyclic ==
  ASSUME ParserInv, AtEnd, Len(stack) = 1
  PROVE  Acyclic /\ Within(Depth, limits.depth)
<1>1. /\ Deepest \in 1 .. N /\ N \in Nat
      /\ limits.depth # Unbounded => limits.depth \in Nat \ {0} /\ Deepest <= limits.depth
  BY DeepestType, PathCount DEF ParserInv, ParserTypeOK
<1>2. Target \notin Chains[Deepest]
  <2>1. Top.path = Target
    BY TopFacts DEF ParserInv, Shape
  <2>2. Deepest = Deepest - Len(stack) + 1
    BY <1>1
  <2>3. QED
    BY <1>1, <2>1, <2>2, TopExplored DEF ParserInv
<1>3. \A n \in 0 .. N : Target \in Chains[n] => n \in 0 .. Deepest - 1
  <2>1. SUFFICES ASSUME NEW n \in 0 .. N, Target \in Chains[n], n >= Deepest PROVE FALSE
    BY <1>1
  <2>2. Deepest \in 0 .. N
    BY <1>1
  <2>3. Chains[n] \subseteq Chains[Deepest]
    BY <1>1, <2>1, <2>2, ChainsShrink
  <2>4. QED
    BY <1>2, <2>1, <2>3
<1>4. Acyclic
  <2>1. N \in 0 .. N /\ N \notin 0 .. Deepest - 1
    BY <1>1
  <2>2. QED
    BY <1>3, <2>1 DEF Acyclic, N
<1>5. Depth <= Deepest /\ Depth \in Nat
  <2> DEFINE reached == {n \in 0 .. N : Target \in Chains[n]}
  <2>1. reached \in SUBSET (0 .. Deepest - 1)
    BY <1>3
  <2>2. IsFiniteSet(0 .. Deepest - 1) /\ Cardinality(0 .. Deepest - 1) = Deepest
    <3>1. 0 \in Int /\ Deepest - 1 \in Int /\ ~(0 > Deepest - 1) /\ (Deepest - 1) - 0 + 1 = Deepest
      BY <1>1
    <3>2. QED
      BY <3>1, FS_Interval
  <2>3. Depth = Cardinality(reached)
    BY DEF Depth, N
  <2> HIDE DEF reached
  <2>4. IsFiniteSet(reached) /\ Cardinality(reached) <= Deepest
    BY <2>1, <2>2, FS_Subset
  <2>5. QED
    BY <2>3, <2>4, FS_CardinalityType
<1>6. QED
  BY <1>1, <1>4, <1>5 DEF Within

\* The operations so far, and their kinds.
LEMMA OperationFacts ==
  ASSUME ParserTypeOK
  PROVE  /\ Len(operations) \in Nat /\ DOMAIN operations = 1 .. Len(operations)
         /\ Kinds(operations) = {operations[i].op : i \in 1 .. Len(operations)}
         /\ Kinds(operations) \subseteq OperationKinds
         /\ \A i \in 1 .. Len(operations) : operations[i] \in Operations
<1>1. /\ Len(operations) \in Nat /\ DOMAIN operations = 1 .. Len(operations)
      /\ \A i \in 1 .. Len(operations) : operations[i] \in Operations
  BY DEF ParserTypeOK
<1>2. Kinds(operations) = {operations[i].op : i \in 1 .. Len(operations)}
  BY <1>1 DEF Kinds, ToSet
<1>3. \A i \in 1 .. Len(operations) : operations[i].op \in OperationKinds
  BY <1>1, StatementKinds
<1>4. QED
  BY <1>1, <1>2, <1>3

\* The checks of the whole path are those the language asks for.
LEMMA EndIsWellFormed ==
  ASSUME ParserInv, AtEnd, Len(stack) = 1
  PROVE  Complete <=> WellFormed(Visited)
<1>1. /\ Visited \in Seq(Statements) /\ \A k \in 1 .. Len(Visited) : Good(Visited[k])
      /\ operations = OperationsOf(Visited)
  BY EndIsUnfolding
<1>2. \A s \in ToSet(Visited) : IF IsUse(s) THEN s.target \in Paths ELSE s.op # "invalid"
  <2>1. SUFFICES ASSUME NEW k \in 1 .. Len(Visited)
                 PROVE  IF IsUse(Visited[k]) THEN Visited[k].target \in Paths ELSE Visited[k].op # "invalid"
    BY <1>1 DEF ToSet
  <2>2. ~IsUse(Visited[k]) => Visited[k].op \in OperationKinds
    BY <1>1, StatementKinds DEF Good
  <2>3. QED
    BY <1>1, <2>2 DEF Good, OperationKinds
<1>3. /\ Len(operations) \in Nat /\ DOMAIN operations = 1 .. Len(operations)
      /\ Kinds(operations) \subseteq OperationKinds
  BY OperationFacts DEF ParserInv
<1>4. \A i \in DOMAIN operations : operations[i].op = "full" => i = Len(operations)
  <2>1. \A i \in DOMAIN operations : i # Len(operations) => i \in 1 .. Len(operations) - 1
    BY <1>3
  <2>2. QED
    BY <2>1 DEF ParserInv, FullLast
<1>5. Kinds(operations) \cap {"conditional", "measure", "assert"} = {}
        <=> Kinds(operations) \subseteq {"noise", "gate", "full"}
  BY <1>3 DEF OperationKinds
<1>6. {s.op : s \in ToSet(operations)} = Kinds(operations)
  BY DEF Kinds
<1>7. WellFormed(Visited) <=>
        LET kinds == Kinds(operations)
        IN  /\ kinds \cap {"measure", "full"} # {}
            /\ "noise" \in kinds => /\ backend = "densitymatrix"
                                    /\ kinds \subseteq {"noise", "gate", "full"}
  BY <1>1, <1>2, <1>4, <1>6 DEF WellFormed
<1>8. QED
  BY <1>5, <1>7 DEF Complete

\* ... and the unfolding is within the limits.
LEMMA EndFits ==
  ASSUME ParserInv, AtEnd, Len(stack) = 1
  PROVE  Fits(Visited)
BY EndIsUnfolding, EndIsAcyclic DEF Fits, Budget, ParserInv

-----------------------------------------------------------------------------
\* The statement that is up is the next one of the unfolding.
LEMMA NextOfUnfolding ==
  ASSUME ParserInv, ~AtEnd
  PROVE  \E met \in Seq(Statements), more \in Seq(Statements) :
           /\ Visited = (met \o <<Statement>>) \o more
           /\ operations = OperationsOf(met) /\ used = TargetsOf(met) /\ visits = Len(met)
<1> DEFINE d == Len(stack)
           s == Statement
           U == Unfold[N - d]
<1>1. PICK met \in Seq(Statements), rest \in [0 .. d -> Seq(Statements)] :
        /\ operations = OperationsOf(met) /\ used = TargetsOf(met) /\ visits = Len(met)
        /\ \A i \in 1 .. d : rest[i] = Left(i) \o rest[i - 1]
        /\ met \o rest[d] = Visited
  BY DEF ParserInv, Walked
<1>2. d \in 1 .. d /\ s \in Statements /\ d - 1 \in 0 .. d
  <2>1. d \in Nat /\ d >= 1
    BY TopFacts DEF ParserInv, Shape
  <2>2. QED
    BY <2>1, TopFacts DEF ParserInv
<1>3. /\ After \in Seq(Statements) /\ U \in Meanings
      /\ Left(d) = StandsFor(s, U) \o After
  BY LeftOfTop DEF ParserInv
<1> DEFINE expanded == IF IsUse(s) /\ s.target \in Paths THEN U[s.target] ELSE <<>>
           one == <<s>>
           left == rest[d - 1]
<1>4. /\ expanded \in Seq(Statements) /\ one \in Seq(Statements) /\ left \in Seq(Statements)
      /\ StandsFor(s, U) = one \o expanded
  <2>1. StandsFor(s, U) = one \o expanded
    BY DEF StandsFor
  <2>2. expanded \in Seq(Statements)
    BY <1>3 DEF Meanings
  <2>3. QED
    BY <1>2, <2>1, <2>2
<1>5. rest[d] = Left(d) \o left
  BY <1>1, <1>2
<1> HIDE DEF d, s, U, expanded, one, left
<1>6. rest[d] = Join(Join(Join(one, expanded), After), left)
  BY <1>3, <1>4, <1>5, Zenon DEF Join
<1>7. Join(met, rest[d]) = Join(Join(met, one), Join(expanded, Join(After, left)))
  BY <1>3, <1>4, <1>6, JoinFacts
<1>8. Join(expanded, Join(After, left)) \in Seq(Statements)
  BY <1>3, <1>4, JoinFacts
<1>9. Visited = (met \o <<Statement>>) \o Join(expanded, Join(After, left))
  <2>1. Join(met, rest[d]) = Visited
    BY <1>1, Zenon DEF Join
  <2>2. Join(Join(met, one), Join(expanded, Join(After, left)))
          = (met \o one) \o Join(expanded, Join(After, left))
    BY Zenon DEF Join
  <2>3. QED
    BY <1>7, <2>1, <2>2, Zenon DEF one, s
<1>10. QED
  BY <1>1, <1>8, <1>9

\* What the next statement adds to the counts of the unfolding.
LEMMA NextCounts ==
  ASSUME ParserInv, ~AtEnd
  PROVE  /\ visits + 1 <= Len(Visited) /\ Len(Visited) \in Nat
         /\ Statement \in ToSet(Visited)
         /\ IsUse(Statement) => Len(used) + 1 <= Len(TargetsOf(Visited)) /\ Len(TargetsOf(Visited)) \in Nat
         /\ ~IsUse(Statement) =>
              /\ Len(operations) + 1 <= Len(OperationsOf(Visited)) /\ Len(OperationsOf(Visited)) \in Nat
              /\ \A i \in 1 .. Len(operations) : OperationsOf(Visited)[i] = operations[i]
<1>1. PICK met \in Seq(Statements), more \in Seq(Statements) :
           /\ Visited = (met \o <<Statement>>) \o more
           /\ operations = OperationsOf(met) /\ used = TargetsOf(met) /\ visits = Len(met)
  BY NextOfUnfolding
<1>2. Statement \in Statements
  BY TopFacts DEF ParserInv
<1> DEFINE first == met \o <<Statement>>
<1>3. /\ first \in Seq(Statements) /\ Len(first) = Len(met) + 1
      /\ OperationsOf(first) = IF IsUse(Statement) THEN OperationsOf(met) ELSE Append(OperationsOf(met), Statement)
      /\ TargetsOf(first) = IF IsUse(Statement) THEN Append(TargetsOf(met), Statement.target) ELSE TargetsOf(met)
  BY <1>2, MetMore
<1>4. Len(met) \in Nat /\ first[Len(met) + 1] = Statement
  BY <1>2
<1> HIDE DEF first
<1>5. Visited = first \o more
  BY <1>1 DEF first
<1>6. /\ Visited \in Seq(Statements) /\ Len(Visited) = Len(met) + 1 + Len(more) /\ Len(more) \in Nat
      /\ Visited[Len(met) + 1] = Statement
  <2>1. /\ first \o more \in Seq(Statements) /\ Len(first \o more) = Len(first) + Len(more)
        /\ \A i \in 1 .. Len(first) + Len(more) :
             (first \o more)[i] = IF i <= Len(first) THEN first[i] ELSE more[i - Len(first)]
    BY <1>3, ConcatProperties
  <2>2. Len(more) \in Nat
    OBVIOUS
  <2>3. QED
    BY <1>3, <1>4, <1>5, <2>1, <2>2
<1>7. Statement \in ToSet(Visited)
  <2>1. Len(met) + 1 \in DOMAIN Visited
    BY <1>4, <1>6
  <2>2. QED
    BY <1>6, <2>1 DEF ToSet
<1>8. /\ OperationsOf(Visited) = OperationsOf(first) \o OperationsOf(more)
      /\ TargetsOf(Visited) = TargetsOf(first) \o TargetsOf(more)
      /\ OperationsOf(met) \in Seq(Statements) /\ OperationsOf(more) \in Seq(Statements)
      /\ TargetsOf(met) \in Seq(Names) /\ TargetsOf(more) \in Seq(Names)
  BY <1>3, <1>5, OperationsConcat, TargetsConcat
<1>9. ASSUME IsUse(Statement)
      PROVE  Len(used) + 1 <= Len(TargetsOf(Visited)) /\ Len(TargetsOf(Visited)) \in Nat
  <2>1. Statement.target \in Names
    BY <1>2, <1>9, StatementKinds DEF Names
  <2>2. TargetsOf(first) = Append(used, Statement.target) /\ used \in Seq(Names)
    BY <1>1, <1>3, <1>8, <1>9
  <2> DEFINE x == Append(used, Statement.target)
             y == TargetsOf(more)
  <2>3. x \in Seq(Names) /\ Len(x) = Len(used) + 1 /\ Len(used) \in Nat
    BY <2>1, <2>2
  <2>4. y \in Seq(Names) /\ TargetsOf(Visited) = x \o y
    BY <1>8, <2>2
  <2> HIDE DEF x, y
  <2>5. Len(x \o y) = Len(x) + Len(y) /\ Len(y) \in Nat
    <3>1. Len(y) \in Nat
      BY <2>4
    <3>2. QED
      BY <2>3, <2>4, <3>1, ConcatProperties
  <2>6. QED
    BY <2>3, <2>4, <2>5
<1>10. ASSUME ~IsUse(Statement)
       PROVE  /\ Len(operations) + 1 <= Len(OperationsOf(Visited)) /\ Len(OperationsOf(Visited)) \in Nat
              /\ \A i \in 1 .. Len(operations) : OperationsOf(Visited)[i] = operations[i]
  <2>1. OperationsOf(first) = Append(operations, Statement) /\ operations \in Seq(Statements)
    BY <1>1, <1>3, <1>8, <1>10
  <2> DEFINE x == Append(operations, Statement)
             y == OperationsOf(more)
  <2>2. /\ x \in Seq(Statements) /\ Len(x) = Len(operations) + 1 /\ Len(operations) \in Nat
        /\ \A i \in 1 .. Len(operations) : x[i] = operations[i]
    BY <1>2, <2>1
  <2>3. y \in Seq(Statements) /\ OperationsOf(Visited) = x \o y
    BY <1>8, <2>1
  <2> HIDE DEF x, y
  <2>4. /\ Len(x \o y) = Len(x) + Len(y) /\ Len(y) \in Nat
        /\ \A i \in 1 .. Len(x) : (x \o y)[i] = x[i]
    <3>1. Len(y) \in Nat /\ Len(x) \in Nat
      BY <2>2, <2>3
    <3>2. /\ Len(x \o y) = Len(x) + Len(y)
          /\ \A i \in 1 .. Len(x) + Len(y) : (x \o y)[i] = IF i <= Len(x) THEN x[i] ELSE y[i - Len(x)]
      BY <2>2, <2>3, ConcatProperties
    <3>3. QED
      BY <3>1, <3>2
  <2>5. \A i \in 1 .. Len(operations) : i \in 1 .. Len(x)
    BY <2>2
  <2>6. QED
    BY <2>2, <2>3, <2>4, <2>5
<1>11. QED
  BY <1>1, <1>4, <1>6, <1>7, <1>9, <1>10

-----------------------------------------------------------------------------
\* Each path on the stack uses the next.
LEMMA StackUses ==
  ASSUME ParserTypeOK, Shape
  PROVE  /\ \A i \in 1 .. Len(stack) - 1 : stack[i + 1].path \in Uses(stack[i].path)
         /\ ~AtEnd /\ IsUse(Statement) /\ Statement.target \in Paths =>
              Statement.target \in Uses(stack[Len(stack)].path)
<1>1. /\ Len(stack) \in Nat
      /\ \A i \in 1 .. Len(stack) : /\ stack[i].path \in Paths /\ stack[i].at \in Nat \ {0}
                                    /\ Body(i) \in Seq(Statements) /\ Len(Body(i)) \in Nat
  BY TopFacts
<1>2. ASSUME NEW i \in 1 .. Len(stack), NEW k \in 1 .. Len(Body(i)), IsUse(Body(i)[k]),
             Body(i)[k].target \in Paths
      PROVE  Body(i)[k].target \in Uses(stack[i].path)
  <2>1. Body(i)[k] \in ToSet(program[stack[i].path])
    <3>1. k \in DOMAIN Body(i)
      BY <1>1
    <3>2. QED
      BY <3>1 DEF ToSet, Body
  <2>2. QED
    BY <1>2, <2>1 DEF Uses
<1>3. ASSUME NEW i \in 1 .. Len(stack) - 1 PROVE stack[i + 1].path \in Uses(stack[i].path)
  <2>1. /\ stack[i].at >= 2 /\ IsUse(Body(i)[stack[i].at - 1])
        /\ Body(i)[stack[i].at - 1].target = stack[i + 1].path
        /\ stack[i].at <= Len(Body(i)) + 1
    BY <1>1 DEF Shape
  <2>2. i \in 1 .. Len(stack) /\ i + 1 \in 1 .. Len(stack)
    BY <1>1
  <2>3. stack[i].at - 1 \in 1 .. Len(Body(i)) /\ stack[i + 1].path \in Paths
    BY <1>1, <2>1, <2>2
  <2>4. QED
    BY <1>2, <2>1, <2>2, <2>3
<1>4. ASSUME ~AtEnd, IsUse(Statement), Statement.target \in Paths
      PROVE  Statement.target \in Uses(stack[Len(stack)].path)
  <2>1. Top.at \in 1 .. Len(Body(Len(stack))) /\ Statement = Body(Len(stack))[Top.at]
    BY <1>4, TopFacts
  <2>2. Len(stack) \in 1 .. Len(stack)
    BY <1>1 DEF Shape
  <2>3. QED
    BY <1>2, <1>4, <2>1, <2>2
<1>5. QED
  BY <1>3, <1>4

\* A use of an open path: the target's uses do not end.
LEMMA CycleIsFound ==
  ASSUME ParserTypeOK, Shape, ~AtEnd, IsUse(Statement), Statement.target \in Open
  PROVE  ~Acyclic
<1> DEFINE d == Len(stack)
<1>1. /\ d \in Nat /\ d >= 1 /\ DOMAIN stack = 1 .. d
      /\ \A i \in 1 .. d : stack[i].path \in Paths
  <2>1. d \in Nat /\ \A i \in 1 .. d : stack[i].path \in Paths
    BY TopFacts
  <2>2. d >= 1 /\ DOMAIN stack = 1 .. d
    BY <2>1 DEF Shape, ParserTypeOK
  <2>3. QED
    BY <2>1, <2>2
<1>2. Open = {stack[i].path : i \in 1 .. d}
  BY <1>1 DEF Open
<1>3. Open \subseteq Paths
  BY <1>1, <1>2
<1>4. ASSUME NEW p \in Open PROVE Uses(p) \cap Open # {}
  <2>1. PICK i \in 1 .. d : p = stack[i].path
    BY <1>2
  <2>2. CASE i = d
    BY <1>3, <2>1, <2>2, StackUses
  <2>3. CASE i # d
    <3>1. i \in 1 .. d - 1 /\ i + 1 \in 1 .. d
      <4>1. d \in Nat
        BY <1>1
      <4> HIDE DEF d
      <4>2. QED
        BY <2>3, <4>1
    <3>2. stack[i + 1].path \in Uses(p) /\ stack[i + 1].path \in Open
      BY <1>2, <2>1, <3>1, StackUses
    <3>3. QED
      BY <3>2
  <2>4. QED
    BY <2>2, <2>3
<1>5. Target \in Open
  BY <1>1, <1>2 DEF Shape
<1>6. N \in 0 .. N
  BY PathCount
<1>7. Open \subseteq Chains[N]
  BY <1>3, <1>4, <1>6, EndlessChains
<1>8. QED
  BY <1>5, <1>7 DEF Acyclic, N

\* A use of another path: the target's uses go at least as deep as the stack.
LEMMA DepthIsReached ==
  ASSUME ParserTypeOK, Shape, ~AtEnd, IsUse(Statement), Statement.target \in Paths
  PROVE  \A n \in 0 .. Len(stack) : Target \in Chains[n]
<1> DEFINE d == Len(stack)
           t == Statement.target
<1>1. /\ d \in Nat /\ d >= 1 /\ d <= N /\ N \in Nat
      /\ \A i \in 1 .. d : stack[i].path \in Paths
      /\ stack[1].path = Target
  <2>1. Deepest \in 1 .. N /\ d \in 1 .. Deepest /\ N \in Nat
    BY DeepestType, PathCount DEF Shape, ParserTypeOK
  <2>2. \A i \in 1 .. d : stack[i].path \in Paths
    BY TopFacts
  <2>3. stack[1].path = Target
    BY DEF Shape
  <2> HIDE DEF d
  <2>4. QED
    BY <2>1, <2>2, <2>3
<1>2. /\ \A i \in 1 .. d - 1 : stack[i + 1].path \in Uses(stack[i].path)
      /\ t \in Uses(stack[d].path)
  BY StackUses
<1> HIDE DEF d, t
<1> DEFINE P == {j \in Nat : j < d => stack[d - j].path \in Chains[j + 1]}
<1>3. 0 \in P
  <2>1. 1 \in 1 .. N /\ d - 0 = d /\ d \in 1 .. d
    BY <1>1
  <2>2. Chains[1] = {p \in Paths : Uses(p) \cap Chains[0] # {}} /\ Chains[0] = Paths
    <3>1. 1 - 1 = 0
      OBVIOUS
    <3>2. QED
      BY <2>1, <3>1, ChainsEquations
  <2>3. t \in Paths
    BY DEF t
  <2>4. stack[d].path \in Chains[1]
    BY <1>1, <1>2, <2>1, <2>2, <2>3
  <2>5. QED
    BY <2>1, <2>4
<1>4. ASSUME NEW j \in Nat, j \in P PROVE j + 1 \in P
  <2>1. SUFFICES ASSUME j + 1 < d PROVE stack[d - (j + 1)].path \in Chains[(j + 1) + 1]
    OBVIOUS
  <2> DEFINE i == d - (j + 1)
  <2>2. /\ i \in 1 .. d - 1 /\ i \in 1 .. d /\ i + 1 = d - j
        /\ (j + 1) + 1 \in 1 .. N /\ ((j + 1) + 1) - 1 = j + 1 /\ j < d
    BY <1>1, <2>1
  <2>3. stack[i + 1].path \in Chains[j + 1]
    BY <1>4, <2>2
  <2> HIDE DEF i
  <2>4. stack[i + 1].path \in Uses(stack[i].path) /\ stack[i].path \in Paths
    BY <1>1, <1>2, <2>2
  <2>5. Chains[(j + 1) + 1] = {p \in Paths : Uses(p) \cap Chains[j + 1] # {}}
    BY <2>2, ChainsEquations
  <2>6. stack[i].path \in Chains[(j + 1) + 1]
    BY <2>3, <2>4, <2>5
  <2>7. QED
    BY <2>6 DEF i
<1>5. Nat \subseteq P
  <2> HIDE DEF P
  <2>1. QED
    BY <1>3, <1>4, Induction
<1>6. d - 1 \in Nat /\ d - 1 < d /\ d - (d - 1) = 1 /\ (d - 1) + 1 = d
  BY <1>1
<1>7. d - 1 \in P
  <2> HIDE DEF P
  <2>1. QED
    BY <1>5, <1>6
<1>8. Target \in Chains[d]
  BY <1>1, <1>6, <1>7
<1>9. ASSUME NEW n \in 0 .. d PROVE Target \in Chains[n]
  <2>1. n \in 0 .. N /\ d \in 0 .. N /\ n <= d
    BY <1>1
  <2>2. QED
    BY <1>8, <2>1, ChainsShrink
<1>10. QED
  BY <1>9 DEF d

\* A use that would pass the depth limit: the uses of the target go deeper than
\* the limit.
LEMMA DepthExceeded ==
  ASSUME ParserTypeOK, Shape, ~AtEnd, IsUse(Statement), Statement.target \in Paths,
         Exceeds(Len(stack) + 1, limits.depth)
  PROVE  ~Within(Depth, limits.depth)
<1> DEFINE d == Len(stack)
           reached == {n \in 0 .. N : Target \in Chains[n]}
<1>1. /\ Deepest \in 1 .. N /\ d \in 1 .. Deepest /\ N \in Nat
      /\ limits.depth # Unbounded /\ limits.depth \in Nat /\ d + 1 > limits.depth
  BY DeepestType, PathCount DEF Shape, ParserTypeOK, Exceeds
<1>2. 0 .. d \in SUBSET reached
  <2>1. 0 .. d \subseteq 0 .. N
    BY <1>1
  <2>2. \A n \in 0 .. d : Target \in Chains[n]
    BY DepthIsReached
  <2>3. QED
    BY <2>1, <2>2
<1>3. IsFiniteSet(reached)
  <2>1. IsFiniteSet(0 .. N) /\ reached \in SUBSET (0 .. N)
    <3>1. 0 \in Int /\ N \in Int
      BY <1>1
    <3>2. QED
      BY <3>1, FS_Interval
  <2> HIDE DEF reached
  <2>2. QED
    BY <2>1, FS_Subset
<1>4. Depth = Cardinality(reached)
  BY DEF Depth, N
<1> HIDE DEF reached, d
<1>5. Cardinality(0 .. d) <= Cardinality(reached)
  BY <1>2, <1>3, FS_Subset
<1>6. Cardinality(0 .. d) = d + 1
  <2>1. 0 \in Int /\ d \in Int /\ ~(0 > d) /\ d - 0 + 1 = d + 1
    BY <1>1
  <2>2. QED
    BY <2>1, FS_Interval
<1>7. Depth \in Nat /\ Depth >= d + 1
  BY <1>3, <1>4, <1>5, <1>6, <1>1, FS_CardinalityType
<1>8. QED
  BY <1>1, <1>7 DEF Within

\* The limits, and what they bound.
LEMMA LimitTypes ==
  ASSUME ParserTypeOK
  PROVE  /\ limits.visits \in Bounds /\ limits.invocations \in Bounds /\ limits.operations \in Bounds
         /\ \A b \in Bounds : b = Unbounded \/ b \in Nat \ {0}
         /\ visits \in Nat /\ Len(used) \in Nat /\ Len(operations) \in Nat
BY PathAssumption DEF ParserTypeOK, Limits, Bounds

-----------------------------------------------------------------------------
\* A use is refused only if the unfolding breaks a rule or a limit, or does not
\* end.
LEMMA UseRefusalIsExact ==
  ASSUME ParserInv, ~AtEnd, IsUse(Statement)
  PROVE  /\ UseRefusal = "invalid" => ~Acyclic \/ ~WellFormed(Visited)
         /\ UseRefusal = "limit" => ~Acyclic \/ ~Fits(Visited)
<1>1. ParserTypeOK /\ Shape
  BY DEF ParserInv
<1>2. /\ visits + 1 <= Len(Visited) /\ Len(Visited) \in Nat
      /\ Statement \in ToSet(Visited)
      /\ Len(used) + 1 <= Len(TargetsOf(Visited)) /\ Len(TargetsOf(Visited)) \in Nat
  BY NextCounts
<1>3. Statement.target \notin Paths => ~WellFormed(Visited)
  BY <1>2 DEF WellFormed
<1>4. Statement.target \in Open => ~Acyclic
  BY <1>1, CycleIsFound
<1>5. Exceeds(visits + 1, limits.visits) => ~Fits(Visited)
  BY <1>1, <1>2, LimitTypes DEF Exceeds, Fits, Within
<1>6. Exceeds(Len(used) + 1, limits.invocations) => ~Fits(Visited)
  BY <1>1, <1>2, LimitTypes DEF Exceeds, Fits, Within
<1>7. Statement.target \in Paths /\ Exceeds(Len(stack) + 1, limits.depth) => ~Fits(Visited)
  BY <1>1, DepthExceeded DEF Fits
<1>8. QED
  BY <1>3, <1>4, <1>5, <1>6, <1>7 DEF UseRefusal

\* An operation is refused only if the unfolding breaks a rule or a limit.
LEMMA OperationRefusalIsExact ==
  ASSUME ParserInv, ~AtEnd, ~IsUse(Statement)
  PROVE  /\ OperationRefusal = "invalid" => ~WellFormed(Visited)
         /\ OperationRefusal = "limit" => ~Fits(Visited)
<1>1. ParserTypeOK /\ Shape /\ FullLast
  BY DEF ParserInv
<1> DEFINE ops == OperationsOf(Visited)
<1>2. /\ visits + 1 <= Len(Visited) /\ Len(Visited) \in Nat
      /\ Statement \in ToSet(Visited)
      /\ Len(operations) + 1 <= Len(ops) /\ Len(ops) \in Nat
      /\ \A i \in 1 .. Len(operations) : ops[i] = operations[i]
  BY NextCounts
<1>3. Statement.op = "invalid" => ~WellFormed(Visited)
  BY <1>2 DEF WellFormed
<1>4. ASSUME fullMeasured PROVE ~WellFormed(Visited)
  <2>1. "full" \in Kinds(operations)
    BY <1>1, <1>4 DEF FullLast
  <2>2. PICK i \in 1 .. Len(operations) : operations[i].op = "full"
    BY <1>1, <2>1, OperationFacts
  <2>3. Len(operations) \in Nat
    BY <1>1, OperationFacts
  <2>4. i \in 1 .. Len(ops) /\ i # Len(ops) /\ ops[i].op = "full"
    BY <1>2, <2>2, <2>3
  <2>5. DOMAIN ops = 1 .. Len(ops)
    <3>1. Visited \in Seq(Statements)
      <4>1. PICK met \in Seq(Statements), more \in Seq(Statements) :
              Visited = (met \o <<Statement>>) \o more
        BY NextOfUnfolding
      <4>2. Statement \in Statements
        BY <1>1, TopFacts
      <4>3. met \o <<Statement>> \in Seq(Statements)
        BY <4>2
      <4> DEFINE first == met \o <<Statement>>
      <4> HIDE DEF first
      <4>4. first \o more \in Seq(Statements)
        BY <4>3 DEF first
      <4>5. QED
        BY <4>1, <4>4 DEF first
    <3>2. ops \in Seq(Statements)
      BY <3>1, OperationsConcat
    <3> HIDE DEF ops
    <3>3. QED
      BY <3>2
  <2>6. QED
    BY <2>4, <2>5 DEF WellFormed
<1>5. Exceeds(visits + 1, limits.visits) => ~Fits(Visited)
  BY <1>1, <1>2, LimitTypes DEF Exceeds, Fits, Within
<1>6. Exceeds(Len(operations) + 1, limits.operations) => ~Fits(Visited)
  BY <1>1, <1>2, LimitTypes DEF Exceeds, Fits, Within
<1>7. QED
  BY <1>3, <1>4, <1>5, <1>6 DEF OperationRefusal

-----------------------------------------------------------------------------
\* What the runs check of the parser's verdict.
VerdictInv == RefusalsAreExact /\ AcceptedIsUnfolded /\ AcceptedIsExecutable

\* The inductive invariant of a source from parse to verify.
Inv == ParserInv /\ VerdictInv

\* What a program means changes only with the program, the limits and the
\* backend.
LEMMA SameMeaning ==
  ASSUME program' = program, limits' = limits, backend' = backend
  PROVE  /\ Acyclic' = Acyclic /\ WellFormed(Visited)' = WellFormed(Visited)
         /\ Fits(Visited)' = Fits(Visited)
<1>1. Chains' = Chains /\ Visited' = Visited
  BY SameProgram
<1>2. Acyclic' = Acyclic
  BY <1>1 DEF Acyclic
<1>3. Depth' = Depth
  BY <1>1 DEF Depth
<1>4. WellFormed(Visited)' = WellFormed(Visited)
  BY <1>1 DEF WellFormed
<1>5. Fits(Visited)' = Fits(Visited)
  BY <1>1, <1>3 DEF Fits
<1>6. QED
  BY <1>2, <1>4, <1>5

\* It holds before the first statement ...
LEMMA InitInv == ParserInit => Inv
<1> SUFFICES ASSUME ParserInit PROVE Inv
  OBVIOUS
<1>1. ParserTypeOK
  <2>1. Target \in Paths /\ \A bodies \in Programs : bodies \in [Paths -> Seq(Statements)]
    BY PathAssumption
  <2>2. stack \in Seq([path : Paths, at : Nat \ {0}])
    <3>1. Frame(Target, 1) \in [path : Paths, at : Nat \ {0}]
      BY <2>1 DEF Frame
    <3>2. QED
      BY <3>1 DEF ParserInit
  <2>3. program \in [Paths -> Seq(Statements)] /\ backend \in Backends /\ limits \in LimitChoices
    BY <2>1 DEF ParserInit
  <2>4. operations \in Seq(Operations) /\ used \in Seq(Paths)
    BY DEF ParserInit
  <2>5. /\ fullMeasured \in BOOLEAN /\ visits \in Nat
        /\ verdict \in {"parsing", "accepted", "invalid", "limit"}
    BY DEF ParserInit
  <2>6. QED
    BY <2>2, <2>3, <2>4, <2>5 DEF ParserTypeOK
<1>2. /\ Len(stack) = 1 /\ stack[1].path = Target /\ stack[1].at = 1
      /\ program[Target] \in Seq(Statements) /\ Len(program[Target]) \in Nat
  BY PathAssumption DEF ParserInit, Frame
<1>3. Deepest \in 1 .. N /\ N \in Nat
  BY <1>1, DeepestType, PathCount DEF ParserTypeOK
<1>4. Shape
  <2>1. Body(1) = program[Target]
    BY <1>2 DEF Body
  <2>2. 1 \in 1 .. Deepest /\ 1 .. 1 = {1} /\ 1 .. 1 - 1 = {}
    BY <1>3
  <2>3. QED
    BY <1>2, <2>1, <2>2 DEF Shape
<1>5. Walked
  <2>1. Left(1) = Visited /\ Visited \in Seq(Statements)
    <3>1. Left(1) = Inlined(SubSeq(program[Target], 1, Len(program[Target])), Unfold[N - 1])
      BY <1>2 DEF Left, Body
    <3>2. SubSeq(program[Target], 1, Len(program[Target])) = program[Target]
      BY <1>2, SubSeqFull
    <3>3. N \in 1 .. N /\ N \in 0 .. N
      BY <1>3
    <3>4. Unfold[N][Target] = Inlined(program[Target], Unfold[N - 1]) /\ Unfold[N] \in Meanings
      BY <1>1, <3>3, UnfoldEquations, PathAssumption DEF ParserTypeOK
    <3>5. QED
      BY <3>1, <3>2, <3>4, PathAssumption DEF Visited, N, Meanings
  <2> DEFINE rest == [i \in 0 .. 1 |-> IF i = 0 THEN <<>> ELSE Visited]
  <2>2. /\ rest \in [0 .. 1 -> Seq(Statements)] /\ rest[0] = <<>> /\ rest[1] = Visited
        /\ <<>> \in Seq(Statements)
    BY <2>1
  <2>3. Visited \o <<>> = Visited /\ <<>> \o Visited = Visited
    BY <2>1, ConcatEmptySeq
  <2> HIDE DEF rest
  <2>4. rest[1] = Left(1) \o rest[0]
    BY <2>1, <2>2, <2>3
  <2>5. \A i \in 1 .. 1 : rest[i] = Left(i) \o rest[i - 1]
    <3>1. ASSUME NEW i \in 1 .. 1 PROVE i = 1 /\ i - 1 = 0
      OBVIOUS
    <3>2. QED
      BY <2>4, <3>1
  <2>6. Len(<<>>) = 0 /\ 1 .. 0 = {}
    OBVIOUS
  <2>7. operations = OperationsOf(<<>>) /\ used = TargetsOf(<<>>)
    BY OperationsConcat, TargetsConcat DEF ParserInit
  <2>8. visits = 0
    BY DEF ParserInit
  <2>9. QED
    BY <1>2, <2>2, <2>3, <2>5, <2>6, <2>7, <2>8 DEF Walked
<1>6. Explored
  <2>1. \A i \in 1 .. 1 : 1 .. stack[i].at - 1 = {}
    BY <1>2
  <2>2. QED
    BY <1>2, <2>1 DEF Explored
<1>7. Budget
  <2>1. visits = 0 /\ Len(used) = 0 /\ Len(operations) = 0
    BY DEF ParserInit
  <2>2. \A b \in Bounds : Within(0, b)
    BY DEF Bounds, Within
  <2>3. QED
    BY <1>1, <2>1, <2>2, LimitTypes DEF Budget
<1>8. FullLast
  <2>1. operations = <<>> /\ fullMeasured = FALSE
    BY DEF ParserInit
  <2>2. Kinds(<<>>) = {} /\ 1 .. Len(<<>>) - 1 = {}
    BY DEF Kinds, ToSet
  <2>3. QED
    BY <2>1, <2>2 DEF FullLast
<1>9. VerdictInv
  BY DEF ParserInit, VerdictInv, RefusalsAreExact, AcceptedIsUnfolded, AcceptedIsExecutable
<1>10. QED
  BY <1>1, <1>4, <1>5, <1>6, <1>7, <1>8, <1>9 DEF Inv, ParserInv

\* What refuses or accepts a program leaves everything else as it is.
LEMMA SameParser ==
  ASSUME ParserInv, verdict' \in {"parsing", "accepted", "invalid", "limit"},
         UNCHANGED <<program, backend, limits, stack, operations, used, fullMeasured, visits>>
  PROVE  ParserInv'
<1>1. Unfold' = Unfold /\ Chains' = Chains /\ Visited' = Visited /\ Deepest' = Deepest
  BY SameProgram
<1>2. ParserTypeOK'
  BY DEF ParserInv, ParserTypeOK
<1>3. \A i : Body(i)' = Body(i)
  BY DEF Body
<1>4. \A i : Left(i)' = Left(i)
  BY <1>1, <1>3 DEF Left
<1>5. Shape'
  BY <1>1, <1>3 DEF ParserInv, Shape
<1>6. Walked'
  BY <1>1, <1>4 DEF ParserInv, Walked
<1>7. Explored'
  BY <1>1, <1>3 DEF ParserInv, Explored
<1>8. Budget' /\ FullLast'
  BY DEF ParserInv, Budget, FullLast
<1>9. QED
  BY <1>2, <1>5, <1>6, <1>7, <1>8 DEF ParserInv

\* ... a use keeps it ...
LEMMA UseInv ==
  ASSUME ParserInv, Use
  PROVE  Inv'
<1>1. verdict = "parsing" /\ ~AtEnd /\ IsUse(Statement) /\ Statement.op = "use"
  BY DEF Use, IsUse
<1>2. CASE UseRefusal # "none" /\ Refuse(UseRefusal)
  <2>1. UseRefusal \in {"limit", "invalid"}
    BY <1>2 DEF UseRefusal
  <2>2. ParserInv'
    BY <1>2, <2>1, SameParser DEF Refuse
  <2>3. /\ Acyclic' = Acyclic /\ WellFormed(Visited)' = WellFormed(Visited)
        /\ Fits(Visited)' = Fits(Visited)
    BY <1>2, SameMeaning DEF Refuse
  <2>4. verdict' = UseRefusal
    BY <1>2 DEF Refuse
  <2>5. VerdictInv'
    BY <1>1, <2>1, <2>3, <2>4, UseRefusalIsExact
       DEF VerdictInv, RefusalsAreExact, AcceptedIsUnfolded, AcceptedIsExecutable
  <2>6. QED
    BY <2>2, <2>5 DEF Inv
<1>3. CASE /\ UseRefusal = "none"
           /\ stack' = Append(Advanced, Frame(Statement.target, 1))
           /\ used' = Append(used, Statement.target)
           /\ visits' = visits + 1
           /\ UNCHANGED <<program, backend, limits, operations, fullMeasured, verdict>>
  <2>1. ParserTypeOK /\ Shape /\ Walked /\ Explored /\ Budget /\ FullLast
    BY DEF ParserInv
  <2>2. /\ Statement.target \in Paths
        /\ stack' \in Seq(Frames) /\ Len(stack') = Len(stack) + 1
        /\ \A i \in 1 .. Len(stack) :
              /\ stack'[i].path = stack[i].path
              /\ stack'[i].at = IF i = Len(stack) THEN stack[i].at + 1 ELSE stack[i].at
        /\ stack'[Len(stack) + 1] = Frame(Statement.target, 1)
    BY <1>1, <1>3, <2>1, UseStack
  <2>3. Shape'
    BY <1>1, <1>3, <2>1, <2>2, UseShape
  <2>4. Walked'
    BY <1>1, <1>3, <2>1, <2>2, <2>3, UseWalked
  <2>5. Explored'
    BY <1>1, <1>3, <2>1, <2>2, UseExplored
  <2>6. used' \in Seq(Paths) /\ Len(used') = Len(used) + 1
    BY <1>3, <2>1, <2>2 DEF ParserTypeOK
  <2>7. ParserTypeOK'
    BY <1>3, <2>1, <2>2, <2>6 DEF ParserTypeOK, Frames
  <2>8. Budget'
    <3>1. ~Exceeds(visits + 1, limits.visits) /\ ~Exceeds(Len(used) + 1, limits.invocations)
      BY <1>3 DEF UseRefusal
    <3>2. QED
      BY <1>3, <2>1, <2>6, <3>1, LimitTypes DEF Budget, Exceeds, Within
  <2>9. FullLast'
    BY <1>3, <2>1 DEF FullLast
  <2>10. VerdictInv'
    BY <1>1, <1>3 DEF VerdictInv, RefusalsAreExact, AcceptedIsUnfolded, AcceptedIsExecutable
  <2>11. QED
    BY <2>3, <2>4, <2>5, <2>7, <2>8, <2>9, <2>10 DEF Inv, ParserInv
<1>4. QED
  BY <1>2, <1>3 DEF Use

\* ... so does an operation ...
LEMMA AppendInv ==
  ASSUME ParserInv, AppendOperation
  PROVE  Inv'
<1>1. verdict = "parsing" /\ ~AtEnd /\ ~IsUse(Statement)
  BY DEF AppendOperation, IsUse
<1>2. CASE OperationRefusal # "none" /\ Refuse(OperationRefusal)
  <2>1. OperationRefusal \in {"limit", "invalid"}
    BY <1>2 DEF OperationRefusal
  <2>2. ParserInv'
    BY <1>2, <2>1, SameParser DEF Refuse
  <2>3. /\ Acyclic' = Acyclic /\ WellFormed(Visited)' = WellFormed(Visited)
        /\ Fits(Visited)' = Fits(Visited)
    BY <1>2, SameMeaning DEF Refuse
  <2>4. verdict' = OperationRefusal
    BY <1>2 DEF Refuse
  <2>5. VerdictInv'
    BY <1>1, <2>1, <2>3, <2>4, OperationRefusalIsExact
       DEF VerdictInv, RefusalsAreExact, AcceptedIsUnfolded, AcceptedIsExecutable
  <2>6. QED
    BY <2>2, <2>5 DEF Inv
<1>3. CASE /\ OperationRefusal = "none"
           /\ stack' = Advanced
           /\ operations' = Append(operations, Statement)
           /\ fullMeasured' = (fullMeasured \/ Statement.op = "full")
           /\ visits' = visits + 1
           /\ UNCHANGED <<program, backend, limits, used, verdict>>
  <2>1. ParserTypeOK /\ Shape /\ Walked /\ Explored /\ Budget /\ FullLast
    BY DEF ParserInv
  <2>2. Statement \in Operations
    <3>1. Statement \in Statements
      BY <1>1, <2>1, TopFacts
    <3>2. Statement.op # "invalid"
      BY <1>3 DEF OperationRefusal
    <3>3. QED
      BY <1>1, <3>1, <3>2, StatementKinds
  <2>3. /\ stack' \in Seq(Frames) /\ Len(stack') = Len(stack)
        /\ \A i \in 1 .. Len(stack) :
              /\ stack'[i].path = stack[i].path
              /\ stack'[i].at = IF i = Len(stack) THEN stack[i].at + 1 ELSE stack[i].at
        /\ Shape'
    BY <1>1, <1>3, <2>1, AppendStack
  <2>4. Walked'
    BY <1>1, <1>3, <2>1, <2>2, <2>3, AppendWalked
  <2>5. Explored'
    BY <1>1, <1>3, <2>1, <2>3, AppendExplored
  <2>6. /\ operations' \in Seq(Operations) /\ Len(operations') = Len(operations) + 1
        /\ \A i \in 1 .. Len(operations) : operations'[i] = operations[i]
        /\ operations'[Len(operations) + 1] = Statement
        /\ Len(operations) \in Nat
    BY <1>3, <2>1, <2>2 DEF ParserTypeOK
  <2>7. ParserTypeOK'
    BY <1>3, <2>1, <2>3, <2>6 DEF ParserTypeOK, Frames
  <2>8. Budget'
    <3>1. ~Exceeds(visits + 1, limits.visits) /\ ~Exceeds(Len(operations) + 1, limits.operations)
      BY <1>3 DEF OperationRefusal
    <3>2. QED
      BY <1>3, <2>1, <2>6, <3>1, LimitTypes DEF Budget, Exceeds, Within
  <2>9. FullLast'
    <3>1. ~fullMeasured /\ "full" \notin Kinds(operations)
      BY <1>3, <2>1 DEF OperationRefusal, FullLast
    <3>2. Kinds(operations) = {operations[i].op : i \in 1 .. Len(operations)}
      BY <2>1, OperationFacts
    <3>3. Kinds(operations)' = {operations'[i].op : i \in 1 .. Len(operations) + 1}
      <4>1. DOMAIN operations' = 1 .. Len(operations) + 1
        BY <2>6
      <4>2. QED
        BY <4>1 DEF Kinds, ToSet
    <3>4. \A i \in 1 .. Len(operations) + 1 : i \in 1 .. Len(operations) \/ i = Len(operations) + 1
      BY <2>6
    <3>5. \A i \in 1 .. Len(operations) : operations'[i].op # "full"
      BY <2>6, <3>1, <3>2
    <3>6. "full" \in Kinds(operations)' <=> Statement.op = "full"
      BY <2>6, <3>3, <3>4, <3>5
    <3>7. fullMeasured' <=> Statement.op = "full"
      BY <1>3, <3>1
    <3>8. \A i \in 1 .. Len(operations') - 1 : i \in 1 .. Len(operations)
      BY <2>6
    <3>9. QED
      BY <3>5, <3>6, <3>7, <3>8 DEF FullLast
  <2>10. VerdictInv'
    BY <1>1, <1>3 DEF VerdictInv, RefusalsAreExact, AcceptedIsUnfolded, AcceptedIsExecutable
  <2>11. QED
    BY <2>3, <2>4, <2>5, <2>7, <2>8, <2>9, <2>10 DEF Inv, ParserInv
<1>4. QED
  BY <1>2, <1>3 DEF AppendOperation

\* ... the return from a path ...
LEMMA ReturnInv ==
  ASSUME ParserInv, Return
  PROVE  Inv'
<1>1. /\ verdict = "parsing" /\ AtEnd /\ Len(stack) > 1 /\ stack' = Front(stack)
      /\ UNCHANGED <<program, backend, limits, operations, used, fullMeasured, visits, verdict>>
  BY DEF Return
<1>2. ParserTypeOK /\ Shape /\ Walked /\ Explored /\ Budget /\ FullLast
  BY DEF ParserInv
<1>3. /\ stack' \in Seq(Frames) /\ Len(stack') = Len(stack) - 1
      /\ \A i \in 1 .. Len(stack) - 1 : stack'[i] = stack[i]
      /\ Shape'
  BY <1>1, <1>2, ReturnStack
<1>4. Walked'
  BY <1>1, <1>2, <1>3, ReturnWalked
<1>5. Explored'
  BY <1>1, <1>2, <1>3, ReturnExplored
<1>6. ParserTypeOK'
  BY <1>1, <1>2, <1>3 DEF ParserTypeOK, Frames
<1>7. Budget' /\ FullLast'
  BY <1>1, <1>2 DEF Budget, FullLast
<1>8. VerdictInv'
  BY <1>1 DEF VerdictInv, RefusalsAreExact, AcceptedIsUnfolded, AcceptedIsExecutable
<1>9. QED
  BY <1>3, <1>4, <1>5, <1>6, <1>7, <1>8 DEF Inv, ParserInv

\* Preflight's validation agrees with the parser's.
LEMMA CompleteIsValid ==
  ASSUME ParserInv, Complete
  PROVE  ValidProgram /\ Measured <=>
           /\ Width <= MaxRegister /\ BitWidth <= MaxRegister /\ Shots <= MaxShots
           /\ Len(operations) <= MaxOperations
           /\ backend = "densitymatrix" => Kinds(operations) \subseteq {"gate", "noise", "full"}
<1>1. ParserTypeOK /\ FullLast
  BY DEF ParserInv
<1>2. /\ Kinds(operations) \subseteq OperationKinds
      /\ Kinds(operations) = {operations[i].op : i \in 1 .. Len(operations)}
      /\ \A i \in 1 .. Len(operations) : operations[i] \in Operations
  BY <1>1, OperationFacts
<1>3. "full" \in Kinds(operations) => BitWidth >= Width
  <2>1. \A o \in Operations : o.op = "full" => Width <= BitWidth
    BY DEF Operations
  <2>2. QED
    BY <1>2, <2>1, WidthAssumption
<1>4. \A i \in 1 .. Len(operations) - 1 : operations[i].op # "full"
  BY <1>1 DEF FullLast
<1>5. Measured
  BY DEF Complete, Measured
<1>6. Kinds(operations) \cap {"conditional", "assert", "measure"} = {}
        <=> Kinds(operations) \subseteq {"gate", "noise", "full"}
  BY <1>2 DEF OperationKinds
<1>7. backend = "statevector" => "noise" \notin Kinds(operations)
  BY DEF Complete
<1>8. QED
  BY <1>3, <1>4, <1>5, <1>6, <1>7 DEF ValidProgram

\* ... the checks at the end ...
LEMMA FinishInv ==
  ASSUME ParserInv, Finish
  PROVE  Inv'
<1>1. /\ AtEnd /\ Len(stack) = 1
      /\ verdict' = IF Complete THEN "accepted" ELSE "invalid"
      /\ UNCHANGED <<program, backend, limits, stack, operations, used, fullMeasured, visits>>
  BY DEF Finish
<1>2. ParserInv'
  BY <1>1, SameParser
<1>3. /\ Acyclic' = Acyclic /\ WellFormed(Visited)' = WellFormed(Visited)
      /\ Fits(Visited)' = Fits(Visited) /\ Visited' = Visited
  BY <1>1, SameMeaning, SameProgram
<1>4. Acyclic /\ Fits(Visited) /\ (Complete <=> WellFormed(Visited))
  BY <1>1, EndIsAcyclic, EndFits, EndIsWellFormed
<1>5. RefusalsAreExact'
  BY <1>1, <1>3, <1>4 DEF RefusalsAreExact
<1>6. AcceptedIsUnfolded'
  BY <1>1, <1>3, EndIsUnfolding DEF AcceptedIsUnfolded
<1>7. AcceptedIsExecutable'
  <2>1. ValidProgram' = ValidProgram /\ Measured' = Measured
    BY <1>1 DEF Kinds, ValidProgram, Measured
  <2>2. operations = OperationsOf(Visited)
    BY <1>1, EndIsUnfolding
  <2>3. verdict' = "accepted" => Complete
    BY <1>1
  <2>4. QED
    BY <1>1, <1>3, <2>1, <2>2, <2>3, CompleteIsValid DEF AcceptedIsExecutable, Kinds
<1>8. QED
  BY <1>2, <1>5, <1>6, <1>7 DEF Inv, VerdictInv

\* ... and whatever leaves the parser alone.
LEMMA SameInv ==
  ASSUME Inv, UNCHANGED parserVars
  PROVE  Inv'
<1>1. UNCHANGED <<program, backend, limits, stack, operations, used, fullMeasured, visits, verdict>>
  BY DEF parserVars
<1>2. ParserInv'
  BY <1>1, SameParser DEF Inv, ParserInv, ParserTypeOK
<1>3. /\ Acyclic' = Acyclic /\ WellFormed(Visited)' = WellFormed(Visited)
      /\ Fits(Visited)' = Fits(Visited) /\ Visited' = Visited
  BY <1>1, SameMeaning, SameProgram
<1>4. RefusalsAreExact' /\ AcceptedIsUnfolded'
  BY <1>1, <1>3 DEF Inv, VerdictInv, RefusalsAreExact, AcceptedIsUnfolded
<1>5. AcceptedIsExecutable'
  <2>1. ValidProgram' = ValidProgram /\ Measured' = Measured
    BY <1>1 DEF Kinds, ValidProgram, Measured
  <2>2. QED
    BY <1>1, <1>3, <2>1 DEF Inv, VerdictInv, AcceptedIsExecutable
<1>6. QED
  BY <1>2, <1>4, <1>5 DEF Inv, VerdictInv

\* Execution never touches the operations or the backend.
LEMMA ExecuteKeepsSource == Execute => UNCHANGED <<operations, backend>>
BY DEF Execute, RefuseProgram, BlockProgram, Unsupported, Begin, RunStatic, StartShot, PassPrepared,
       ApplyGate, SkipConditional, AssertBit, MeasureQubit, MeasureRegister, EndShot, Conclude,
       AllocationFails, Verify, End, Account, source

\* For every program, limits and backend: in every reachable state the parser's
\* invariant holds, and with it everything the runs check of its verdict.
THEOREM ParserIsExact == Spec => []Inv
<1>1. Init => Inv
  BY InitInv DEF Init
<1>2. Inv /\ [Next]_vars => Inv'
  <2> SUFFICES ASSUME Inv, [Next]_vars PROVE Inv'
    OBVIOUS
  <2>1. ParserInv
    BY DEF Inv
  <2>2. CASE ParseStep
    BY <2>1, <2>2, UseInv, AppendInv, ReturnInv, FinishInv DEF ParseStep, Parse
  <2>3. CASE RunStep
    BY <2>3, ExecuteKeepsSource, SameInv DEF RunStep, parserVars
  <2>4. CASE Done \/ UNCHANGED vars
    BY <2>4, SameInv DEF Done, vars, executionVars, source, parserVars
  <2>5. QED
    BY <2>2, <2>3, <2>4 DEF Next
<1>3. QED
  BY <1>1, <1>2, PTL DEF Spec

\* What append_body puts together is the unfolding of the verified path, every
\* operation of every use in order and as often as it is used, whatever the paths.
THEOREM AcceptedProgramIsUnfolded == Spec => []AcceptedIsUnfolded
<1>1. Inv => AcceptedIsUnfolded
  BY DEF Inv, VerdictInv
<1>2. QED
  BY <1>1, ParserIsExact, PTL

\* parse accepts exactly the programs whose uses end and whose unfolding keeps the
\* rules and the limits; it blames a limit only if the unfolding breaks one.
THEOREM ParserRefusalsAreExact == Spec => []RefusalsAreExact
<1>1. Inv => RefusalsAreExact
  BY DEF Inv, VerdictInv
<1>2. QED
  BY <1>1, ParserIsExact, PTL

\* Preflight's structural validation refuses of what the parser accepts exactly what is
\* beyond its ceilings, and what the density-matrix backend does not run: whatever the
\* ceilings, the sizes and the paths, as told by the unfolding of the verified path.
THEOREM AcceptedProgramIsExecutable == Spec => []AcceptedIsExecutable
<1>1. Inv => AcceptedIsExecutable
  BY DEF Inv, VerdictInv
<1>2. QED
  BY <1>1, ParserIsExact, PTL

-----------------------------------------------------------------------------
(* The simulator's arithmetic: powers of two, the bits of an index, and    *)
(* that a gate takes a state to a state.                                   *)

\* There are powers of two.
LEMMA PowerExists ==
  ASSUME NEW m \in Nat
  PROVE  \E f : f = [k \in 0 .. m |-> IF k = 0 THEN 1 ELSE 2 * f[k - 1]]
<1> DEFINE Value(f, k) == IF k = 0 THEN 1 ELSE 2 * f[k - 1]
           P == {n \in Nat : \E f : f = [k \in 0 .. n |-> Value(f, k)]}
<1>1. 0 \in P
  <2> DEFINE f == [k \in 0 .. 0 |-> Value(<<>>, k)]
  <2>1. \A k \in 0 .. 0 : Value(f, k) = Value(<<>>, k)
    OBVIOUS
  <2>2. f = [k \in 0 .. 0 |-> Value(f, k)]
    <3> HIDE DEF Value
    <3>1. QED
      BY <2>1
  <2> HIDE DEF f
  <2>3. QED
    BY <2>2
<1>2. ASSUME NEW n \in Nat, n \in P PROVE n + 1 \in P
  <2>1. PICK f : f = [k \in 0 .. n |-> Value(f, k)]
    BY <1>2
  <2> DEFINE g == [k \in 0 .. n + 1 |-> IF k <= n THEN f[k] ELSE Value(f, k)]
  <2>2. ASSUME NEW k \in 0 .. n + 1 PROVE g[k] = Value(g, k)
    <3>1. k # 0 => g[k - 1] = f[k - 1]
      OBVIOUS
    <3>2. Value(g, k) = Value(f, k)
      BY <3>1
    <3> HIDE DEF Value
    <3>3. k <= n => f[k] = Value(f, k)
      BY <2>1
    <3>4. g[k] = Value(f, k)
      BY <3>3
    <3>5. QED
      BY <3>2, <3>4
  <2>3. g = [k \in 0 .. n + 1 |-> g[k]]
    OBVIOUS
  <2> HIDE DEF g, Value
  <2>4. g = [k \in 0 .. n + 1 |-> Value(g, k)]
    BY <2>2, <2>3
  <2>5. QED
    BY <2>4
<1>3. m \in P
  <2> HIDE DEF P
  <2>1. QED
    BY <1>1, <1>2, Induction
<1>4. QED
  BY <1>3

\* The equations of Power.
LEMMA PowerEquations ==
  /\ Power[0] = 1 /\ \A n \in 1 .. Width : Power[n] = 2 * Power[n - 1]
  /\ \A n \in 0 .. Width : Power[n] \in Nat \ {0}
<1>1. Power = [k \in 0 .. Width |-> IF k = 0 THEN 1 ELSE 2 * Power[k - 1]]
  <2>1. Width \in Nat
    BY WidthAssumption
  <2>2. \E f : f = [k \in 0 .. Width |-> IF k = 0 THEN 1 ELSE 2 * f[k - 1]]
    BY <2>1, PowerExists
  <2>3. QED
    BY <2>2, Zenon DEF Power
<1>2. Power[0] = 1 /\ \A n \in 1 .. Width : Power[n] = 2 * Power[n - 1]
  BY <1>1, WidthAssumption
<1> DEFINE P == {n \in Nat : n <= Width => Power[n] \in Nat \ {0}}
<1>3. 0 \in P
  BY <1>2
<1>4. ASSUME NEW n \in Nat, n \in P PROVE n + 1 \in P
  <2>1. SUFFICES ASSUME n + 1 <= Width PROVE Power[n + 1] \in Nat \ {0}
    OBVIOUS
  <2>2. n <= Width /\ n + 1 \in 1 .. Width /\ (n + 1) - 1 = n
    BY <2>1, WidthAssumption
  <2>3. Power[n] \in Nat \ {0} /\ Power[n + 1] = 2 * Power[n]
    BY <1>2, <1>4, <2>2
  <2>4. QED
    BY <2>3
<1>5. \A n \in Nat : n \in P
  <2> HIDE DEF P
  <2>1. QED
    BY <1>3, <1>4, Induction
<1>6. QED
  BY <1>2, <1>5, WidthAssumption

\* A power splits where its exponent does.
LEMMA PowerOfSum ==
  ASSUME NEW n \in 0 .. Width, NEW d \in 0 .. Width - n
  PROVE  Power[n + d] = Power[n] * Power[d]
<1> DEFINE P == {e \in Nat : e <= Width - n => Power[n + e] = Power[n] * Power[e]}
<1>1. 0 \in P
  BY PowerEquations
<1>2. ASSUME NEW e \in Nat, e \in P PROVE e + 1 \in P
  <2>1. SUFFICES ASSUME e + 1 <= Width - n PROVE Power[n + (e + 1)] = Power[n] * Power[e + 1]
    OBVIOUS
  <2>2. /\ e <= Width - n /\ e + 1 \in 1 .. Width /\ n + (e + 1) \in 1 .. Width /\ n + e \in 0 .. Width
        /\ e \in 0 .. Width /\ (e + 1) - 1 = e /\ (n + (e + 1)) - 1 = n + e
    BY <2>1, WidthAssumption
  <2>3. /\ Power[n + (e + 1)] = 2 * Power[n + e] /\ Power[e + 1] = 2 * Power[e]
        /\ Power[n + e] = Power[n] * Power[e]
    BY <1>2, <2>2, PowerEquations
  <2>4. Power[n] \in Nat /\ Power[e] \in Nat
    BY <2>2, PowerEquations
  <2>5. QED
    BY <2>3, <2>4
<1>3. d \in P
  <2> HIDE DEF P
  <2>1. d \in Nat
    BY WidthAssumption
  <2>2. QED
    BY <1>1, <1>2, <2>1, Induction
<1>4. QED
  BY <1>3

\* An index is a quotient and a rest of a qubit's stride, and flipping the qubit stays within the basis.
LEMMA BitsOfIndex ==
  ASSUME NEW i \in Basis, NEW q \in Qubits
  PROVE  Bit(i, q) \in {0, 1} /\ Flip(i, q) \in Basis /\ i \in Nat
<1> DEFINE S == Stride(q)
           M == Power[q]
           k == i \div S
<1>1. q \in 0 .. Width - 1 /\ Width \in Nat \ {0}
  BY WidthAssumption DEF Qubits
<1>2. S \in Nat \ {0} /\ M \in Nat \ {0} /\ Power[Width] = 2 * (M * S)
  <2>1. /\ Width - 1 - q \in 0 .. Width /\ q + 1 \in 0 .. Width /\ q + 1 \in 1 .. Width /\ q \in 0 .. Width
        /\ Width - 1 - q \in 0 .. Width - (q + 1) /\ (q + 1) + (Width - 1 - q) = Width /\ (q + 1) - 1 = q
    BY <1>1
  <2>2. S \in Nat \ {0} /\ M \in Nat \ {0} /\ Power[q + 1] = 2 * M
    BY <2>1, PowerEquations DEF Stride
  <2>3. Power[Width] = Power[q + 1] * S
    BY <2>1, PowerOfSum DEF Stride
  <2> HIDE DEF S, M
  <2>4. QED
    BY <2>2, <2>3
<1>3. i \in Nat /\ i < Power[Width]
  BY <1>2 DEF Basis
<1> HIDE DEF S, M
<1>4. k \in Nat /\ k * S <= i /\ i < k * S + S
  BY <1>2, <1>3
<1> HIDE DEF k
<1>5. k < 2 * M
  <2>1. SUFFICES ASSUME k >= 2 * M PROVE FALSE
    BY <1>2, <1>4
  <2>2. k * S >= (2 * M) * S
    BY <1>2, <1>4, <2>1
  <2>3. (2 * M) * S = 2 * (M * S)
    BY <1>2
  <2>4. QED
    BY <1>2, <1>3, <1>4, <2>2, <2>3
<1>6. k % 2 \in {0, 1} /\ Bit(i, q) = k % 2
  BY <1>4 DEF Bit, S, k
<1>7. CASE Bit(i, q) = 0
  <2>1. k + 1 < 2 * M
    BY <1>2, <1>4, <1>5, <1>6, <1>7
  <2>2. (k + 2) * S <= (2 * M) * S
    BY <1>2, <1>4, <2>1
  <2>3. (2 * M) * S = 2 * (M * S) /\ (k + 2) * S = k * S + 2 * S /\ k * S \in Nat
    BY <1>2, <1>4
  <2>4. i + S < Power[Width]
    BY <1>2, <1>3, <1>4, <2>2, <2>3
  <2>5. Flip(i, q) = i + S /\ i + S \in Nat
    BY <1>2, <1>3, <1>7 DEF Flip, S
  <2>6. QED
    BY <1>2, <1>3, <1>6, <2>4, <2>5 DEF Basis
<1>8. CASE Bit(i, q) # 0
  <2>1. k >= 1
    BY <1>4, <1>6, <1>8
  <2>2. k * S >= S
    BY <1>2, <1>4, <2>1
  <2>3. i - S \in Nat /\ i - S < Power[Width]
    BY <1>2, <1>3, <1>4, <2>2
  <2>4. Flip(i, q) = i - S
    BY <1>8 DEF Flip, S
  <2>5. QED
    BY <1>2, <1>3, <1>6, <2>3, <2>4 DEF Basis
<1>9. QED
  BY <1>7, <1>8

\* There are powers of w.
LEMMA TurnedExists ==
  ASSUME NEW a, NEW m \in Nat
  PROVE  \E f : f = [k \in 0 .. m |-> IF k = 0 THEN a ELSE <<-f[k-1][4], f[k-1][1], f[k-1][2], f[k-1][3]>>]
<1> DEFINE Value(f, k) == IF k = 0 THEN a ELSE <<-f[k-1][4], f[k-1][1], f[k-1][2], f[k-1][3]>>
           P == {n \in Nat : \E f : f = [k \in 0 .. n |-> Value(f, k)]}
<1>1. 0 \in P
  <2> DEFINE f == [k \in 0 .. 0 |-> Value(<<>>, k)]
  <2>1. \A k \in 0 .. 0 : Value(f, k) = Value(<<>>, k)
    OBVIOUS
  <2>2. f = [k \in 0 .. 0 |-> Value(f, k)]
    <3> HIDE DEF Value
    <3>1. QED
      BY <2>1
  <2> HIDE DEF f
  <2>3. QED
    BY <2>2
<1>2. ASSUME NEW n \in Nat, n \in P PROVE n + 1 \in P
  <2>1. PICK f : f = [k \in 0 .. n |-> Value(f, k)]
    BY <1>2
  <2> DEFINE g == [k \in 0 .. n + 1 |-> IF k <= n THEN f[k] ELSE Value(f, k)]
  <2>2. ASSUME NEW k \in 0 .. n + 1 PROVE g[k] = Value(g, k)
    <3>1. k # 0 => g[k - 1] = f[k - 1]
      OBVIOUS
    <3>2. Value(g, k) = Value(f, k)
      BY <3>1
    <3> HIDE DEF Value
    <3>3. k <= n => f[k] = Value(f, k)
      BY <2>1
    <3>4. g[k] = Value(f, k)
      BY <3>3
    <3>5. QED
      BY <3>2, <3>4
  <2>3. g = [k \in 0 .. n + 1 |-> g[k]]
    OBVIOUS
  <2> HIDE DEF g, Value
  <2>4. g = [k \in 0 .. n + 1 |-> Value(g, k)]
    BY <2>2, <2>3
  <2>5. QED
    BY <2>4
<1>3. m \in P
  <2> HIDE DEF P
  <2>1. QED
    BY <1>1, <1>2, Induction
<1>4. QED
  BY <1>3

Amplitudes == [1 .. 4 -> Int]
States == [Basis -> Amplitudes]

\* The one-qubit gates take four numbers to four numbers.
LEMMA TurnedType ==
  ASSUME NEW a \in Amplitudes, NEW m \in Nat
  PROVE  Turned(a, m) \in Amplitudes
<1> DEFINE Is(t) == t = [k \in 0 .. m |-> IF k = 0 THEN a ELSE <<-t[k-1][4], t[k-1][1], t[k-1][2], t[k-1][3]>>]
<1>1. PICK t : Is(t) /\ Turned(a, m) = t[m]
  <2>1. \E t : Is(t)
    BY TurnedExists
  <2>2. Turned(a, m) = (CHOOSE t : Is(t))[m]
    BY Zenon DEF Turned
  <2> HIDE DEF Is
  <2>3. QED
    BY <2>1, <2>2
<1> DEFINE P == {n \in Nat : n <= m => t[n] \in Amplitudes}
<1>2. 0 \in P
  <2>1. t[0] = a
    BY <1>1
  <2>2. QED
    BY <2>1
<1>3. ASSUME NEW n \in Nat, n \in P PROVE n + 1 \in P
  <2>1. SUFFICES ASSUME n + 1 <= m PROVE t[n + 1] \in Amplitudes
    OBVIOUS
  <2>2. t[n] \in Amplitudes
    BY <1>3, <2>1
  <2>3. t[n + 1] = <<-t[n][4], t[n][1], t[n][2], t[n][3]>>
    BY <1>1, <2>1
  <2>4. QED
    BY <2>2, <2>3 DEF Amplitudes
<1>4. m \in P
  <2> HIDE DEF P
  <2>1. QED
    BY <1>2, <1>3, Induction
<1>5. QED
  BY <1>1, <1>4

\* A gate on one qubit takes a state to a state.
LEMMA ApplyOneType ==
  ASSUME NEW v \in States, NEW gate \in OneQubit, NEW q \in Qubits
  PROVE  ApplyOne(v, gate, q) \in States
<1>1. \A i \in Basis : v[i] \in Amplitudes /\ v[Flip(i, q)] \in Amplitudes
  BY BitsOfIndex DEF States
<1>2. \A a \in Amplitudes : \A n \in {0, 1, 2, 4, 6} : Turned(a, n) \in Amplitudes
  BY TurnedType
<1>3. \A a, b \in Amplitudes : Plus(a, b) \in Amplitudes /\ Minus(a, b) \in Amplitudes
  BY DEF Amplitudes, Plus, Minus
<1>4. ASSUME NEW i \in Basis
      PROVE  (LET turned == Bit(i, q) = 1
              IN  CASE gate = "X" -> v[Flip(i, q)]
                    [] gate = "Y" -> Turned(v[Flip(i, q)], IF turned THEN 2 ELSE 6)
                    [] gate = "Z" -> Turned(v[i], IF turned THEN 4 ELSE 0)
                    [] gate = "S" -> Turned(v[i], IF turned THEN 2 ELSE 0)
                    [] gate = "T" -> Turned(v[i], IF turned THEN 1 ELSE 0)
                    [] gate = "H" -> IF turned THEN Minus(v[Flip(i, q)], v[i]) ELSE Plus(v[i], v[Flip(i, q)])) \in Amplitudes
  BY <1>1, <1>2, <1>3 DEF OneQubit
<1>5. QED
  BY <1>4 DEF ApplyOne, States

\* A gate on two qubits takes a state to a state.
LEMMA ApplyTwoType ==
  ASSUME NEW v \in States, NEW gate \in TwoQubit, NEW p \in Qubits, NEW q \in Qubits
  PROVE  ApplyTwo(v, gate, p, q) \in States
<1>1. ASSUME NEW i \in Basis
      PROVE  (CASE gate = "CX"   -> v[IF Bit(i, p) = 1 THEN Flip(i, q) ELSE i]
                [] gate = "CZ"   -> Turned(v[i], 4 * Bit(i, p) * Bit(i, q))
                [] gate = "SWAP" -> v[Exchange(i, p, q)]) \in Amplitudes
  <2>1. /\ Bit(i, p) \in {0, 1} /\ Bit(i, q) \in {0, 1} /\ Flip(i, q) \in Basis
        /\ Flip(i, p) \in Basis /\ Flip(Flip(i, p), q) \in Basis
    BY BitsOfIndex
  <2>2. Exchange(i, p, q) \in Basis
    BY <2>1 DEF Exchange
  <2>3. 4 * Bit(i, p) * Bit(i, q) \in Nat
    BY <2>1
  <2>4. Turned(v[i], 4 * Bit(i, p) * Bit(i, q)) \in Amplitudes
    BY <2>3, TurnedType DEF States
  <2>5. QED
    BY <2>1, <2>2, <2>4 DEF TwoQubit, States
<1>2. QED
  BY <1>1 DEF ApplyTwo, States

\* Any gate does.
LEMMA ApplyType ==
  ASSUME NEW v \in States, NEW o \in Operations, o.op \in {"gate", "conditional"}
  PROVE  Apply(v, o) \in States
<1>1. CASE o.gate \in OneQubit /\ o.qubits \in [1 .. 1 -> Qubits]
  <2>1. o.qubits[1] \in Qubits
    BY <1>1
  <2>2. QED
    BY <1>1, <2>1, ApplyOneType DEF Apply
<1>2. CASE o.gate \in TwoQubit /\ o.qubits \in [1 .. 2 -> Qubits]
  <2>1. o.qubits[1] \in Qubits /\ o.qubits[2] \in Qubits /\ o.gate \notin OneQubit
    BY <1>2 DEF OneQubit, TwoQubit
  <2>2. QED
    BY <1>2, <2>1, ApplyTwoType DEF Apply
<1>3. QED
  BY <1>1, <1>2 DEF Operations

\* The ground state is a state.
LEMMA GroundType == Ground \in States
BY DEF Ground, States, Amplitudes, Nought

-----------------------------------------------------------------------------
(* What a shot is: its recursion, and what one operation does to it.       *)

\* There is the play of any number of operations.
LEMMA PlayExists ==
  ASSUME NEW outcomes, NEW m \in Nat
  PROVE  \E f : f = [k \in 0 .. m |-> IF k = 0 THEN Begun(outcomes) ELSE PlayOne(f[k - 1], operations[k])]
<1> DEFINE Value(f, k) == IF k = 0 THEN Begun(outcomes) ELSE PlayOne(f[k - 1], operations[k])
           P == {n \in Nat : \E f : f = [k \in 0 .. n |-> Value(f, k)]}
<1>1. 0 \in P
  <2> DEFINE f == [k \in 0 .. 0 |-> Value(<<>>, k)]
  <2>1. \A k \in 0 .. 0 : Value(f, k) = Value(<<>>, k)
    OBVIOUS
  <2>2. f = [k \in 0 .. 0 |-> Value(f, k)]
    <3> HIDE DEF Value
    <3>1. QED
      BY <2>1
  <2> HIDE DEF f
  <2>3. QED
    BY <2>2
<1>2. ASSUME NEW n \in Nat, n \in P PROVE n + 1 \in P
  <2>1. PICK f : f = [k \in 0 .. n |-> Value(f, k)]
    BY <1>2
  <2> DEFINE g == [k \in 0 .. n + 1 |-> IF k <= n THEN f[k] ELSE Value(f, k)]
  <2>2. ASSUME NEW k \in 0 .. n + 1 PROVE g[k] = Value(g, k)
    <3>1. k # 0 => g[k - 1] = f[k - 1]
      OBVIOUS
    <3>2. Value(g, k) = Value(f, k)
      BY <3>1
    <3> HIDE DEF Value
    <3>3. k <= n => f[k] = Value(f, k)
      BY <2>1
    <3>4. g[k] = Value(f, k)
      BY <3>3
    <3>5. QED
      BY <3>2, <3>4
  <2>3. g = [k \in 0 .. n + 1 |-> g[k]]
    OBVIOUS
  <2> HIDE DEF g, Value
  <2>4. g = [k \in 0 .. n + 1 |-> Value(g, k)]
    BY <2>2, <2>3
  <2>5. QED
    BY <2>4
<1>3. m \in P
  <2> HIDE DEF P
  <2>1. QED
    BY <1>1, <1>2, Induction
<1>4. QED
  BY <1>3

\* A play begins in the ground state, and takes one operation at a time.
LEMMA PlayEquations ==
  ASSUME NEW outcomes
  PROVE  /\ PlayTo(outcomes, 0) = Begun(outcomes)
         /\ \A n \in Nat : PlayTo(outcomes, n + 1) = PlayOne(PlayTo(outcomes, n), operations[n + 1])
<1> DEFINE Value(f, k) == IF k = 0 THEN Begun(outcomes) ELSE PlayOne(f[k - 1], operations[k])
           f(n) == CHOOSE g : g = [k \in 0 .. n |-> Value(g, k)]
<1>1. \A n \in Nat : PlayTo(outcomes, n) = f(n)[n]
  BY Zenon DEF PlayTo
<1>2. \A n \in Nat : f(n) = [k \in 0 .. n |-> Value(f(n), k)]
  <2>1. ASSUME NEW n \in Nat PROVE f(n) = [k \in 0 .. n |-> Value(f(n), k)]
    <3>1. \E g : g = [k \in 0 .. n |-> Value(g, k)]
      BY PlayExists
    <3> HIDE DEF Value
    <3>2. QED
      BY <3>1, Zenon
  <2>2. QED
    BY <2>1
<1> HIDE DEF f
<1>3. \A n \in Nat : f(n)[0] = Begun(outcomes)
  BY <1>2
<1>4. \A n \in Nat : \A k \in 1 .. n : f(n)[k] = PlayOne(f(n)[k - 1], operations[k])
  BY <1>2
<1>5. ASSUME NEW n \in Nat PROVE \A k \in 0 .. n : f(n + 1)[k] = f(n)[k]
  <2> DEFINE P == {k \in Nat : k <= n => f(n + 1)[k] = f(n)[k]}
  <2>1. 0 \in P
    BY <1>3
  <2>2. ASSUME NEW k \in Nat, k \in P PROVE k + 1 \in P
    <3>1. SUFFICES ASSUME k + 1 <= n PROVE f(n + 1)[k + 1] = f(n)[k + 1]
      OBVIOUS
    <3>2. k + 1 \in 1 .. n /\ k + 1 \in 1 .. n + 1 /\ (k + 1) - 1 = k /\ k <= n /\ n + 1 \in Nat
      BY <3>1
    <3>3. f(n + 1)[k] = f(n)[k]
      BY <2>2, <3>2
    <3>4. QED
      BY <1>4, <3>2, <3>3
  <2>3. \A k \in Nat : k \in P
    <3> HIDE DEF P
    <3>1. QED
      BY <2>1, <2>2, Induction
  <2>4. QED
    BY <2>3
<1>6. ASSUME NEW n \in Nat PROVE PlayTo(outcomes, n + 1) = PlayOne(PlayTo(outcomes, n), operations[n + 1])
  <2>1. n + 1 \in 1 .. n + 1 /\ n + 1 \in Nat /\ (n + 1) - 1 = n /\ n \in 0 .. n
    OBVIOUS
  <2>2. f(n + 1)[n + 1] = PlayOne(f(n + 1)[n], operations[n + 1])
    BY <1>4, <2>1
  <2>3. f(n + 1)[n] = f(n)[n]
    BY <1>5, <2>1
  <2>4. QED
    BY <1>1, <2>1, <2>2, <2>3
<1>7. QED
  BY <1>1, <1>3, <1>6

\* There is the state after any number of gates.
LEMMA PrepareExists ==
  ASSUME NEW m \in Nat
  PROVE  \E f : f = [k \in 0 .. m |-> IF k = 0 THEN Ground ELSE Apply(f[k - 1], operations[k])]
<1> DEFINE Value(f, k) == IF k = 0 THEN Ground ELSE Apply(f[k - 1], operations[k])
           P == {n \in Nat : \E f : f = [k \in 0 .. n |-> Value(f, k)]}
<1>1. 0 \in P
  <2> DEFINE f == [k \in 0 .. 0 |-> Value(<<>>, k)]
  <2>1. \A k \in 0 .. 0 : Value(f, k) = Value(<<>>, k)
    OBVIOUS
  <2>2. f = [k \in 0 .. 0 |-> Value(f, k)]
    <3> HIDE DEF Value
    <3>1. QED
      BY <2>1
  <2> HIDE DEF f
  <2>3. QED
    BY <2>2
<1>2. ASSUME NEW n \in Nat, n \in P PROVE n + 1 \in P
  <2>1. PICK f : f = [k \in 0 .. n |-> Value(f, k)]
    BY <1>2
  <2> DEFINE g == [k \in 0 .. n + 1 |-> IF k <= n THEN f[k] ELSE Value(f, k)]
  <2>2. ASSUME NEW k \in 0 .. n + 1 PROVE g[k] = Value(g, k)
    <3>1. k # 0 => g[k - 1] = f[k - 1]
      OBVIOUS
    <3>2. Value(g, k) = Value(f, k)
      BY <3>1
    <3> HIDE DEF Value
    <3>3. k <= n => f[k] = Value(f, k)
      BY <2>1
    <3>4. g[k] = Value(f, k)
      BY <3>3
    <3>5. QED
      BY <3>2, <3>4
  <2>3. g = [k \in 0 .. n + 1 |-> g[k]]
    OBVIOUS
  <2> HIDE DEF g, Value
  <2>4. g = [k \in 0 .. n + 1 |-> Value(g, k)]
    BY <2>2, <2>3
  <2>5. QED
    BY <2>4
<1>3. m \in P
  <2> HIDE DEF P
  <2>1. QED
    BY <1>1, <1>2, Induction
<1>4. QED
  BY <1>3

\* The prepared state begins as the ground state, and takes one gate at a time.
LEMMA PrepareEquations ==
  ASSUME PrefixLength \in Nat
  PROVE  \E s : /\ s[0] = Ground /\ Prepare = s[PrefixLength]
                /\ \A n \in 1 .. PrefixLength : s[n] = Apply(s[n - 1], operations[n])
<1> DEFINE m == PrefixLength
           Is(f) == f = [k \in 0 .. m |-> IF k = 0 THEN Ground ELSE Apply(f[k - 1], operations[k])]
<1> HIDE DEF m
<1>1. m \in Nat
  BY DEF m
<1>2. \E f : Is(f)
  BY <1>1, PrepareExists
<1>3. Prepare = (CHOOSE f : Is(f))[m]
  BY Zenon DEF Prepare, m
<1>4. PICK f : Is(f) /\ Prepare = f[m]
  <2> HIDE DEF Is
  <2>1. QED
    BY <1>2, <1>3
<1>5. f[0] = Ground /\ \A n \in 1 .. m : f[n] = Apply(f[n - 1], operations[n])
  BY <1>1, <1>4
<1>6. QED
  BY <1>4, <1>5 DEF m

Sure == TRUE

\* A play all of whose outcomes were possible so far.
Playing(s, b, l, m, g) ==
  [state |-> s, bits |-> b, left |-> l, met |-> m, possible |-> Sure, log |-> g]

\* The outcomes are drawn from the front.
LEMMA DrawnFirst ==
  ASSUME NEW S, NEW d \in Seq(S), NEW rest \in Seq(S)
  PROVE  /\ SubSeq(d \o rest, 1, Len(d)) = d
         /\ SubSeq(d \o rest, Len(d) + 1, Len(d \o rest)) = rest
<1> DEFINE all == d \o rest
<1>1. /\ all \in Seq(S) /\ Len(all) = Len(d) + Len(rest) /\ Len(d) \in Nat /\ Len(rest) \in Nat
      /\ \A i \in 1 .. Len(d) + Len(rest) : all[i] = IF i <= Len(d) THEN d[i] ELSE rest[i - Len(d)]
  BY ConcatProperties, LenProperties
<1> HIDE DEF all
<1>2. SubSeq(all, 1, Len(d)) = d
  <2>1. /\ SubSeq(all, 1, Len(d)) \in Seq(S) /\ Len(SubSeq(all, 1, Len(d))) = Len(d)
        /\ \A i \in 1 .. Len(d) : SubSeq(all, 1, Len(d))[i] = all[i]
    BY <1>1, SubSeqProperties
  <2>2. QED
    BY <1>1, <2>1, SeqEqual
<1>3. SubSeq(all, Len(d) + 1, Len(all)) = rest
  <2> DEFINE t == SubSeq(all, Len(d) + 1, Len(all))
  <2>1. t \in Seq(S) /\ Len(t) = Len(rest) /\ \A i \in 1 .. Len(rest) : t[i] = all[Len(d) + 1 + i - 1]
    BY <1>1, SubSeqProperties
  <2> HIDE DEF t
  <2>2. ASSUME NEW i \in 1 .. Len(rest) PROVE t[i] = rest[i]
    <3>1. /\ Len(d) + 1 + i - 1 \in 1 .. Len(d) + Len(rest) /\ ~(Len(d) + 1 + i - 1 <= Len(d))
          /\ (Len(d) + 1 + i - 1) - Len(d) = i
      BY <1>1
    <3>2. t[i] = all[Len(d) + 1 + i - 1]
      BY <2>1
    <3>3. all[Len(d) + 1 + i - 1] = rest[(Len(d) + 1 + i - 1) - Len(d)]
      BY <1>1, <3>1
    <3>4. QED
      BY <3>1, <3>2, <3>3
  <2>3. QED
    BY <1>1, <2>1, <2>2, SeqEqual DEF t
<1>4. QED
  BY <1>2, <1>3 DEF all

\* What a gate does to a play.
LEMMA PlayGate ==
  ASSUME NEW s, NEW b, NEW l, NEW m, NEW g, NEW o,
         o.op = "gate" \/ (o.op = "conditional" /\ b[o.bit] = o.equals)
  PROVE  PlayOne(Playing(s, b, l, m, g), o) =
           Playing(Apply(s, o), b, l, m, Append(g, {"executed"}))
<1>1. PlayOne(Playing(s, b, l, m, g), o) =
        Did([Playing(s, b, l, m, g) EXCEPT !.state = Apply(@, o)], {"executed"})
  BY DEF PlayOne, Playing
<1>2. [Playing(s, b, l, m, g) EXCEPT !.state = Apply(@, o)] = Playing(Apply(s, o), b, l, m, g)
  BY DEF Playing
<1>3. QED
  BY <1>1, <1>2 DEF Did, Playing

\* What a conditional gate whose bit does not match does to a play.
LEMMA PlaySkip ==
  ASSUME NEW s, NEW b, NEW l, NEW m, NEW g, NEW o, o.op = "conditional", b[o.bit] # o.equals
  PROVE  PlayOne(Playing(s, b, l, m, g), o) = Playing(s, b, l, m, Append(g, {"skipped"}))
BY DEF PlayOne, Did, Playing

\* What an assertion does to a play.
LEMMA PlayAssert ==
  ASSUME NEW s, NEW b, NEW l, NEW m, NEW g, NEW o, o.op = "assert"
  PROVE  PlayOne(Playing(s, b, l, m, g), o) =
           Playing(s, b, l, m, Append(g, {"executed"} \cup (IF b[o.bit] = o.equals THEN {} ELSE {"failed"})))
BY DEF PlayOne, Did, Playing

\* The record of a qubit's measurement, the bits after it, and the state that was met.
Reading(x) == {"executed", IF x = 1 THEN "ones" ELSE "zeros"}
Written(b, k, x) == [b EXCEPT ![k] = x]
MetAt(m, s) == IF m = <<>> THEN <<s>> ELSE m

\* What the measurement of one qubit does to a play.
LEMMA PlayMeasure ==
  ASSUME NEW s, NEW b, NEW m, NEW g, NEW o, o.op = "measure",
         NEW x \in {0, 1}, x \in Possible(s, o.qubit), NEW rest \in Seq({0, 1}), NEW d, d = <<x>>
  PROVE  PlayOne(Playing(s, b, d \o rest, m, g), o) =
           Playing(Collapse(s, o.qubit, x), Written(b, o.bit, x), rest, MetAt(m, s), Append(g, Reading(x)))
<1> DEFINE play == Playing(s, b, <<x>> \o rest, m, g)
           left == Playing(s, b, rest, m, g)
           met == Playing(s, b, rest, IF m = <<>> THEN <<s>> ELSE m, g)
           done == [met EXCEPT !.bits[o.bit] = x, !.possible = @ /\ x \in Possible(s, o.qubit),
                               !.state = Collapse(@, o.qubit, x)]
<1>1. SubSeq(<<x>> \o rest, 1, 1) = <<x>> /\ SubSeq(<<x>> \o rest, 2, Len(<<x>> \o rest)) = rest
  <2>1. <<x>> \in Seq({0, 1}) /\ Len(<<x>>) = 1
    OBVIOUS
  <2>2. /\ SubSeq(<<x>> \o rest, 1, Len(<<x>>)) = <<x>>
        /\ SubSeq(<<x>> \o rest, Len(<<x>>) + 1, Len(<<x>> \o rest)) = rest
    BY <2>1, DrawnFirst
  <2>3. QED
    BY <2>1, <2>2
<1>2. play.left = <<x>> \o rest /\ play.state = s
  BY DEF Playing
<1>3. [play EXCEPT !.left = SubSeq(@, 1 + 1, Len(@))] = left
  <2>1. [play EXCEPT !.left = rest] = left
    BY DEF Playing
  <2>2. SubSeq(play.left, 1 + 1, Len(play.left)) = rest
    <3>1. 1 + 1 = 2
      OBVIOUS
    <3>2. QED
      BY <1>1, <1>2, <3>1, Zenon
  <2> HIDE DEF play, left
  <2>3. QED
    BY <2>1, <2>2
<1>4. Met(left) = met
  BY DEF Met, Playing
<1>5. PlayMeasurement(play, o) = Did(done, {"executed", IF x = 1 THEN "ones" ELSE "zeros"})
  <2>1. SubSeq(play.left, 1, 1)[1] = x
    BY <1>1, <1>2
  <2> HIDE DEF play, left, met
  <2>2. PlayMeasurement(play, o) =
          Did([Met([play EXCEPT !.left = SubSeq(@, 1 + 1, Len(@))]) EXCEPT
                 !.bits[o.bit] = SubSeq(play.left, 1, 1)[1],
                 !.possible = @ /\ SubSeq(play.left, 1, 1)[1] \in Possible(play.state, o.qubit),
                 !.state = Collapse(@, o.qubit, SubSeq(play.left, 1, 1)[1])],
              {"executed", IF SubSeq(play.left, 1, 1)[1] = 1 THEN "ones" ELSE "zeros"})
    <3>1. o.op # "full" /\ o.op = "measure"
      OBVIOUS
    <3>2. QED
      BY <3>1, Zenon DEF PlayMeasurement
  <2>3. QED
    BY <1>2, <1>3, <1>4, <2>1, <2>2, Zenon
<1>6. done = Playing(Collapse(s, o.qubit, x), [b EXCEPT ![o.bit] = x], rest,
                     IF m = <<>> THEN <<s>> ELSE m, g)
  <2> DEFINE n == IF m = <<>> THEN <<s>> ELSE m
             ok == x \in Possible(s, o.qubit)
  <2> HIDE DEF n, ok
  <2>1. [met EXCEPT !.bits[o.bit] = x] = Playing(s, [b EXCEPT ![o.bit] = x], rest, n, g)
    BY DEF Playing, n
  <2>2. [Playing(s, [b EXCEPT ![o.bit] = x], rest, n, g) EXCEPT !.possible = @ /\ ok] =
          Playing(s, [b EXCEPT ![o.bit] = x], rest, n, g)
    <3>1. (Sure /\ ok) = Sure
      BY Zenon DEF Sure, ok
    <3>2. QED
      BY <3>1 DEF Playing
  <2>3. [Playing(s, [b EXCEPT ![o.bit] = x], rest, n, g) EXCEPT !.state = Collapse(@, o.qubit, x)] =
          Playing(Collapse(s, o.qubit, x), [b EXCEPT ![o.bit] = x], rest, n, g)
    BY DEF Playing
  <2>4. done = [[[met EXCEPT !.bits[o.bit] = x] EXCEPT !.possible = @ /\ ok]
                  EXCEPT !.state = Collapse(@, o.qubit, x)]
    BY DEF ok
  <2> HIDE DEF done, met
  <2>5. done = Playing(Collapse(s, o.qubit, x), [b EXCEPT ![o.bit] = x], rest, n, g)
    BY <2>1, <2>2, <2>3, <2>4
  <2>6. QED
    BY <2>5 DEF n, ok
<1>7. PlayOne(play, o) = PlayMeasurement(play, o)
  BY DEF PlayOne
<1> HIDE DEF play, done
<1>8. PlayOne(play, o) =
        Did(Playing(Collapse(s, o.qubit, x), [b EXCEPT ![o.bit] = x], rest,
                    IF m = <<>> THEN <<s>> ELSE m, g),
            {"executed", IF x = 1 THEN "ones" ELSE "zeros"})
  BY <1>5, <1>6, <1>7
<1>9. PlayOne(play, o) =
        Playing(Collapse(s, o.qubit, x), [b EXCEPT ![o.bit] = x], rest,
                IF m = <<>> THEN <<s>> ELSE m, Append(g, {"executed", IF x = 1 THEN "ones" ELSE "zeros"}))
  BY <1>8 DEF Did, Playing
<1>10. QED
  BY <1>9, Zenon DEF play, Written, MetAt, Reading

\* What the measurement of the register does to a play.
LEMMA PlayFull ==
  ASSUME NEW s, NEW b, NEW m, NEW g, NEW o, o.op = "full",
         NEW d \in Seq({0, 1}), Len(d) = Width, NEW rest \in Seq({0, 1}),
         NEW i \in Basis, s[i] # Nought, \A q \in Qubits : Bit(i, q) = d[q + 1]
  PROVE  PlayOne(Playing(s, b, d \o rest, m, g), o) =
           Playing(s, [c \in Bits |-> IF c \in Qubits THEN d[c + 1] ELSE b[c]], rest,
                   IF m = <<>> THEN <<s>> ELSE m,
                   Append(g, {"executed"}))
<1> DEFINE play == Playing(s, b, d \o rest, m, g)
           taken == Playing(s, b, rest, m, g)
           met == Playing(s, b, rest, IF m = <<>> THEN <<s>> ELSE m, g)
           found == \E j \in Basis : s[j] # Nought /\ \A q \in Qubits : Bit(j, q) = d[q + 1]
           done == [met EXCEPT !.bits = [c \in Bits |-> IF c \in Qubits THEN d[c + 1] ELSE @[c]],
                               !.possible = @ /\ found]
<1>1. SubSeq(d \o rest, 1, Width) = d /\ SubSeq(d \o rest, Width + 1, Len(d \o rest)) = rest
  BY DrawnFirst
<1>2. play.left = d \o rest /\ play.state = s
  BY DEF Playing
<1>3. [play EXCEPT !.left = SubSeq(@, Width + 1, Len(@))] = taken
  <2>1. [play EXCEPT !.left = rest] = taken
    BY DEF Playing
  <2>2. SubSeq(play.left, Width + 1, Len(play.left)) = rest
    BY <1>1, <1>2
  <2> HIDE DEF play, taken
  <2>3. QED
    BY <2>1, <2>2
<1>4. Met(taken) = met
  BY DEF Met, Playing
<1>5. PlayMeasurement(play, o) = Did(done, {"executed"})
  <2>1. SubSeq(play.left, 1, Width) = d
    BY <1>1, <1>2
  <2> HIDE DEF play, taken, met
  <2>2. PlayMeasurement(play, o) =
          Did([Met([play EXCEPT !.left = SubSeq(@, Width + 1, Len(@))]) EXCEPT
                 !.bits = [c \in Bits |-> IF c \in Qubits THEN SubSeq(play.left, 1, Width)[c + 1] ELSE @[c]],
                 !.possible = @ /\ \E j \in Basis : /\ play.state[j] # Nought
                                                    /\ \A q \in Qubits : Bit(j, q) = SubSeq(play.left, 1, Width)[q + 1]],
              {"executed"})
    <3>1. o.op = "full" /\ o.op # "measure"
      OBVIOUS
    <3>2. QED
      BY <3>1, Zenon DEF PlayMeasurement
  <2>3. QED
    BY <1>2, <1>3, <1>4, <2>1, <2>2, Zenon
<1>6. done = Playing(s, [c \in Bits |-> IF c \in Qubits THEN d[c + 1] ELSE b[c]], rest,
                     IF m = <<>> THEN <<s>> ELSE m, g)
  <2> DEFINE n == IF m = <<>> THEN <<s>> ELSE m
             bits == [c \in Bits |-> IF c \in Qubits THEN d[c + 1] ELSE b[c]]
  <2> HIDE DEF n, found
  <2>1. [met EXCEPT !.bits = [c \in Bits |-> IF c \in Qubits THEN d[c + 1] ELSE @[c]]] =
          Playing(s, bits, rest, n, g)
    BY DEF Playing, n
  <2> HIDE DEF bits
  <2>2. [Playing(s, bits, rest, n, g) EXCEPT !.possible = @ /\ found] =
          Playing(s, bits, rest, n, g)
    <3>1. (Sure /\ found) = Sure
      BY Zenon DEF Sure, found
    <3>2. QED
      BY <3>1 DEF Playing
  <2>3. done = [[met EXCEPT !.bits = [c \in Bits |-> IF c \in Qubits THEN d[c + 1] ELSE @[c]]]
                  EXCEPT !.possible = @ /\ found]
    OBVIOUS
  <2> HIDE DEF done, met
  <2>4. done = Playing(s, bits, rest, n, g)
    BY <2>1, <2>2, <2>3
  <2>5. QED
    BY <2>4 DEF n, bits
<1>7. PlayOne(play, o) = PlayMeasurement(play, o)
  BY DEF PlayOne
<1>8. PlayOne(play, o) =
        Did(Playing(s, [c \in Bits |-> IF c \in Qubits THEN d[c + 1] ELSE b[c]], rest,
                    IF m = <<>> THEN <<s>> ELSE m, g), {"executed"})
  <2> HIDE DEF play, done
  <2>1. QED
    BY <1>5, <1>6, <1>7
<1>9. QED
  BY <1>8 DEF Did, Playing

-----------------------------------------------------------------------------
(* The state prepared once.                                                *)

\* With the same operations, a shot is the same and is prepared the same.
LEMMA SamePlays ==
  ASSUME UNCHANGED <<operations, backend>>
  PROVE  /\ (ValidProgram' <=> ValidProgram) /\ (Measured' <=> Measured) /\ (ShotByShot' <=> ShotByShot)
         /\ (Reusable' <=> Reusable) /\ PrefixLength' = PrefixLength /\ Prepare' = Prepare
         /\ \A o, n : PlayTo(o, n)' = PlayTo(o, n)
         /\ \A o : Play(o)' = Play(o)
         /\ Kinds(operations)' = Kinds(operations) /\ Mixture' = Mixture
<1>1. Kinds(operations)' = Kinds(operations)
  BY DEF Kinds
<1>2. (ValidProgram' <=> ValidProgram) /\ (Measured' <=> Measured) /\ (ShotByShot' <=> ShotByShot)
  BY <1>1 DEF ValidProgram, Measured, ShotByShot, Dynamic
<1>3. FirstMeasurement' = FirstMeasurement
  BY DEF FirstMeasurement
<1>4. (Reusable' <=> Reusable)
  BY <1>3 DEF Reusable
<1>5. PrefixLength' = PrefixLength
  BY <1>3, <1>4 DEF PrefixLength
<1>6. Prepare' = Prepare
  BY <1>5, Zenon DEF Prepare
<1>7. \A o, n : PlayTo(o, n)' = PlayTo(o, n)
  BY Zenon DEF PlayTo
<1>8. \A o : Play(o)' = Play(o)
  BY <1>7 DEF Play
<1>9. Mixture' = Mixture
  BY DEF Mixture
<1>10. QED
  BY <1>1, <1>2, <1>4, <1>5, <1>6, <1>7, <1>8, <1>9

\* Before the first measurement there are gates, from there on measurements.
LEMMA PrefixFacts ==
  ASSUME operations \in Seq(Operations), Measured
  PROVE  /\ PrefixLength \in Nat /\ PrefixLength < Len(operations)
         /\ Reusable => \A i \in 1 .. Len(operations) :
              IF i <= PrefixLength THEN operations[i].op = "gate" ELSE IsMeasurement(operations[i])
<1> DEFINE P == {i \in DOMAIN operations : IsMeasurement(operations[i])}
<1>1. Len(operations) \in Nat /\ DOMAIN operations = 1 .. Len(operations)
  BY LenProperties
<1>2. P \in SUBSET Nat /\ P # {}
  <2>1. PICK o \in ToSet(operations) : o.op \in {"measure", "full"}
    BY DEF Measured, Kinds
  <2>2. PICK i \in DOMAIN operations : operations[i] = o
    BY <2>1 DEF ToSet
  <2>3. IsMeasurement(operations[i])
    BY <2>1, <2>2 DEF IsMeasurement
  <2>4. QED
    BY <1>1, <2>3
<1>3. \E i \in P : \A j \in P : i <= j
  BY <1>2, LeastNumber
<1>4. \E i \in DOMAIN operations : IsMeasurement(operations[i]) /\ \A j \in 1 .. i - 1 : ~IsMeasurement(operations[j])
  BY <1>1, <1>3
<1>5. FirstMeasurement \in DOMAIN operations
  BY <1>4 DEF FirstMeasurement
<1>6. FirstMeasurement \in 1 .. Len(operations)
  BY <1>1, <1>5
<1>7. PrefixLength \in Nat /\ PrefixLength < Len(operations)
  BY <1>1, <1>6 DEF PrefixLength
<1>8. ASSUME Reusable, NEW i \in 1 .. Len(operations)
      PROVE  IF i <= PrefixLength THEN operations[i].op = "gate" ELSE IsMeasurement(operations[i])
  <2>1. PrefixLength = FirstMeasurement - 1
    BY <1>8 DEF PrefixLength
  <2>2. i <= PrefixLength <=> i < FirstMeasurement
    BY <1>6, <2>1
  <2>3. IF i < FirstMeasurement THEN operations[i].op = "gate" ELSE IsMeasurement(operations[i])
    BY <1>1, <1>8 DEF Reusable
  <2>4. QED
    BY <2>2, <2>3
<1>9. QED
  BY <1>7, <1>8

\* Up to the first measurement, a shot from the ground state is what is prepared.
LEMMA PreparedPlay ==
  ASSUME operations \in Seq(Operations), Measured, Reusable, NEW o, NEW n \in 0 .. PrefixLength
  PROVE  /\ \E s, g : /\ PlayTo(o, n) = Playing(s, Cleared, o, <<>>, g)
                      /\ n = PrefixLength => s = Prepare
<1>1. /\ PrefixLength \in Nat /\ PrefixLength < Len(operations)
      /\ \A i \in 1 .. PrefixLength : operations[i].op = "gate"
  BY PrefixFacts, LenProperties
<1>2. PICK f : /\ f[0] = Ground /\ Prepare = f[PrefixLength]
               /\ \A k \in 1 .. PrefixLength : f[k] = Apply(f[k - 1], operations[k])
  BY <1>1, PrepareEquations
<1> DEFINE P == {k \in Nat : k <= PrefixLength => \E g : PlayTo(o, k) = Playing(f[k], Cleared, o, <<>>, g)}
<1>3. 0 \in P
  <2>1. PlayTo(o, 0) = Playing(f[0], Cleared, o, <<>>, <<>>)
    BY <1>2, PlayEquations DEF Begun, Playing, Sure
  <2>2. QED
    BY <2>1
<1>4. ASSUME NEW k \in Nat, k \in P PROVE k + 1 \in P
  <2>1. SUFFICES ASSUME k + 1 <= PrefixLength
                 PROVE  \E g : PlayTo(o, k + 1) = Playing(f[k + 1], Cleared, o, <<>>, g)
    OBVIOUS
  <2>2. k <= PrefixLength /\ k + 1 \in 1 .. PrefixLength /\ (k + 1) - 1 = k
    BY <1>1, <2>1
  <2>3. PICK g : PlayTo(o, k) = Playing(f[k], Cleared, o, <<>>, g)
    BY <1>4, <2>2
  <2>4. PlayTo(o, k + 1) = PlayOne(PlayTo(o, k), operations[k + 1])
    BY PlayEquations
  <2>5. operations[k + 1].op = "gate"
    BY <1>1, <2>2
  <2>6. f[k + 1] = Apply(f[k], operations[k + 1])
    BY <1>2, <2>2
  <2>7. PlayTo(o, k + 1) = Playing(Apply(f[k], operations[k + 1]), Cleared, o, <<>>, Append(g, {"executed"}))
    BY <2>3, <2>4, <2>5, PlayGate
  <2>8. QED
    BY <2>6, <2>7
<1>5. n \in P
  <2> HIDE DEF P
  <2>1. n \in Nat
    BY <1>1
  <2>2. QED
    BY <1>3, <1>4, <2>1, Induction
<1>6. QED
  BY <1>1, <1>2, <1>5

-----------------------------------------------------------------------------
(* The invariant of the execution.                                         *)

\* What an operation of a shot is accounted for under.
Heads == DOMAIN Untouched

\* What was said of the first n operations.
Logged(g, n) ==
  /\ g \in Seq(SUBSET Heads) /\ Len(g) = n
  /\ \A i \in 1 .. n : "failed" \in g[i] => operations[i].op = "assert"

\* Whatever is drawn from here on, the play is here.
Here(s, m, g) ==
  \A rest \in Seq({0, 1}) : PlayTo(drawn \o rest, at - 1) = Playing(s, classical, rest, m, g)

\* In how many of the shots completed an operation was accounted for under a head.
Times(i, head) == Cardinality({n \in 1 .. shot : head \in Play(past[n]).log[i]})

\* A shot under way is a play from the ground state with what was drawn; where the
\* prepared state stands for it, it is ahead of it by no more than the first gates.
UnderWay(s, m, g) ==
  /\ Here(s, m, g) /\ Logged(g, at - 1)
  /\ at <= Len(operations) /\ (prepared = <<>> \/ at > PrefixLength) => s = state
  /\ prepared # <<>> => m = IF at <= PrefixLength + 1 THEN <<>> ELSE prepared
  /\ \A i \in DOMAIN operations : \A head \in Heads :
       stats[i][head] = Times(i, head) + (IF i < at /\ head \in g[i] THEN 1 ELSE 0)

\* While a shot is under way, it is somewhere in its play.
ShotInv ==
  phase = "shot" =>
    /\ shot < Shots /\ at \in 1 .. Len(operations) + 1 /\ drawn \in Seq({0, 1}) /\ classical \in Labels
    /\ prepared # <<>> /\ at <= PrefixLength + 1 => state = prepared[1]
    /\ \E s, m, g : UnderWay(s, m, g)

\* A completed shot.
Whole(outcomes) ==
  \E s, b, m, g : /\ Play(outcomes) = Playing(s, b, <<>>, m, g)
                  /\ b \in Labels /\ Logged(g, Len(operations))
                  /\ prepared # <<>> => m = prepared

\* The completed shots, and what was counted of them.
PastInv ==
  phase \in {"between", "shot", "ran", "verified"} /\ ShotByShot =>
    /\ shot \in 0 .. Shots /\ past \in Seq(Seq({0, 1})) /\ Len(past) = shot
    /\ \A n \in 1 .. shot : Whole(past[n])
    /\ counts = [l \in Labels |-> Cardinality({n \in 1 .. shot : Play(past[n]).bits = l})]
    /\ stats \in [DOMAIN operations -> [Heads -> Nat]]
    /\ phase # "shot" => \A i \in DOMAIN operations : \A head \in Heads : stats[i][head] = Times(i, head)

\* What verify answers to the demand d.
Answer(d) ==
  IF Unanswerable(d) THEN "raised"
  ELSE IF backend = "stabilizer" THEN StabilizerStatus(StabilizerChecks(d))
  ELSE IF "FAIL" \in DenseChecks(d) THEN "FAIL" ELSE "PASS"

\* Where the execution is, and what stands for what.
CourseInv ==
  /\ verdict # "accepted" => phase = "loaded"
  /\ phase = "loaded" =>
       shot = 0 /\ stats = <<>> /\ past = <<>> /\ counts = [l \in Labels |-> 0] /\ prepared = <<>>
  /\ phase \in {"between", "shot", "ran", "verified"} => ValidProgram /\ Measured
  /\ phase \in {"between", "shot"} => ShotByShot
  /\ phase \in {"between", "shot", "ran", "verified"} =>
       IF ShotByShot THEN prepared = IF Reusable THEN <<Prepare>> ELSE <<>>
       ELSE stats = <<>>
  /\ phase \in {"ran", "verified"} =>
       IF ShotByShot
       THEN /\ shot = Shots
            /\ observed = IF backend = "stabilizer" THEN {} ELSE {l \in Labels : counts[l] > 0}
       ELSE observed = Support(Mixture)
  /\ answer = IF phase = "verified" THEN Answer(demand) ELSE "none"

RunInv == CourseInv /\ PastInv /\ ShotInv

-----------------------------------------------------------------------------
(* Counting the shots.                                                     *)

\* One more shot counts if it has what is counted.
LEMMA OneMore ==
  ASSUME NEW k \in Nat, NEW A \in SUBSET (1 .. k), NEW c \in BOOLEAN
  PROVE  /\ Cardinality(A) \in 0 .. k
         /\ Cardinality(IF c THEN A \cup {k + 1} ELSE A) = Cardinality(A) + (IF c THEN 1 ELSE 0)
<1>1. IsFiniteSet(1 .. k) /\ Cardinality(1 .. k) = k
  BY FS_Interval
<1>2. IsFiniteSet(A) /\ Cardinality(A) <= k
  BY <1>1, FS_Subset
<1>3. Cardinality(A) \in Nat
  BY <1>2, FS_CardinalityType
<1>4. k + 1 \notin A
  OBVIOUS
<1>5. Cardinality(A \cup {k + 1}) = Cardinality(A) + 1
  BY <1>2, <1>4, FS_AddElement
<1>6. QED
  BY <1>2, <1>3, <1>5

\* How often a head was logged is a number.
LEMMA TimesType ==
  ASSUME shot \in Nat, NEW i, NEW head
  PROVE  Times(i, head) \in 0 .. shot
<1> DEFINE A == {n \in 1 .. shot : head \in Play(past[n]).log[i]}
<1>1. A \in SUBSET (1 .. shot)
  OBVIOUS
<1> HIDE DEF A
<1>2. Cardinality(A) \in 0 .. shot
  BY <1>1, OneMore
<1>3. QED
  BY <1>2 DEF A, Times

\* What is counted of the completed shots stays while a shot is under way.
LEMMA SameTimes ==
  ASSUME UNCHANGED <<operations, backend, past, shot>>
  PROVE  /\ \A i, head : Times(i, head)' = Times(i, head)
         /\ \A n : Play(past[n])' = Play(past[n])
<1>1. \A n : Play(past[n])' = Play(past[n])
  BY SamePlays
<1>2. QED
  BY <1>1 DEF Times

\* A step that completes no shot leaves the completed ones as they are.
LEMMA SamePast ==
  ASSUME PastInv, UNCHANGED <<operations, backend, prepared, shot, past, counts>>,
         ShotByShot, phase \in {"between", "shot", "ran", "verified"},
         stats' \in [DOMAIN operations -> [Heads -> Nat]],
         phase' # "shot" => phase # "shot" /\ stats' = stats
  PROVE  PastInv'
<1>1. ShotByShot' = ShotByShot
  BY SamePlays
<1>2. /\ \A i, head : Times(i, head)' = Times(i, head)
      /\ \A n : Play(past[n])' = Play(past[n])
  BY SameTimes
<1>3. \A n : Whole(past[n])' <=> Whole(past[n])
  BY <1>2 DEF Whole, Logged
<1>4. /\ shot' \in 0 .. Shots /\ past' \in Seq(Seq({0, 1})) /\ Len(past') = shot'
      /\ \A n \in 1 .. shot' : Whole(past[n])'
  BY <1>3 DEF PastInv
<1>5. counts' = [l \in Labels |-> Cardinality({n \in 1 .. shot' : (Play(past[n]).bits)' = l})]
  <2>1. counts = [l \in Labels |-> Cardinality({n \in 1 .. shot : Play(past[n]).bits = l})]
    BY DEF PastInv
  <2>2. \A l : {n \in 1 .. shot' : (Play(past[n]).bits)' = l} = {n \in 1 .. shot : Play(past[n]).bits = l}
    BY <1>2
  <2>3. QED
    BY <2>1, <2>2
<1>6. stats' \in [DOMAIN operations' -> [Heads -> Nat]]
  OBVIOUS
<1>7. phase' # "shot" => \A i \in DOMAIN operations' : \A head \in Heads : stats'[i][head] = Times(i, head)'
  BY <1>2 DEF PastInv
<1>8. QED
  BY <1>4, <1>5, <1>6, <1>7 DEF PastInv

\* A step within the shots leaves the course of the run as it is.
LEMMA SameCourse ==
  ASSUME CourseInv, UNCHANGED <<operations, backend, prepared, shot, counts, observed, past, demand, answer, verdict>>,
         verdict = "accepted",
         phase \in {"between", "shot"}, phase' \in {"between", "shot"}, stats' = stats \/ ShotByShot
  PROVE  CourseInv'
<1>1. /\ (ValidProgram' <=> ValidProgram) /\ (Measured' <=> Measured) /\ (ShotByShot' <=> ShotByShot)
      /\ (Reusable' <=> Reusable) /\ PrefixLength' = PrefixLength /\ Prepare' = Prepare
  BY SamePlays
<1>2. QED
  BY <1>1 DEF CourseInv

-----------------------------------------------------------------------------
(* One operation of a shot.                                                *)

\* One operation, accounted for under the heads, draws e and moves the play from
\* s, m, g to t, n, and the state of the shot with it.
Moves(heads, e, s, m, g, t, n) ==
  /\ heads \in SUBSET Heads /\ ("failed" \in heads => Op.op = "assert")
  /\ Account(heads)
  /\ e \in Seq({0, 1}) /\ drawn' = drawn \o e /\ classical' \in Labels
  /\ UnderWay(s, m, g)
  /\ \A rest \in Seq({0, 1}) :
       PlayOne(Playing(s, classical, e \o rest, m, g), Op) =
         Playing(t, classical', rest, n, Append(g, heads))
  /\ at + 1 <= Len(operations) /\ (prepared = <<>> \/ at + 1 > PrefixLength) => t = state'
  /\ prepared # <<>> => n = IF at + 1 <= PrefixLength + 1 THEN <<>> ELSE prepared
  /\ prepared # <<>> /\ at + 1 <= PrefixLength + 1 => state' = prepared[1]

\* If one operation moves the play along with the shot, the invariant is kept.
LEMMA Stepped ==
  ASSUME operations \in Seq(Operations), verdict = "accepted", verdict' = verdict, RunInv,
         phase = "shot", at <= Len(operations),
         NEW heads, NEW e, NEW s, NEW m, NEW g, NEW t, NEW n, Moves(heads, e, s, m, g, t, n)
  PROVE  RunInv'
<1> SUFFICES ASSUME heads \in SUBSET Heads, "failed" \in heads => Op.op = "assert",
                    Account(heads),
                    e \in Seq({0, 1}), drawn' = drawn \o e, classical' \in Labels,
                    UnderWay(s, m, g),
                    \A rest \in Seq({0, 1}) :
                      PlayOne(Playing(s, classical, e \o rest, m, g), Op) =
                        Playing(t, classical', rest, n, Append(g, heads)),
                    at + 1 <= Len(operations) /\ (prepared = <<>> \/ at + 1 > PrefixLength) => t = state',
                    prepared # <<>> => n = IF at + 1 <= PrefixLength + 1 THEN <<>> ELSE prepared,
                    prepared # <<>> /\ at + 1 <= PrefixLength + 1 => state' = prepared[1]
             PROVE  RunInv'
  BY Zenon DEF Moves
<1>1. /\ UNCHANGED <<operations, backend, phase, prepared, shot, counts, observed, past, demand, answer>>
      /\ at' = at + 1
      /\ stats' = [stats EXCEPT ![at] = [h \in DOMAIN @ |-> @[h] + (IF h \in heads THEN 1 ELSE 0)]]
  BY Zenon DEF Account, source
<1>2. ValidProgram /\ Measured /\ ShotByShot
  BY DEF RunInv, CourseInv
<1>3. /\ shot \in 0 .. Shots /\ shot < Shots /\ at \in 1 .. Len(operations) /\ drawn \in Seq({0, 1})
      /\ DOMAIN operations = 1 .. Len(operations) /\ Len(operations) \in Nat
      /\ stats \in [DOMAIN operations -> [Heads -> Nat]]
  BY <1>2, LenProperties DEF RunInv, ShotInv, PastInv
<1>4. shot \in Nat /\ Shots \in Nat
  BY <1>3, ExecutionAssumption
<1>5. /\ DOMAIN stats' = DOMAIN operations
      /\ \A i \in DOMAIN operations : i # at => stats'[i] = stats[i]
      /\ stats'[at] = [h \in Heads |-> stats[at][h] + (IF h \in heads THEN 1 ELSE 0)]
  BY <1>1, <1>3
<1>6. stats' \in [DOMAIN operations -> [Heads -> Nat]]
  BY <1>1, <1>3
<1>7. CourseInv'
  BY <1>1, <1>2, SameCourse DEF RunInv
<1>8. PastInv'
  BY <1>1, <1>2, <1>3, <1>5, <1>6, SamePast DEF RunInv
<1>9. Here(t, n, Append(g, heads))'
  <2>1. ASSUME NEW rest \in Seq({0, 1})
        PROVE  PlayTo(drawn' \o rest, at) = Playing(t, classical', rest, n, Append(g, heads))
    <3>1. drawn' \o rest = drawn \o (e \o rest) /\ e \o rest \in Seq({0, 1})
      <4>1. drawn \in Seq({0, 1})
        BY <1>3
      <4>2. (drawn \o e) \o rest = drawn \o (e \o rest)
        BY <4>1, ConcatAssociative
      <4>3. e \o rest \in Seq({0, 1})
        BY ConcatProperties
      <4>4. QED
        BY <4>2, <4>3
    <3>2. PlayTo(drawn \o (e \o rest), at - 1) = Playing(s, classical, e \o rest, m, g)
      BY <3>1 DEF UnderWay, Here
    <3>3. at - 1 \in Nat /\ (at - 1) + 1 = at
      BY <1>3
    <3>4. PlayTo(drawn \o (e \o rest), at) = PlayOne(PlayTo(drawn \o (e \o rest), at - 1), operations[at])
      BY <3>3, PlayEquations
    <3>5. QED
      BY <3>1, <3>2, <3>4 DEF Op
  <2>3. at' - 1 = at
    BY <1>1, <1>3
  <2>4. QED
    BY <1>1, <2>1, <2>3, SamePlays DEF Here
<1>10. Logged(Append(g, heads), at)
  <2>1. g \in Seq(SUBSET Heads) /\ Len(g) = at - 1 /\ \A i \in 1 .. at - 1 : "failed" \in g[i] => operations[i].op = "assert"
    BY DEF UnderWay, Logged
  <2>2. /\ Append(g, heads) \in Seq(SUBSET Heads) /\ Len(Append(g, heads)) = at
        /\ \A i \in 1 .. at - 1 : Append(g, heads)[i] = g[i]
        /\ Append(g, heads)[at] = heads
    BY <1>3, <2>1, AppendProperties
  <2>3. \A i \in 1 .. at : i \in 1 .. at - 1 \/ i = at
    BY <1>3
  <2>4. QED
    BY <2>1, <2>2, <2>3 DEF Logged, Op
<1>11. ASSUME NEW i \in DOMAIN operations, NEW head \in Heads
       PROVE  stats'[i][head] = Times(i, head) + (IF i < at + 1 /\ head \in Append(g, heads)[i] THEN 1 ELSE 0)
  <2>1. stats[i][head] = Times(i, head) + (IF i < at /\ head \in g[i] THEN 1 ELSE 0)
    BY DEF UnderWay
  <2>2. Times(i, head) \in Nat
    BY <1>4, TimesType
  <2>3. CASE i = at
    BY <1>3, <1>5, <2>1, <2>2, <2>3, AppendProperties DEF UnderWay, Logged
  <2>4. CASE i < at
    <3>1. stats'[i] = stats[i]
      BY <1>3, <1>5, <2>4
    <3>2. i \in 1 .. Len(g) /\ g \in Seq(SUBSET Heads)
      BY <1>3, <2>4 DEF UnderWay, Logged
    <3>3. Append(g, heads)[i] = g[i]
      BY <3>2, AppendProperties
    <3>4. QED
      BY <1>3, <2>1, <2>4, <3>1, <3>3
  <2>5. CASE i > at
    BY <1>3, <1>5, <2>1, <2>2, <2>5
  <2>6. i = at \/ i < at \/ i > at
    BY <1>3
  <2>7. QED
    BY <2>3, <2>4, <2>5, <2>6
<1>12. UnderWay(t, n, Append(g, heads))'
  <2>1. \A i, head : Times(i, head)' = Times(i, head)
    BY <1>1, SameTimes
  <2>2. PrefixLength' = PrefixLength /\ at' - 1 = at
    BY <1>1, <1>3, SamePlays
  <2>3. \A i \in (DOMAIN operations)' : \A head \in Heads :
          stats'[i][head] = Times(i, head)' + (IF i < at' /\ head \in Append(g, heads)[i] THEN 1 ELSE 0)
    BY <1>1, <1>11, <2>1
  <2>4. Logged(Append(g, heads), at - 1)'
    <3>1. \A x, k : Logged(x, k)' <=> Logged(x, k)
      BY <1>1 DEF Logged
    <3>2. QED
      BY <1>10, <2>2, <3>1
  <2>5. /\ at' <= Len(operations') /\ (prepared' = <<>> \/ at' > PrefixLength') => t = state'
        /\ prepared' # <<>> => n = IF at' <= PrefixLength' + 1 THEN <<>> ELSE prepared'
    BY <1>1, <2>2
  <2>6. QED
    BY <1>9, <2>3, <2>4, <2>5 DEF UnderWay
<1>13. ShotInv'
  <2>1. drawn' \in Seq({0, 1})
    BY <1>3, ConcatProperties
  <2>2. PrefixLength' = PrefixLength
    BY <1>1, SamePlays
  <2>3. \E x, y, z : UnderWay(x, y, z)'
    BY <1>12
  <2>4. QED
    BY <1>1, <1>3, <2>1, <2>2, <2>3 DEF ShotInv
<1>14. QED
  BY <1>7, <1>8, <1>13 DEF RunInv

-----------------------------------------------------------------------------
(* Every operation, and what is known where it begins.                     *)

\* What the proof of every operation starts from.
LEMMA ShotFacts ==
  ASSUME operations \in Seq(Operations), RunInv, phase = "shot", at <= Len(operations)
  PROVE  /\ at \in 1 .. Len(operations) /\ Op \in Operations /\ Len(operations) \in Nat
         /\ ValidProgram /\ Measured /\ drawn \in Seq({0, 1}) /\ classical \in Labels
         /\ PrefixLength \in Nat
         /\ prepared # <<>> =>
              /\ Reusable /\ prepared = <<Prepare>> /\ prepared[1] = Prepare /\ prepared = <<prepared[1]>>
              /\ IF at <= PrefixLength THEN Op.op = "gate" ELSE IsMeasurement(Op)
              /\ at <= PrefixLength + 1 => state = prepared[1]
<1>1. at \in 1 .. Len(operations) /\ Len(operations) \in Nat /\ drawn \in Seq({0, 1}) /\ classical \in Labels
  BY LenProperties DEF RunInv, ShotInv
<1>2. Op \in Operations
  BY <1>1, ElementOfSeq DEF Op
<1>3. /\ ValidProgram /\ Measured
      /\ prepared = IF Reusable THEN <<Prepare>> ELSE <<>>
  BY DEF RunInv, CourseInv
<1>4. PrefixLength \in Nat
  BY <1>3, PrefixFacts
<1>5. ASSUME prepared # <<>>
      PROVE  /\ Reusable /\ prepared = <<Prepare>>
             /\ IF at <= PrefixLength THEN Op.op = "gate" ELSE IsMeasurement(Op)
  BY <1>1, <1>3, <1>5, PrefixFacts DEF Op
<1>6. prepared # <<>> /\ at <= PrefixLength + 1 => state = prepared[1]
  BY DEF RunInv, ShotInv
<1>7. QED
  BY <1>1, <1>2, <1>3, <1>4, <1>5, <1>6

\* Drawing nothing adds nothing.
LEMMA NothingDrawn ==
  ASSUME NEW d \in Seq({0, 1})
  PROVE  /\ <<>> \in Seq({0, 1}) /\ d = d \o <<>>
         /\ \A rest \in Seq({0, 1}) : <<>> \o rest = rest
BY ConcatEmptySeq, EmptySeq

\* The prepared state is where the play is after the first gates.
LEMMA PassPreparedInv ==
  ASSUME operations \in Seq(Operations), verdict = "accepted", verdict' = verdict, RunInv, PassPrepared
  PROVE  RunInv'
<1>1. /\ phase = "shot" /\ at <= Len(operations) /\ Op.op = "gate" /\ prepared # <<>> /\ at <= PrefixLength
      /\ Account({"executed"}) /\ UNCHANGED <<state, classical, drawn>>
  BY DEF PassPrepared, Running
<1>2. /\ at \in 1 .. Len(operations) /\ Measured /\ drawn \in Seq({0, 1}) /\ classical \in Labels
      /\ PrefixLength \in Nat /\ Reusable /\ prepared[1] = Prepare
      /\ state = prepared[1]
  BY <1>1, ShotFacts
<1>3. PICK s, m, g : UnderWay(s, m, g)
  BY <1>1 DEF RunInv, ShotInv
<1> DEFINE t == Apply(s, Op)
           G == Append(g, {"executed"})
<1> HIDE DEF t, G
<1>4. ASSUME NEW rest \in Seq({0, 1})
      PROVE  PlayOne(Playing(s, classical, <<>> \o rest, m, g), Op) = Playing(t, classical', rest, m, G)
  <2>1. <<>> \o rest = rest
    BY NothingDrawn
  <2>2. PlayOne(Playing(s, classical, rest, m, g), Op) = Playing(t, classical, rest, m, G)
    BY <1>1, PlayGate DEF t, G
  <2>3. QED
    BY <1>1, <2>1, <2>2
<1>5. m = <<>>
  BY <1>1, <1>2, <1>3 DEF UnderWay
<1>6. ASSUME at = PrefixLength PROVE t = state'
  <2>1. PlayTo(drawn, at - 1) = Playing(s, classical, <<>>, m, g)
    BY <1>2, <1>3, NothingDrawn DEF UnderWay, Here
  <2>2. PlayTo(drawn, at) = PlayOne(PlayTo(drawn, at - 1), Op)
    <3>1. at - 1 \in Nat /\ (at - 1) + 1 = at
      BY <1>2
    <3>2. QED
      BY <3>1, PlayEquations DEF Op
  <2>3. PlayOne(Playing(s, classical, <<>>, m, g), Op) = Playing(t, classical, <<>>, m, G)
    BY <1>1, PlayGate DEF t, G
  <2>4. PICK x, y : PlayTo(drawn, at) = Playing(x, Cleared, drawn, <<>>, y) /\ x = Prepare
    BY <1>2, <1>6, PreparedPlay
  <2>5. Playing(t, classical, <<>>, m, G).state = t /\ Playing(x, Cleared, drawn, <<>>, y).state = x
    BY DEF Playing
  <2>6. t = x
    BY <2>1, <2>2, <2>3, <2>4, <2>5
  <2>7. QED
    BY <1>1, <1>2, <2>4, <2>6
<1>7. QED
  <2>1. {"executed"} \in SUBSET Heads /\ "failed" \notin {"executed"}
    BY DEF Heads, Untouched
  <2>2. drawn' = drawn \o <<>> /\ <<>> \in Seq({0, 1}) /\ classical' \in Labels
    BY <1>1, <1>2, NothingDrawn
  <2>3. at + 1 <= Len(operations) /\ (prepared = <<>> \/ at + 1 > PrefixLength) => t = state'
    BY <1>1, <1>2, <1>6
  <2>4. prepared # <<>> => m = IF at + 1 <= PrefixLength + 1 THEN <<>> ELSE prepared
    BY <1>1, <1>2, <1>5
  <2>5. prepared # <<>> /\ at + 1 <= PrefixLength + 1 => state' = prepared[1]
    BY <1>1, <1>2
  <2>6. \A rest \in Seq({0, 1}) :
          PlayOne(Playing(s, classical, <<>> \o rest, m, g), Op) =
            Playing(t, classical', rest, m, Append(g, {"executed"}))
    BY <1>4 DEF G
  <2>7. Moves({"executed"}, <<>>, s, m, g, t, m)
    BY <1>1, <1>3, <2>1, <2>2, <2>3, <2>4, <2>5, <2>6, Zenon DEF Moves
  <2>8. QED
    BY <1>1, <2>7, Stepped, Zenon

\* Without a prepared state the play and the shot are in the same state.
LEMMA ApplyGateInv ==
  ASSUME operations \in Seq(Operations), verdict = "accepted", verdict' = verdict, RunInv, ApplyGate
  PROVE  RunInv'
<1>1. /\ phase = "shot" /\ at <= Len(operations) /\ Op.op \in {"gate", "conditional"}
      /\ prepared # <<>> => at > PrefixLength
      /\ Op.op = "conditional" => Holds(Op)
      /\ state' = Apply(state, Op)
      /\ Account({"executed"}) /\ UNCHANGED <<classical, drawn>>
  BY DEF ApplyGate, Running
<1>2. /\ at \in 1 .. Len(operations) /\ drawn \in Seq({0, 1}) /\ classical \in Labels /\ PrefixLength \in Nat
      /\ prepared # <<>> /\ at > PrefixLength => IsMeasurement(Op)
  BY <1>1, ShotFacts
<1>3. prepared = <<>>
  BY <1>1, <1>2 DEF IsMeasurement
<1>4. PICK s, m, g : UnderWay(s, m, g)
  BY <1>1 DEF RunInv, ShotInv
<1>5. s = state
  BY <1>1, <1>3, <1>4 DEF UnderWay
<1> DEFINE t == Apply(s, Op)
<1> HIDE DEF t
<1>6. ASSUME NEW rest \in Seq({0, 1})
      PROVE  PlayOne(Playing(s, classical, <<>> \o rest, m, g), Op) =
               Playing(t, classical', rest, m, Append(g, {"executed"}))
  <2>1. <<>> \o rest = rest
    BY NothingDrawn
  <2>2. PlayOne(Playing(s, classical, rest, m, g), Op) = Playing(t, classical, rest, m, Append(g, {"executed"}))
    BY <1>1, PlayGate DEF t, Holds
  <2>3. QED
    BY <1>1, <2>1, <2>2
<1>7. QED
  <2>1. {"executed"} \in SUBSET Heads /\ "failed" \notin {"executed"}
    BY DEF Heads, Untouched
  <2>2. drawn' = drawn \o <<>> /\ <<>> \in Seq({0, 1}) /\ classical' \in Labels
    BY <1>1, <1>2, NothingDrawn
  <2>3. t = state'
    BY <1>1, <1>5 DEF t
  <2>4. Moves({"executed"}, <<>>, s, m, g, t, m)
    BY <1>1, <1>3, <1>4, <1>6, <2>1, <2>2, <2>3, Zenon DEF Moves
  <2>5. QED
    BY <1>1, <2>4, Stepped, Zenon

\* A conditional gate whose bit does not match keeps the invariant.
LEMMA SkipConditionalInv ==
  ASSUME operations \in Seq(Operations), verdict = "accepted", verdict' = verdict, RunInv, SkipConditional
  PROVE  RunInv'
<1>1. /\ phase = "shot" /\ at <= Len(operations) /\ Op.op = "conditional" /\ ~Holds(Op)
      /\ Account({"skipped"}) /\ UNCHANGED <<state, classical, drawn>>
  BY DEF SkipConditional, Running
<1>2. /\ drawn \in Seq({0, 1}) /\ classical \in Labels
      /\ prepared # <<>> => Op.op = "gate" \/ IsMeasurement(Op)
  BY <1>1, ShotFacts
<1>3. prepared = <<>>
  BY <1>1, <1>2 DEF IsMeasurement
<1>4. PICK s, m, g : UnderWay(s, m, g)
  BY <1>1 DEF RunInv, ShotInv
<1>5. s = state
  BY <1>1, <1>3, <1>4 DEF UnderWay
<1>6. ASSUME NEW rest \in Seq({0, 1})
      PROVE  PlayOne(Playing(s, classical, <<>> \o rest, m, g), Op) =
               Playing(s, classical', rest, m, Append(g, {"skipped"}))
  <2>1. <<>> \o rest = rest
    BY NothingDrawn
  <2>2. PlayOne(Playing(s, classical, rest, m, g), Op) = Playing(s, classical, rest, m, Append(g, {"skipped"}))
    BY <1>1, PlaySkip DEF Holds
  <2>3. QED
    BY <1>1, <2>1, <2>2
<1>7. QED
  <2>1. {"skipped"} \in SUBSET Heads /\ "failed" \notin {"skipped"}
    BY DEF Heads, Untouched
  <2>2. drawn' = drawn \o <<>> /\ <<>> \in Seq({0, 1}) /\ classical' \in Labels
    BY <1>1, <1>2, NothingDrawn
  <2>3. Moves({"skipped"}, <<>>, s, m, g, s, m)
    BY <1>1, <1>3, <1>4, <1>5, <1>6, <2>1, <2>2, Zenon DEF Moves
  <2>4. QED
    BY <1>1, <2>3, Stepped, Zenon

\* An assertion keeps the invariant.
LEMMA AssertBitInv ==
  ASSUME operations \in Seq(Operations), verdict = "accepted", verdict' = verdict, RunInv, AssertBit
  PROVE  RunInv'
<1> DEFINE heads == {"executed"} \cup (IF Holds(Op) THEN {} ELSE {"failed"})
<1>1. /\ phase = "shot" /\ at <= Len(operations) /\ Op.op = "assert"
      /\ Account(heads) /\ UNCHANGED <<state, classical, drawn>>
  BY DEF AssertBit, Running
<1>2. /\ drawn \in Seq({0, 1}) /\ classical \in Labels
      /\ prepared # <<>> => Op.op = "gate" \/ IsMeasurement(Op)
  BY <1>1, ShotFacts
<1>3. prepared = <<>>
  BY <1>1, <1>2 DEF IsMeasurement
<1>4. PICK s, m, g : UnderWay(s, m, g)
  BY <1>1 DEF RunInv, ShotInv
<1>5. s = state
  BY <1>1, <1>3, <1>4 DEF UnderWay
<1>6. ASSUME NEW rest \in Seq({0, 1})
      PROVE  PlayOne(Playing(s, classical, <<>> \o rest, m, g), Op) =
               Playing(s, classical', rest, m, Append(g, heads))
  <2>1. <<>> \o rest = rest
    BY NothingDrawn
  <2>2. PlayOne(Playing(s, classical, rest, m, g), Op) = Playing(s, classical, rest, m, Append(g, heads))
    BY <1>1, PlayAssert DEF Holds
  <2> HIDE DEF heads
  <2>3. QED
    BY <1>1, <2>1, <2>2
<1>7. QED
  <2>1. heads \in SUBSET Heads
    BY DEF Heads, Untouched
  <2>2. drawn' = drawn \o <<>> /\ <<>> \in Seq({0, 1}) /\ classical' \in Labels
    BY <1>1, <1>2, NothingDrawn
  <2> HIDE DEF heads
  <2>3. Moves(heads, <<>>, s, m, g, s, m)
    BY <1>1, <1>3, <1>4, <1>5, <1>6, <2>1, <2>2, Zenon DEF Moves
  <2>4. QED
    BY <1>1, <2>3, Stepped, Zenon

\* Where a measurement stands, the state of the shot is that of the play.
LEMMA MeasurementFacts ==
  ASSUME operations \in Seq(Operations), RunInv, phase = "shot", at <= Len(operations), IsMeasurement(Op),
         NEW s, NEW m, NEW g, UnderWay(s, m, g)
  PROVE  /\ s = state
         /\ prepared # <<>> => (IF m = <<>> THEN <<s>> ELSE m) = IF at + 1 <= PrefixLength + 1 THEN <<>> ELSE prepared
         /\ ~(prepared # <<>> /\ at + 1 <= PrefixLength + 1)
<1>1. /\ at \in 1 .. Len(operations) /\ PrefixLength \in Nat /\ Len(operations) \in Nat
      /\ prepared # <<>> =>
              /\ prepared = <<prepared[1]>>
              /\ IF at <= PrefixLength THEN Op.op = "gate" ELSE IsMeasurement(Op)
              /\ at <= PrefixLength + 1 => state = prepared[1]
  BY ShotFacts
<1>2. prepared # <<>> => at > PrefixLength
  BY <1>1 DEF IsMeasurement
<1>3. s = state
  BY <1>2 DEF UnderWay
<1>4. ASSUME prepared # <<>> PROVE (IF m = <<>> THEN <<s>> ELSE m) = prepared
  <2>1. CASE at <= PrefixLength + 1
    <3>1. m = <<>>
      BY <1>4, <2>1 DEF UnderWay
    <3>2. state = prepared[1] /\ prepared = <<prepared[1]>>
      BY <1>1, <1>4, <2>1
    <3>3. QED
      BY <1>3, <3>1, <3>2
  <2>2. CASE ~(at <= PrefixLength + 1)
    <3>1. m = prepared
      BY <1>4, <2>2 DEF UnderWay
    <3>2. QED
      BY <1>4, <3>1
  <2>3. QED
    BY <2>1, <2>2
<1>5. ~(prepared # <<>> /\ at + 1 <= PrefixLength + 1)
  BY <1>1, <1>2
<1>6. QED
  BY <1>3, <1>4, <1>5, Zenon

\* A measurement of one qubit keeps the invariant.
LEMMA MeasureQubitInv ==
  ASSUME operations \in Seq(Operations), verdict = "accepted", verdict' = verdict, RunInv, MeasureQubit
  PROVE  RunInv'
<1>1. PICK b \in Possible(state, Op.qubit) :
        /\ state' = Collapse(state, Op.qubit, b)
        /\ classical' = [classical EXCEPT ![Op.bit] = b]
        /\ drawn' = Append(drawn, b)
        /\ Account({"executed", IF b = 1 THEN "ones" ELSE "zeros"})
  BY DEF MeasureQubit
<1>2. phase = "shot" /\ at <= Len(operations) /\ Op.op = "measure"
  BY DEF MeasureQubit, Running
<1>3. b \in {0, 1}
  BY DEF Possible
<1>4. IsMeasurement(Op)
  BY <1>2 DEF IsMeasurement
<1>5. drawn \in Seq({0, 1}) /\ classical \in Labels /\ Op \in Operations
  BY <1>2, ShotFacts
<1>6. PICK s, m, g : UnderWay(s, m, g)
  BY <1>2 DEF RunInv, ShotInv
<1> DEFINE heads == {"executed", IF b = 1 THEN "ones" ELSE "zeros"}
           n == IF m = <<>> THEN <<s>> ELSE m
           t == Collapse(s, Op.qubit, b)
<1>7. heads \in SUBSET Heads /\ "failed" \notin heads
  BY DEF Heads, Untouched
<1>8. /\ s = state
      /\ prepared # <<>> => n = IF at + 1 <= PrefixLength + 1 THEN <<>> ELSE prepared
      /\ ~(prepared # <<>> /\ at + 1 <= PrefixLength + 1)
  BY <1>2, <1>4, <1>6, MeasurementFacts
<1>9. <<b>> \in Seq({0, 1}) /\ drawn' = drawn \o <<b>>
  BY <1>1, <1>3, <1>5, AppendIsConcat
<1>10. classical' \in Labels
  <2>1. Op.bit \in Bits
    BY <1>2, <1>5 DEF Operations
  <2>2. QED
    BY <1>1, <1>3, <1>5, <2>1 DEF Labels
<1>11. \A rest \in Seq({0, 1}) :
         PlayOne(Playing(s, classical, <<b>> \o rest, m, g), Op) =
           Playing(t, [classical EXCEPT ![Op.bit] = b], rest, n, Append(g, heads))
  <2>1. b \in Possible(s, Op.qubit)
    BY <1>8
  <2>2. ASSUME NEW rest \in Seq({0, 1})
        PROVE  PlayOne(Playing(s, classical, <<b>> \o rest, m, g), Op) =
                 Playing(t, [classical EXCEPT ![Op.bit] = b], rest, n, Append(g, heads))
    <3>1. Op.op = "measure"
      BY <1>2
    <3>2. ASSUME NEW d, d = <<b>>
          PROVE  PlayOne(Playing(s, classical, d \o rest, m, g), Op) =
                   Playing(Collapse(s, Op.qubit, b), Written(classical, Op.bit, b), rest, MetAt(m, s), Append(g, Reading(b)))
      BY <1>3, <2>1, <3>1, <3>2, PlayMeasure
    <3>3. QED
      BY <3>2, Zenon DEF Written, MetAt, Reading
  <2>3. QED
    BY <2>2
<1>12. t = state'
  BY <1>1, <1>8
<1> HIDE DEF heads, n, t
<1>13. Account(heads)
  BY <1>1 DEF heads
<1>14. Moves(heads, <<b>>, s, m, g, t, n)
  <2>1. \A rest \in Seq({0, 1}) :
          PlayOne(Playing(s, classical, <<b>> \o rest, m, g), Op) =
            Playing(t, classical', rest, n, Append(g, heads))
    BY <1>1, <1>11
  <2>2. QED
    BY <1>6, <1>7, <1>8, <1>9, <1>10, <1>12, <1>13, <2>1, Zenon DEF Moves
<1>15. QED
  BY <1>2, <1>14, Stepped, Zenon

\* A measurement of the register keeps the invariant.
LEMMA MeasureRegisterInv ==
  ASSUME operations \in Seq(Operations), verdict = "accepted", verdict' = verdict, RunInv, MeasureRegister
  PROVE  RunInv'
<1>1. PICK i \in Basis :
        /\ state[i] # Nought
        /\ classical' = [b \in Bits |-> IF b \in Qubits THEN Bit(i, b) ELSE classical[b]]
        /\ drawn' = drawn \o [q \in 1 .. Width |-> Bit(i, q - 1)]
        /\ Account({"executed"})
  BY DEF MeasureRegister
<1>2. phase = "shot" /\ at <= Len(operations) /\ Op.op = "full"
  BY DEF MeasureRegister, Running
<1>3. IsMeasurement(Op)
  BY <1>2 DEF IsMeasurement
<1>4. drawn \in Seq({0, 1}) /\ classical \in Labels /\ at \in 1 .. Len(operations) /\ ValidProgram /\ Len(operations) \in Nat
  BY <1>2, ShotFacts
<1>5. PICK s, m, g : UnderWay(s, m, g)
  BY <1>2 DEF RunInv, ShotInv
<1>6. at = Len(operations)
  BY <1>2, <1>4 DEF ValidProgram, Op
<1> DEFINE d == [q \in 1 .. Width |-> Bit(i, q - 1)]
           n == IF m = <<>> THEN <<s>> ELSE m
<1>7. /\ s = state
      /\ prepared # <<>> => n = IF at + 1 <= PrefixLength + 1 THEN <<>> ELSE prepared
      /\ ~(prepared # <<>> /\ at + 1 <= PrefixLength + 1)
  BY <1>2, <1>3, <1>5, MeasurementFacts
<1>8. \A q \in Qubits : Bit(i, q) \in {0, 1}
  BY BitsOfIndex
<1>9. /\ d \in Seq({0, 1}) /\ Len(d) = Width
      /\ \A q \in Qubits : Bit(i, q) = d[q + 1]
  <2>1. Width \in Nat
    BY WidthAssumption
  <2>2. \A q \in 1 .. Width : q - 1 \in Qubits
    BY <2>1 DEF Qubits
  <2>3. \A q \in Qubits : q + 1 \in 1 .. Width /\ (q + 1) - 1 = q
    BY <2>1 DEF Qubits
  <2>4. \A q \in 1 .. Width : Bit(i, q - 1) \in {0, 1}
    BY <1>8, <2>2
  <2>5. d \in [1 .. Width -> {0, 1}]
    BY <2>4
  <2>6. d \in Seq({0, 1}) /\ Len(d) = Width
    <3> HIDE DEF d
    <3>1. QED
      BY <2>1, <2>5
  <2>7. QED
    BY <2>3, <2>6
<1>10. classical' \in Labels
  BY <1>1, <1>4, <1>8 DEF Labels
<1>11. \A rest \in Seq({0, 1}) :
         PlayOne(Playing(s, classical, d \o rest, m, g), Op) =
           Playing(s, classical', rest, n, Append(g, {"executed"}))
  <2> HIDE DEF d, n
  <2>1. classical' = [c \in Bits |-> IF c \in Qubits THEN d[c + 1] ELSE classical[c]]
    BY <1>1, <1>9
  <2>2. \A rest \in Seq({0, 1}) :
          PlayOne(Playing(s, classical, d \o rest, m, g), Op) =
            Playing(s, [c \in Bits |-> IF c \in Qubits THEN d[c + 1] ELSE classical[c]], rest, n, Append(g, {"executed"}))
    <3>1. s[i] # Nought
      BY <1>1, <1>7
    <3>2. QED
      BY <1>2, <1>9, <3>1, PlayFull DEF n
  <2>3. QED
    BY <2>1, <2>2
<1>12. {"executed"} \in SUBSET Heads /\ "failed" \notin {"executed"}
  BY DEF Heads, Untouched
<1>13. ~(at + 1 <= Len(operations))
  BY <1>4, <1>6
<1>14. drawn' = drawn \o d /\ Account({"executed"})
  BY <1>1
<1> HIDE DEF d, n
<1>15. Moves({"executed"}, d, s, m, g, s, n)
  BY <1>5, <1>7, <1>9, <1>10, <1>11, <1>12, <1>13, <1>14, Zenon DEF Moves
<1>16. QED
  BY <1>2, <1>15, Stepped, Zenon

-----------------------------------------------------------------------------
(* The beginnings and the ends of shots, and of the run.                   *)

-----------------------------------------------------------------------------
(* The beginnings and the ends.                                            *)

\* What no action here touches leaves the invariant.
LEMMA SameRun ==
  ASSUME RunInv, verdict' = verdict,
         UNCHANGED <<operations, backend, phase, prepared, state, classical, at, shot, stats, counts,
                     observed, drawn, past, demand, answer>>
  PROVE  RunInv'
<1>1. /\ (ValidProgram' <=> ValidProgram) /\ (Measured' <=> Measured) /\ (ShotByShot' <=> ShotByShot)
      /\ (Reusable' <=> Reusable) /\ PrefixLength' = PrefixLength /\ Prepare' = Prepare
      /\ \A o, n : PlayTo(o, n)' = PlayTo(o, n)
      /\ Mixture' = Mixture
  BY SamePlays
<1>2. /\ \A i, head : Times(i, head)' = Times(i, head)
      /\ \A n : Play(past[n])' = Play(past[n])
  BY SameTimes
<1>3. Support(Mixture)' = Support(Mixture)
  BY <1>1 DEF Support
<1>4. \A d : Answer(d)' = Answer(d)
  BY DEF Answer, Unanswerable, StabilizerChecks, DenseChecks, PauliCheck, Assertions
<1>5. CourseInv'
  BY <1>1, <1>3, <1>4 DEF RunInv, CourseInv
<1>6. PastInv'
  <2>1. \A n : Whole(past[n])' <=> Whole(past[n])
    BY <1>2 DEF Whole, Logged
  <2>2. QED
    BY <1>1, <1>2, <2>1 DEF RunInv, PastInv
<1>7. ShotInv'
  <2>1. \A s, m, g : UnderWay(s, m, g)' <=> UnderWay(s, m, g)
    BY <1>1, <1>2 DEF UnderWay, Here, Logged
  <2>2. QED
    BY <1>1, <2>1 DEF RunInv, ShotInv
<1>8. QED
  BY <1>5, <1>6, <1>7 DEF RunInv

\* An end that answers nothing.
LEMMA EndInv ==
  ASSUME RunInv, verdict = "accepted", verdict' = verdict, NEW how \in {"refused", "blocked", "unsupported", "failed"},
         phase \in {"loaded", "between", "shot"}, End(how)
  PROVE  RunInv'
<1>1. phase' = how /\ answer' = answer
  BY DEF End
<1>2. answer = "none"
  BY DEF RunInv, CourseInv
<1>3. CourseInv'
  BY <1>1, <1>2 DEF CourseInv
<1>4. PastInv' /\ ShotInv'
  BY <1>1 DEF PastInv, ShotInv
<1>5. QED
  BY <1>3, <1>4 DEF RunInv

\* The beginning of a run keeps the invariant.
LEMMA BeginInv ==
  ASSUME operations \in Seq(Operations), verdict = "accepted", verdict' = verdict, RunInv, Begin
  PROVE  RunInv'
<1>1. /\ phase = "loaded" /\ phase' = "between" /\ ValidProgram /\ Measured /\ ShotByShot
      /\ prepared' = (IF Reusable THEN <<Prepare>> ELSE <<>>)
      /\ stats' = [i \in DOMAIN operations |-> Untouched]
      /\ UNCHANGED <<operations, backend, state, classical, at, shot, counts, observed, drawn, past, demand, answer>>
  BY DEF Begin, source, history
<1>2. /\ shot = 0 /\ past = <<>> /\ counts = [l \in Labels |-> 0] /\ answer = "none"
  BY <1>1 DEF RunInv, CourseInv
<1>3. /\ (ValidProgram' <=> ValidProgram) /\ (Measured' <=> Measured) /\ (ShotByShot' <=> ShotByShot)
      /\ (Reusable' <=> Reusable) /\ Prepare' = Prepare
  BY <1>1, SamePlays
<1>4. CourseInv'
  BY <1>1, <1>2, <1>3 DEF CourseInv
<1>5. 1 .. shot' = {} /\ Cardinality({}) = 0
  BY <1>1, <1>2, FS_EmptySet
<1>6. \A i, head : Times(i, head)' = 0
  BY <1>5 DEF Times
<1>7. /\ stats' \in [DOMAIN operations -> [Heads -> Nat]]
      /\ \A i \in DOMAIN operations : \A head \in Heads : stats'[i][head] = 0
  BY <1>1 DEF Heads, Untouched
<1>8. PastInv'
  <2>1. counts' = [l \in Labels |-> Cardinality({n \in 1 .. shot' : (Play(past[n]).bits)' = l})]
    BY <1>1, <1>2, <1>5
  <2>2. shot' \in 0 .. Shots /\ past' \in Seq(Seq({0, 1})) /\ Len(past') = shot'
    BY <1>1, <1>2, ExecutionAssumption
  <2>3. \A n \in 1 .. shot' : Whole(past[n])'
    BY <1>5
  <2>4. stats' \in [DOMAIN operations' -> [Heads -> Nat]]
    BY <1>1, <1>7
  <2>5. \A i \in DOMAIN operations' : \A head \in Heads : stats'[i][head] = Times(i, head)'
    BY <1>1, <1>6, <1>7
  <2>6. QED
    BY <2>1, <2>2, <2>3, <2>4, <2>5 DEF PastInv
<1>9. ShotInv'
  BY <1>1 DEF ShotInv
<1>10. QED
  BY <1>4, <1>8, <1>9 DEF RunInv

\* A shot starts as a play does, from the ground state.
LEMMA StartShotInv ==
  ASSUME operations \in Seq(Operations), verdict = "accepted", verdict' = verdict, RunInv, StartShot
  PROVE  RunInv'
<1>1. /\ phase = "between" /\ phase' = "shot" /\ shot < Shots
      /\ state' = (IF prepared # <<>> THEN prepared[1] ELSE Ground)
      /\ classical' = Cleared /\ at' = 1 /\ drawn' = <<>>
      /\ UNCHANGED <<operations, backend, prepared, shot, stats, counts, observed, past, demand, answer>>
  BY DEF StartShot, source, records
<1>2. /\ ValidProgram /\ Measured /\ ShotByShot
      /\ prepared = IF Reusable THEN <<Prepare>> ELSE <<>>
  BY <1>1 DEF RunInv, CourseInv
<1>3. CourseInv'
  BY <1>1, <1>2, SameCourse DEF RunInv
<1>4. PastInv'
  <2>1. stats' \in [DOMAIN operations -> [Heads -> Nat]]
    BY <1>1, <1>2 DEF RunInv, PastInv
  <2>2. QED
    BY <1>1, <1>2, <2>1, SamePast DEF RunInv
<1>5. PrefixLength \in Nat /\ PrefixLength < Len(operations) /\ Len(operations) \in Nat
      /\ PrefixLength' = PrefixLength
  BY <1>1, <1>2, PrefixFacts, SamePlays, LenProperties
<1>6. Here(Ground, <<>>, <<>>)'
  <2>1. ASSUME NEW rest \in Seq({0, 1}) PROVE PlayTo(<<>> \o rest, 0) = Playing(Ground, Cleared, rest, <<>>, <<>>)
    <3>1. <<>> \o rest = rest
      BY NothingDrawn
    <3>2. PlayTo(rest, 0) = Begun(rest)
      BY PlayEquations
    <3>3. Begun(rest) = Playing(Ground, Cleared, rest, <<>>, <<>>)
      BY Zenon DEF Begun, Playing, Sure
    <3>4. QED
      BY <3>1, <3>2, <3>3
  <2>2. at' - 1 = 0
    BY <1>1
  <2>3. QED
    BY <1>1, <2>1, <2>2, SamePlays DEF Here
<1>7. Logged(<<>>, 0)'
  <2>1. <<>> \in Seq(SUBSET Heads) /\ Len(<<>>) = 0 /\ 1 .. 0 = {}
    BY EmptySeq
  <2>2. QED
    BY <2>1 DEF Logged
<1>8. UnderWay(Ground, <<>>, <<>>)'
  <2>1. at' - 1 = 0 /\ ~(at' > PrefixLength' + 1) /\ at' <= PrefixLength' + 1
    BY <1>1, <1>5
  <2>2. Logged(<<>>, at - 1)'
    BY <1>7, <2>1 DEF Logged
  <2>3. at' <= Len(operations') /\ (prepared' = <<>> \/ at' > PrefixLength') => Ground = state'
    <3>1. CASE prepared = <<>>
      BY <1>1, <3>1
    <3>2. CASE prepared # <<>> /\ PrefixLength = 0
      <4>1. Prepare = Ground
        BY <3>2, PrepareEquations
      <4>2. prepared[1] = Prepare
        BY <1>2, <3>2
      <4>3. QED
        BY <1>1, <3>2, <4>1, <4>2
    <3>3. CASE prepared # <<>> /\ PrefixLength # 0
      BY <1>1, <1>5, <3>3
    <3>4. QED
      BY <3>1, <3>2, <3>3
  <2>4. \A i \in (DOMAIN operations)' : \A head \in Heads :
          stats'[i][head] = Times(i, head)' + (IF i < at' /\ head \in <<>>[i] THEN 1 ELSE 0)
    <3>1. \A i \in DOMAIN operations : \A head \in Heads : stats[i][head] = Times(i, head)
      BY <1>1, <1>2 DEF RunInv, PastInv
    <3>2. DOMAIN operations = 1 .. Len(operations)
      BY LenProperties
    <3>3. \A i \in DOMAIN operations : ~(i < at')
      BY <1>1, <3>2
    <3>4. \A i, head : Times(i, head)' = Times(i, head)
      BY <1>1, SameTimes
    <3>5. shot \in Nat
      BY <1>1, <1>2, ExecutionAssumption DEF RunInv, PastInv
    <3>6. \A i, head : Times(i, head) \in Nat
      BY <3>5, TimesType
    <3>7. QED
      BY <1>1, <3>1, <3>3, <3>4, <3>6
  <2>5. QED
    BY <1>6, <2>1, <2>2, <2>3, <2>4 DEF UnderWay
<1>9. ShotInv'
  <2>1. \E s, m, g : UnderWay(s, m, g)'
    BY <1>8
  <2>2. drawn' \in Seq({0, 1})
    BY <1>1, EmptySeq
  <2>3. classical' \in Labels
    BY <1>1 DEF Cleared, Labels
  <2>4. at' \in 1 .. Len(operations') + 1
    BY <1>1, <1>5
  <2>5. prepared' # <<>> /\ at' <= PrefixLength' + 1 => state' = prepared'[1]
    BY <1>1
  <2>6. QED
    BY <1>1, <2>1, <2>2, <2>3, <2>4, <2>5 DEF ShotInv
<1>10. QED
  BY <1>3, <1>4, <1>9 DEF RunInv

\* A shot that has come to its end is a whole play, and is counted.
LEMMA EndShotInv ==
  ASSUME operations \in Seq(Operations), verdict = "accepted", verdict' = verdict, RunInv, EndShot
  PROVE  RunInv'
<1>1. /\ phase = "shot" /\ phase' = "between" /\ at > Len(operations)
      /\ counts' = [counts EXCEPT ![classical] = @ + 1]
      /\ shot' = shot + 1 /\ past' = Append(past, drawn)
      /\ UNCHANGED <<operations, backend, prepared, state, classical, at, stats, observed, drawn, demand, answer>>
  BY DEF EndShot, source, quantum
<1>2. /\ ValidProgram /\ Measured /\ ShotByShot
      /\ prepared = IF Reusable THEN <<Prepare>> ELSE <<>>
  BY <1>1 DEF RunInv, CourseInv
<1>3. /\ (ValidProgram' <=> ValidProgram) /\ (Measured' <=> Measured) /\ (ShotByShot' <=> ShotByShot)
      /\ (Reusable' <=> Reusable) /\ PrefixLength' = PrefixLength /\ Prepare' = Prepare
      /\ \A o : Play(o)' = Play(o)
  BY <1>1, SamePlays
<1>4. /\ shot < Shots /\ at \in 1 .. Len(operations) + 1 /\ drawn \in Seq({0, 1}) /\ classical \in Labels
      /\ shot \in 0 .. Shots /\ past \in Seq(Seq({0, 1})) /\ Len(past) = shot
      /\ \A n \in 1 .. shot : Whole(past[n])
      /\ counts = [l \in Labels |-> Cardinality({n \in 1 .. shot : Play(past[n]).bits = l})]
      /\ stats \in [DOMAIN operations -> [Heads -> Nat]]
  BY <1>1, <1>2 DEF RunInv, ShotInv, PastInv
<1>5. shot \in Nat /\ Shots \in Nat /\ Len(operations) \in Nat /\ DOMAIN operations = 1 .. Len(operations)
  BY <1>4, ExecutionAssumption, LenProperties
<1>6. at = Len(operations) + 1 /\ at - 1 = Len(operations)
  BY <1>1, <1>4, <1>5
<1>7. PICK s, m, g : UnderWay(s, m, g)
  BY <1>1 DEF RunInv, ShotInv
<1>8. Play(drawn) = Playing(s, classical, <<>>, m, g)
  <2>1. <<>> \in Seq({0, 1}) /\ drawn \o <<>> = drawn
    BY <1>4, NothingDrawn
  <2>2. QED
    BY <1>6, <1>7, <2>1 DEF UnderWay, Here, Play
<1>9. Play(drawn).bits = classical /\ Play(drawn).log = g
  BY <1>8 DEF Playing
<1>10. Whole(drawn)
  <2>1. Logged(g, Len(operations))
    BY <1>6, <1>7 DEF UnderWay
  <2>2. prepared # <<>> => m = prepared
    <3>1. PrefixLength \in Nat /\ PrefixLength < Len(operations)
      BY <1>2, PrefixFacts
    <3>2. ~(at <= PrefixLength + 1)
      BY <1>5, <1>6, <3>1
    <3>3. QED
      BY <1>7, <3>2 DEF UnderWay
  <2>3. QED
    BY <1>4, <1>8, <2>1, <2>2 DEF Whole
<1>11. /\ past' \in Seq(Seq({0, 1})) /\ Len(past') = shot + 1
       /\ \A n \in 1 .. shot : past'[n] = past[n]
       /\ past'[shot + 1] = drawn
  BY <1>1, <1>4, AppendProperties
<1>12. \A n \in 1 .. shot + 1 : n \in 1 .. shot \/ n = shot + 1
  BY <1>5
<1>14. \A n \in 1 .. shot + 1 : Play(past[n])' = IF n = shot + 1 THEN Play(drawn) ELSE Play(past[n])
  <2>1. \A n \in 1 .. shot : past'[n] = past[n] /\ n # shot + 1
    BY <1>5, <1>11
  <2>2. \A n \in 1 .. shot : Play(past[n])' = Play(past[n])
    BY <1>3, <2>1
  <2>3. QED
    BY <1>3, <1>11, <1>12, <2>1, <2>2
<1>15. ASSUME NEW l \in Labels
       PROVE  Cardinality({n \in 1 .. shot + 1 : (Play(past[n]))'.bits = l}) =
                Cardinality({n \in 1 .. shot : Play(past[n]).bits = l}) + (IF classical = l THEN 1 ELSE 0)
  <2> DEFINE A == {n \in 1 .. shot : Play(past[n]).bits = l}
             c == classical = l
  <2>1. {n \in 1 .. shot + 1 : (Play(past[n]))'.bits = l} = IF c THEN A \cup {shot + 1} ELSE A
    BY <1>5, <1>9, <1>12, <1>14
  <2>2. A \in SUBSET (1 .. shot) /\ c \in BOOLEAN
    OBVIOUS
  <2> HIDE DEF A, c
  <2>3. Cardinality(IF c THEN A \cup {shot + 1} ELSE A) = Cardinality(A) + (IF c THEN 1 ELSE 0)
    BY <1>5, <2>2, OneMore
  <2>4. QED
    BY <2>1, <2>3 DEF A, c
<1>16. ASSUME NEW i \in DOMAIN operations, NEW head \in Heads
       PROVE  Cardinality({n \in 1 .. shot + 1 : head \in (Play(past[n]))'.log[i]}) =
                Times(i, head) + (IF head \in g[i] THEN 1 ELSE 0)
  <2> DEFINE A == {n \in 1 .. shot : head \in Play(past[n]).log[i]}
             c == head \in g[i]
  <2>1. {n \in 1 .. shot + 1 : head \in (Play(past[n]))'.log[i]} = IF c THEN A \cup {shot + 1} ELSE A
    BY <1>5, <1>9, <1>12, <1>14
  <2>2. A \in SUBSET (1 .. shot) /\ c \in BOOLEAN
    OBVIOUS
  <2> HIDE DEF A, c
  <2>3. Cardinality(IF c THEN A \cup {shot + 1} ELSE A) = Cardinality(A) + (IF c THEN 1 ELSE 0)
    BY <1>5, <2>2, OneMore
  <2>4. QED
    BY <2>1, <2>3 DEF A, c, Times
<1>17. PastInv'
  <2>1. \A n \in 1 .. shot' : Whole(past[n])'
    <3>1. \A n \in 1 .. shot + 1 : \E o : Whole(o) /\ Play(past[n])' = Play(o)
      BY <1>4, <1>10, <1>12, <1>14
    <3>2. \A n \in 1 .. shot + 1 : Whole(past[n])'
      <4>1. ASSUME NEW n \in 1 .. shot + 1 PROVE Whole(past[n])'
        <5>1. PICK o : Whole(o) /\ Play(past[n])' = Play(o)
          BY <3>1
        <5>2. PICK S, B, M, G : /\ Play(o) = Playing(S, B, <<>>, M, G)
                                /\ B \in Labels /\ Logged(G, Len(operations))
                                /\ prepared # <<>> => M = prepared
          BY <5>1 DEF Whole
        <5>3. Logged(G, Len(operations))'
          BY <1>1, <5>2 DEF Logged
        <5>4. QED
          BY <1>1, <5>1, <5>2, <5>3 DEF Whole
      <4>2. QED
        BY <4>1
    <3>3. QED
      BY <1>1, <3>2
  <2>2. counts' = [l \in Labels |-> Cardinality({n \in 1 .. shot' : (Play(past[n]).bits)' = l})]
    <3>1. \A l \in Labels : counts[l] = Cardinality({n \in 1 .. shot : Play(past[n]).bits = l})
      BY <1>4
    <3>2. \A l \in Labels : Cardinality({n \in 1 .. shot : Play(past[n]).bits = l}) \in Nat
      <4>1. ASSUME NEW l \in Labels PROVE Cardinality({n \in 1 .. shot : Play(past[n]).bits = l}) \in Nat
        <5> DEFINE A == {n \in 1 .. shot : Play(past[n]).bits = l}
        <5>1. A \in SUBSET (1 .. shot)
          OBVIOUS
        <5> HIDE DEF A
        <5>2. Cardinality(A) \in 0 .. shot
          BY <1>5, <5>1, OneMore
        <5>3. QED
          BY <1>5, <5>2 DEF A
      <4>2. QED
        BY <4>1
    <3>3. counts' = [l \in Labels |-> counts[l] + (IF classical = l THEN 1 ELSE 0)]
      <4>1. counts \in [Labels -> Nat]
        BY <1>4, <3>1, <3>2
      <4>2. counts' \in [Labels -> Int] /\ \A l \in Labels : counts'[l] = counts[l] + (IF classical = l THEN 1 ELSE 0)
        <5>1. counts' = [counts EXCEPT ![classical] = counts[classical] + 1] /\ classical \in Labels
          BY <1>1, <1>4
        <5>2. counts[classical] + 1 \in Int
          BY <4>1, <5>1
        <5>3. \A l \in Labels : counts'[l] = IF classical = l THEN counts[l] + 1 ELSE counts[l]
          BY <4>1, <5>1
        <5>4. \A l \in Labels : counts[l] \in Int
          BY <4>1
        <5>5. \A l \in Labels : counts'[l] = counts[l] + (IF classical = l THEN 1 ELSE 0)
          BY <5>3, <5>4
        <5>6. counts' \in [Labels -> Int]
          BY <4>1, <5>1, <5>2
        <5>7. QED
          BY <5>5, <5>6
      <4>3. counts' = [l \in Labels |-> counts'[l]]
        BY <4>2
      <4>4. QED
        BY <4>2, <4>3
    <3>4. \A l \in Labels : counts[l] + (IF classical = l THEN 1 ELSE 0) =
                              Cardinality({n \in 1 .. shot' : (Play(past[n]).bits)' = l})
      <4>1. \A l \in Labels : counts[l] + (IF classical = l THEN 1 ELSE 0) =
                                  Cardinality({n \in 1 .. shot + 1 : (Play(past[n]))'.bits = l})
        BY <1>15, <3>1
      <4>2. QED
        BY <1>1, <4>1
    <3>5. QED
      BY <3>3, <3>4
  <2>3. \A i \in DOMAIN operations : \A head \in Heads : stats'[i][head] = Times(i, head)'
    <3>1. ASSUME NEW i \in DOMAIN operations, NEW head \in Heads PROVE stats'[i][head] = Times(i, head)'
      <4>1. stats[i][head] = Times(i, head) + (IF i < at /\ head \in g[i] THEN 1 ELSE 0)
        BY <1>7 DEF UnderWay
      <4>2. i < at
        BY <1>5, <1>6
      <4>3. Times(i, head)' = Cardinality({n \in 1 .. shot + 1 : head \in (Play(past[n]))'.log[i]})
        BY <1>1 DEF Times
      <4>4. QED
        BY <1>1, <1>16, <4>1, <4>2, <4>3
    <3>2. QED
      BY <3>1
  <2>4. shot' \in 0 .. Shots /\ past' \in Seq(Seq({0, 1})) /\ Len(past') = shot'
    BY <1>1, <1>4, <1>5, <1>11
  <2>5. QED
    BY <1>1, <1>4, <2>1, <2>2, <2>3, <2>4 DEF PastInv
<1>18. CourseInv'
  BY <1>1, <1>2, <1>3 DEF RunInv, CourseInv
<1>19. ShotInv'
  BY <1>1 DEF ShotInv
<1>20. QED
  BY <1>17, <1>18, <1>19 DEF RunInv

\* The end of a run keeps the invariant.
LEMMA ConcludeInv ==
  ASSUME verdict = "accepted", verdict' = verdict, RunInv, Conclude
  PROVE  RunInv'
<1>1. /\ phase = "between" /\ phase' = "ran" /\ shot = Shots
      /\ observed' = (IF backend = "stabilizer" THEN {} ELSE {l \in Labels : counts[l] > 0})
      /\ UNCHANGED <<operations, backend, prepared, state, classical, at, shot, stats, counts, drawn, past, demand, answer>>
  BY DEF Conclude, source, quantum, history
<1>2. /\ ValidProgram /\ Measured /\ ShotByShot
      /\ prepared = IF Reusable THEN <<Prepare>> ELSE <<>>
  BY <1>1 DEF RunInv, CourseInv
<1>3. /\ (ValidProgram' <=> ValidProgram) /\ (Measured' <=> Measured) /\ (ShotByShot' <=> ShotByShot)
      /\ (Reusable' <=> Reusable) /\ Prepare' = Prepare
  BY <1>1, SamePlays
<1>4. PastInv'
  <2>1. stats' \in [DOMAIN operations -> [Heads -> Nat]]
    BY <1>1, <1>2 DEF RunInv, PastInv
  <2>2. QED
    BY <1>1, <1>2, <2>1, SamePast DEF RunInv
<1>5. CourseInv'
  BY <1>1, <1>2, <1>3 DEF RunInv, CourseInv
<1>6. ShotInv'
  BY <1>1 DEF ShotInv
<1>7. QED
  BY <1>4, <1>5, <1>6 DEF RunInv

\* A run that is not shot by shot keeps the invariant.
LEMMA RunStaticInv ==
  ASSUME verdict = "accepted", verdict' = verdict, RunInv, RunStatic
  PROVE  RunInv'
<1>1. /\ phase = "loaded" /\ phase' = "ran" /\ ValidProgram /\ Measured /\ ~ShotByShot
      /\ observed' = Support(Mixture)
      /\ UNCHANGED <<operations, backend, stats, answer>>
  BY DEF RunStatic, source
<1>2. /\ (ValidProgram' <=> ValidProgram) /\ (Measured' <=> Measured) /\ (ShotByShot' <=> ShotByShot)
      /\ Mixture' = Mixture
  BY <1>1, SamePlays
<1>3. Support(Mixture)' = Support(Mixture)
  BY <1>2 DEF Support
<1>4. CourseInv'
  BY <1>1, <1>2, <1>3 DEF RunInv, CourseInv
<1>5. PastInv' /\ ShotInv'
  BY <1>1, <1>2 DEF PastInv, ShotInv
<1>6. QED
  BY <1>4, <1>5 DEF RunInv

\* Verification keeps the invariant.
LEMMA VerifyInv ==
  ASSUME verdict = "accepted", verdict' = verdict, RunInv, Verify
  PROVE  RunInv'
<1>1. /\ phase = "ran" /\ phase' = "verified"
      /\ UNCHANGED <<operations, backend, prepared, state, classical, at, shot, stats, counts, observed, drawn, past>>
  BY DEF Verify, source, quantum, records, history
<1>2. answer' = Answer(demand)'
  BY <1>1 DEF Verify, Answer, Unanswerable, StabilizerChecks, DenseChecks, PauliCheck, Assertions
<1>3. /\ (ValidProgram' <=> ValidProgram) /\ (Measured' <=> Measured) /\ (ShotByShot' <=> ShotByShot)
      /\ (Reusable' <=> Reusable) /\ Prepare' = Prepare /\ Mixture' = Mixture
  BY <1>1, SamePlays
<1>4. Support(Mixture)' = Support(Mixture)
  BY <1>3 DEF Support
<1>5. CourseInv'
  BY <1>1, <1>2, <1>3, <1>4 DEF RunInv, CourseInv
<1>6. PastInv'
  <2>1. CASE ShotByShot
    <3>1. stats' \in [DOMAIN operations -> [Heads -> Nat]]
      BY <1>1, <2>1 DEF RunInv, PastInv
    <3>2. QED
      BY <1>1, <2>1, <3>1, SamePast DEF RunInv
  <2>2. CASE ~ShotByShot
    BY <1>3, <2>2 DEF PastInv
  <2>3. QED
    BY <2>1, <2>2
<1>7. ShotInv'
  BY <1>1 DEF ShotInv
<1>8. QED
  BY <1>5, <1>6, <1>7 DEF RunInv

-----------------------------------------------------------------------------
(* The run as a whole, and its report.                                     *)

\* While the source is parsed, nothing runs.
LEMMA ParseKeepsRun ==
  ASSUME RunInv, ParseStep
  PROVE  RunInv'
<1>1. verdict = "parsing" /\ UNCHANGED <<phase, prepared, state, classical, at, shot, stats, counts, observed, drawn, past, demand, answer>>
  BY DEF ParseStep, Parse, Use, AppendOperation, Return, Finish, quantum, records, history
<1>2. phase = "loaded"
  BY <1>1 DEF RunInv, CourseInv
<1>3. CourseInv'
  BY <1>1, <1>2 DEF RunInv, CourseInv
<1>4. PastInv' /\ ShotInv'
  BY <1>1, <1>2 DEF PastInv, ShotInv
<1>5. QED
  BY <1>3, <1>4 DEF RunInv

\* Whatever is executed keeps the invariant.
LEMMA ExecuteInv ==
  ASSUME operations \in Seq(Operations), RunInv, RunStep
  PROVE  RunInv'
<1>1. verdict = "accepted" /\ verdict' = verdict /\ Execute
  BY DEF RunStep
<1>2. CASE RefuseProgram \/ BlockProgram \/ Unsupported \/ AllocationFails
  <2>1. CASE RefuseProgram
    BY <1>1, <2>1, EndInv DEF RefuseProgram
  <2>2. CASE BlockProgram
    BY <1>1, <2>2, EndInv DEF BlockProgram
  <2>3. CASE Unsupported
    BY <1>1, <2>3, EndInv DEF Unsupported
  <2>4. CASE AllocationFails
    BY <1>1, <2>4, EndInv DEF AllocationFails
  <2>5. QED
    BY <1>2, <2>1, <2>2, <2>3, <2>4
<1>3. CASE Begin \/ RunStatic \/ StartShot \/ EndShot \/ Conclude \/ Verify
  BY <1>1, <1>3, BeginInv, RunStaticInv, StartShotInv, EndShotInv, ConcludeInv, VerifyInv
<1>4. CASE PassPrepared \/ ApplyGate \/ SkipConditional \/ AssertBit \/ MeasureQubit \/ MeasureRegister
  BY <1>1, <1>4, PassPreparedInv, ApplyGateInv, SkipConditionalInv, AssertBitInv, MeasureQubitInv, MeasureRegisterInv
<1>5. QED
  BY <1>1, <1>2, <1>3, <1>4, Zenon DEF Execute

\* The invariant holds before anything ran.
LEMMA FreshInv == Fresh => RunInv
<1>1. SUFFICES ASSUME Fresh PROVE RunInv
  OBVIOUS
<1>2. /\ phase = "loaded" /\ shot = 0 /\ stats = <<>> /\ past = <<>> /\ counts = [l \in Labels |-> 0]
      /\ prepared = <<>> /\ answer = "none"
  BY <1>1 DEF Fresh
<1>3. CourseInv
  BY <1>2 DEF CourseInv
<1>4. PastInv /\ ShotInv
  BY <1>2 DEF PastInv, ShotInv
<1>5. QED
  BY <1>3, <1>4 DEF RunInv

\* For every program, shots, outcomes of the measurements and backend: in every
\* reachable state what ran so far is what independent shots would have done.
THEOREM RunIsThatOfShots == Spec => []RunInv
<1>1. Init => RunInv
  BY FreshInv DEF Init
<1>2. Inv /\ RunInv /\ [Next]_vars => RunInv'
  <2> SUFFICES ASSUME Inv, RunInv, [Next]_vars PROVE RunInv'
    OBVIOUS
  <2>1. operations \in Seq(Operations)
    BY DEF Inv, ParserInv, ParserTypeOK
  <2>2. CASE ParseStep
    BY <2>2, ParseKeepsRun
  <2>3. CASE RunStep
    BY <2>1, <2>3, ExecuteInv
  <2>4. CASE Done \/ UNCHANGED vars
    <3>1. verdict' = verdict
          /\ UNCHANGED <<operations, backend, phase, prepared, state, classical, at, shot, stats, counts,
                         observed, drawn, past, demand, answer>>
      BY <2>4 DEF Done, vars, executionVars, source, quantum, records, history
    <3>2. QED
      BY <3>1, SameRun
  <2>5. QED
    BY <2>2, <2>3, <2>4 DEF Next
<1>3. QED
  BY <1>1, <1>2, ParserIsExact, PTL DEF Spec

-----------------------------------------------------------------------------
\* What the invariant says of the report.
LEMMA ReportOfRun ==
  ASSUME RunInv
  PROVE  ReportIsOfTheShots
<1>1. SUFFICES ASSUME Completed, ShotByShot
               PROVE  /\ \A s \in 1 .. Shots : Plays[s].possible /\ Plays[s].left = <<>>
                      /\ counts = [l \in Labels |-> Cardinality({s \in 1 .. Shots : Plays[s].bits = l})]
                      /\ \A i \in DOMAIN operations : \A head \in DOMAIN Untouched :
                           stats[i][head] = Cardinality({s \in 1 .. Shots : head \in Plays[s].log[i]})
  BY Zenon DEF ReportIsOfTheShots
<1>2. phase \in {"ran", "verified"} /\ shot = Shots
  BY <1>1 DEF Completed, RunInv, CourseInv
<1>3. /\ \A n \in 1 .. Shots : Whole(past[n])
      /\ counts = [l \in Labels |-> Cardinality({n \in 1 .. Shots : Play(past[n]).bits = l})]
      /\ \A i \in DOMAIN operations : \A head \in Heads : stats[i][head] = Times(i, head)
  BY <1>1, <1>2 DEF RunInv, PastInv
<1>4. \A n \in 1 .. Shots : Plays[n] = Play(past[n])
  BY DEF Plays
<1>5. ASSUME NEW n \in 1 .. Shots PROVE Plays[n].possible /\ Plays[n].left = <<>>
  <2>1. PICK s, b, m, g : Play(past[n]) = Playing(s, b, <<>>, m, g)
    BY <1>3 DEF Whole
  <2>2. Playing(s, b, <<>>, m, g).left = <<>> /\ Playing(s, b, <<>>, m, g).possible = Sure
    BY DEF Playing
  <2>3. Plays[n].possible = Sure /\ Plays[n].left = <<>>
    BY <1>4, <2>1, <2>2
  <2>4. QED
    BY <2>3, Zenon DEF Sure
<1>6. counts = [l \in Labels |-> Cardinality({s \in 1 .. Shots : Plays[s].bits = l})]
  <2>1. \A l : {s \in 1 .. Shots : Plays[s].bits = l} = {n \in 1 .. Shots : Play(past[n]).bits = l}
    BY <1>4
  <2>2. QED
    BY <1>3, <2>1
<1>7. ASSUME NEW i \in DOMAIN operations, NEW head \in Heads
      PROVE  stats[i][head] = Cardinality({s \in 1 .. Shots : head \in Plays[s].log[i]})
  <2>1. {s \in 1 .. Shots : head \in Plays[s].log[i]} = {n \in 1 .. Shots : head \in Play(past[n]).log[i]}
    BY <1>4
  <2>2. QED
    BY <1>2, <1>3, <2>1 DEF Times
<1>8. QED
  BY <1>5, <1>6, <1>7, Zenon DEF Heads

\* A report of shots, prepared once or not, is that of independent whole shots.
THEOREM ReportIsTheShots == Spec => []ReportIsOfTheShots
BY RunIsThatOfShots, ReportOfRun, PTL

-----------------------------------------------------------------------------
(* The verdicts of verify.                                                 *)

\* What is counted is there.
LEMMA SomeCounted ==
  ASSUME NEW k \in Nat, NEW A \in SUBSET (1 .. k)
  PROVE  Cardinality(A) \in Nat /\ (Cardinality(A) = 0 <=> A = {})
<1>1. IsFiniteSet(1 .. k)
  BY FS_Interval
<1>2. IsFiniteSet(A)
  BY <1>1, FS_Subset
<1>3. QED
  BY <1>2, FS_EmptySet, FS_CardinalityType

\* The shots of a finished run, one by one.
LEMMA FinishedShots ==
  ASSUME operations \in Seq(Operations), RunInv, Completed, ShotByShot
  PROVE  /\ shot = Shots /\ Shots \in Nat \ {0}
         /\ ToSet(Plays) = {Play(past[n]) : n \in 1 .. Shots}
         /\ \A n \in 1 .. Shots :
              /\ Play(past[n]).bits \in Labels
              /\ Logged(Play(past[n]).log, Len(operations))
              /\ prepared # <<>> => Play(past[n]).met = prepared
         /\ DOMAIN stats = 1 .. Len(operations)
         /\ \A i \in DOMAIN stats : stats[i].failed = Times(i, "failed")
         /\ counts = [l \in Labels |-> Cardinality({n \in 1 .. Shots : Play(past[n]).bits = l})]
<1>1. phase \in {"ran", "verified"}
  BY DEF Completed
<1>2. shot = Shots /\ Shots \in Nat \ {0}
  BY <1>1, ExecutionAssumption DEF RunInv, CourseInv
<1>3. ToSet(Plays) = {Play(past[n]) : n \in 1 .. Shots}
  BY DEF Plays, ToSet
<1>4. /\ \A n \in 1 .. Shots : Whole(past[n])
      /\ DOMAIN stats = DOMAIN operations /\ \A i \in DOMAIN operations : \A head \in Heads : stats[i][head] = Times(i, head)
      /\ counts = [l \in Labels |-> Cardinality({n \in 1 .. Shots : Play(past[n]).bits = l})]
  BY <1>1, <1>2 DEF RunInv, PastInv
<1>5. ASSUME NEW n \in 1 .. Shots
      PROVE  /\ Play(past[n]).bits \in Labels
             /\ Logged(Play(past[n]).log, Len(operations))
             /\ prepared # <<>> => Play(past[n]).met = prepared
  <2>1. PICK s, b, m, g : /\ Play(past[n]) = Playing(s, b, <<>>, m, g)
                          /\ b \in Labels /\ Logged(g, Len(operations))
                          /\ prepared # <<>> => m = prepared
    BY <1>4 DEF Whole
  <2>2. Play(past[n]).bits = b /\ Play(past[n]).log = g /\ Play(past[n]).met = m
    BY <2>1 DEF Playing
  <2>3. QED
    BY <2>1, <2>2
<1>6. "failed" \in Heads
  BY DEF Heads, Untouched
<1>7. QED
  BY <1>2, <1>3, <1>4, <1>5, <1>6, LenProperties

\* An assertion that failed in a shot is on record, and only such a one.
LEMMA FailuresAreCounted ==
  ASSUME operations \in Seq(Operations), RunInv, Completed, ShotByShot
  PROVE  AssertionsHold <=> \A i \in Assertions : stats[i].failed = 0
<1> DEFINE Failing(i) == {n \in 1 .. shot : "failed" \in Play(past[n]).log[i]}
<1>1. /\ shot = Shots /\ Shots \in Nat \ {0}
      /\ ToSet(Plays) = {Play(past[n]) : n \in 1 .. Shots}
      /\ \A n \in 1 .. Shots : Logged(Play(past[n]).log, Len(operations))
      /\ DOMAIN stats = 1 .. Len(operations)
      /\ \A i \in DOMAIN stats : stats[i].failed = Times(i, "failed")
  BY FinishedShots
<1>2. \A i : Times(i, "failed") = 0 <=> Failing(i) = {}
  <2>1. ASSUME NEW i PROVE Times(i, "failed") = 0 <=> Failing(i) = {}
    <3> DEFINE A == Failing(i)
    <3>1. A \in SUBSET (1 .. shot) /\ shot \in Nat
      BY <1>1
    <3>2. Times(i, "failed") = Cardinality(A)
      BY DEF Times
    <3> HIDE DEF A
    <3>3. Cardinality(A) = 0 <=> A = {}
      BY <3>1, SomeCounted
    <3>4. QED
      BY <3>2, <3>3 DEF A
  <2>2. QED
    BY <2>1
<1>3. ASSUME AssertionsHold, NEW i \in Assertions PROVE stats[i].failed = 0
  <2>1. i \in DOMAIN stats /\ i \in 1 .. Len(operations)
    BY <1>1, <1>3 DEF Assertions
  <2>2. ASSUME NEW n \in 1 .. shot PROVE "failed" \notin Play(past[n]).log[i]
    <3>1. Play(past[n]) \in ToSet(Plays)
      BY <1>1
    <3>2. Play(past[n]).log[i] \in ToSet(Play(past[n]).log)
      <4>1. DOMAIN Play(past[n]).log = 1 .. Len(operations)
        BY <1>1, LenProperties DEF Logged
      <4>2. QED
        BY <2>1, <4>1 DEF ToSet
    <3>3. QED
      BY <1>3, <3>1, <3>2 DEF AssertionsHold
  <2>3. Failing(i) = {}
    BY <2>2
  <2>4. QED
    BY <1>1, <1>2, <2>1, <2>3
<1>4. ASSUME \A i \in Assertions : stats[i].failed = 0 PROVE AssertionsHold
  <2>1. SUFFICES ASSUME NEW play \in ToSet(Plays), NEW heads \in ToSet(play.log), "failed" \in heads
                 PROVE  FALSE
    BY Zenon DEF AssertionsHold
  <2>2. PICK n \in 1 .. shot : play = Play(past[n])
    BY <1>1
  <2>3. DOMAIN play.log = 1 .. Len(operations) /\ Logged(play.log, Len(operations))
    BY <1>1, <2>2, LenProperties DEF Logged
  <2>4. PICK i \in 1 .. Len(operations) : heads = play.log[i]
    BY <2>3 DEF ToSet
  <2>5. operations[i].op = "assert"
    BY <2>1, <2>3, <2>4 DEF Logged
  <2>6. i \in Assertions
    BY <1>1, <2>4, <2>5 DEF Assertions
  <2>7. n \in Failing(i)
    BY <2>1, <2>2, <2>4
  <2>8. QED
    BY <1>1, <1>2, <1>4, <2>4, <2>6, <2>7
<1>5. QED
  BY <1>3, <1>4

\* The labels reported are those of the shots, or the support of the state.
LEMMA ReportedIsWitnessed ==
  ASSUME operations \in Seq(Operations), RunInv, Completed, backend # "stabilizer"
  PROVE  observed = Witnessed
<1>1. CASE ShotByShot
  <2>1. observed = {l \in Labels : counts[l] > 0}
    BY <1>1 DEF Completed, RunInv, CourseInv
  <2>2. /\ Shots \in Nat /\ ToSet(Plays) = {Play(past[n]) : n \in 1 .. Shots}
        /\ \A n \in 1 .. Shots : Play(past[n]).bits \in Labels
        /\ \A l \in Labels : counts[l] = Cardinality({n \in 1 .. Shots : Play(past[n]).bits = l})
    BY <1>1, FinishedShots
  <2>3. ASSUME NEW l \in Labels PROVE counts[l] > 0 <=> \E n \in 1 .. Shots : Play(past[n]).bits = l
    <3> DEFINE A == {n \in 1 .. Shots : Play(past[n]).bits = l}
    <3>1. A \in SUBSET (1 .. Shots) /\ counts[l] = Cardinality(A)
      BY <2>2
    <3>2. A # {} <=> \E n \in 1 .. Shots : Play(past[n]).bits = l
      OBVIOUS
    <3> HIDE DEF A
    <3>3. Cardinality(A) \in Nat /\ (Cardinality(A) = 0 <=> A = {})
      BY <2>2, <3>1, SomeCounted
    <3>4. counts[l] > 0 <=> A # {}
      <4>1. \A k \in Nat : k > 0 <=> k # 0
        OBVIOUS
      <4>2. counts[l] \in Nat /\ (counts[l] = 0 <=> A = {})
        BY <3>1, <3>3, Zenon
      <4>3. QED
        BY <4>1, <4>2, Zenon
    <3>5. QED
      BY <3>2, <3>4
  <2>4. Witnessed = {Play(past[n]).bits : n \in 1 .. Shots}
    BY <1>1, <2>2 DEF Witnessed
  <2>5. QED
    BY <2>1, <2>2, <2>3, <2>4
<1>2. CASE ~ShotByShot
  BY <1>2 DEF Completed, RunInv, CourseInv, Witnessed
<1>3. QED
  BY <1>1, <1>2

\* What is prepared is what every shot measures first.
LEMMA ExpectedOfPrepared ==
  ASSUME operations \in Seq(Operations), RunInv, Completed, ShotByShot, prepared # <<>>, NEW request
  PROVE  Expected(request) <=> Expectation(prepared[1], request.pauli) = request.expected
<1>1. /\ ToSet(Plays) = {Play(past[n]) : n \in 1 .. Shots} /\ Shots \in Nat \ {0}
      /\ \A n \in 1 .. Shots : Play(past[n]).met = prepared
  BY FinishedShots
<1>2. 1 \in 1 .. Shots
  BY <1>1
<1>3. QED
  BY <1>1, <1>2 DEF Expected

\* An assertion of the program is one of the report.
LEMMA AssertionsOfProgram ==
  ASSUME operations \in Seq(Operations), RunInv, Completed, Assertions # {}
  PROVE  "assert" \in Kinds(operations) /\ ShotByShot
<1>1. PICK i \in DOMAIN stats : operations[i].op = "assert"
  BY DEF Assertions
<1>2. ShotByShot
  <2>1. ~ShotByShot => DOMAIN stats = {}
    BY DEF Completed, RunInv, CourseInv
  <2>2. QED
    BY <1>1, <2>1
<1>3. DOMAIN stats = DOMAIN operations
  BY <1>2, FinishedShots, LenProperties
<1>4. QED
  BY <1>1, <1>2, <1>3 DEF Kinds, ToSet

\* What the invariant says of the stabilizer backend's answer ...
LEMMA StabilizerAnswer ==
  ASSUME operations \in Seq(Operations), RunInv, phase = "verified", backend = "stabilizer"
  PROVE  /\ answer = "PASS" =>
              /\ AssertionsHold /\ demand.allowed = AnyOutcome
              /\ \A request \in demand.paulis : request # InvalidRequest /\ Expected(request)
              /\ demand.normalized \/ demand.paulis # {} \/ "assert" \in Kinds(operations)
         /\ answer = "FAIL" => ~AssertionsHold \/ \E request \in demand.paulis \ {InvalidRequest} : ~Expected(request)
<1> DEFINE checks == StabilizerChecks(demand)
<1>1. /\ Completed /\ ShotByShot
      /\ answer \in {"PASS", "FAIL"} => answer = StabilizerStatus(checks)
  <2>1. Completed /\ ShotByShot /\ answer = Answer(demand)
    BY DEF Completed, ShotByShot, RunInv, CourseInv
  <2>2. QED
    BY <2>1, Zenon DEF Answer
<1>2. AssertionsHold <=> \A i \in Assertions : stats[i].failed = 0
  BY <1>1, FailuresAreCounted
<1>3. \A request : prepared # <<>> => (Expected(request) <=> Expectation(prepared[1], request.pauli) = request.expected)
  BY <1>1, ExpectedOfPrepared
<1>4. ASSUME answer = "PASS"
      PROVE  /\ AssertionsHold /\ demand.allowed = AnyOutcome
             /\ \A request \in demand.paulis : request # InvalidRequest /\ Expected(request)
             /\ demand.normalized \/ demand.paulis # {} \/ "assert" \in Kinds(operations)
  <2>1. "FAIL" \notin checks /\ checks # {} /\ "UNSUPPORTED" \notin checks
    <3> HIDE DEF checks
    <3>1. QED
      BY <1>1, <1>4 DEF StabilizerStatus
  <2>2. \A request \in demand.paulis : PauliCheck(request) \in checks
    BY Zenon DEF StabilizerChecks
  <2>3. \A request \in demand.paulis : request # InvalidRequest /\ Expected(request)
    <3>1. ASSUME NEW request \in demand.paulis PROVE request # InvalidRequest /\ Expected(request)
      <4>1. PauliCheck(request) # "FAIL" /\ PauliCheck(request) # "UNSUPPORTED"
        BY <2>1, <2>2, Zenon
      <4>2. request # InvalidRequest /\ prepared # <<>> /\ Expectation(prepared[1], request.pauli) = request.expected
        BY <4>1, Zenon DEF PauliCheck
      <4>3. QED
        BY <1>3, <4>2, Zenon
    <3>2. QED
      BY <3>1
  <2>4. demand.allowed = AnyOutcome
    <3>1. demand.allowed # AnyOutcome => "UNSUPPORTED" \in checks
      BY DEF StabilizerChecks
    <3>2. QED
      BY <2>1, <3>1, Zenon
  <2>5. AssertionsHold
    <3>1. ASSUME NEW i \in Assertions, stats[i].failed # 0 PROVE "FAIL" \in checks
      BY <3>1 DEF StabilizerChecks
    <3> HIDE DEF checks
    <3>2. QED
      BY <1>2, <2>1, <3>1
  <2>6. demand.normalized \/ demand.paulis # {} \/ "assert" \in Kinds(operations)
    <3>1. SUFFICES ASSUME ~demand.normalized, demand.paulis = {}, Assertions = {} PROVE checks = {}
      BY <1>1, <2>1, AssertionsOfProgram
    <3>2. {demand.normalized} \cap {TRUE} = {}
      BY <3>1, Zenon
    <3>3. {demand.allowed} \ {AnyOutcome} = {}
      BY <2>4
    <3>4. QED
      BY <3>1, <3>2, <3>3, Zenon DEF StabilizerChecks
  <2>7. QED
    BY <2>3, <2>4, <2>5, <2>6
<1>5. ASSUME answer = "FAIL" PROVE ~AssertionsHold \/ \E request \in demand.paulis \ {InvalidRequest} : ~Expected(request)
  <2>1. "FAIL" \in checks
    <3> HIDE DEF checks
    <3>1. QED
      BY <1>1, <1>5 DEF StabilizerStatus
  <2>2. \/ \E request \in demand.paulis : "FAIL" = PauliCheck(request)
        \/ \E i \in Assertions : stats[i].failed # 0
    BY <2>1 DEF StabilizerChecks
  <2>3. CASE \E i \in Assertions : stats[i].failed # 0
    BY <1>2, <2>3
  <2>4. ASSUME NEW request \in demand.paulis, "FAIL" = PauliCheck(request) PROVE request # InvalidRequest /\ ~Expected(request)
    <3>1. request # InvalidRequest /\ prepared # <<>> /\ Expectation(prepared[1], request.pauli) # request.expected
      BY <2>4 DEF PauliCheck
    <3>2. QED
      BY <1>3, <3>1, Zenon
  <2>5. QED
    BY <2>2, <2>3, <2>4
<1>6. QED
  BY <1>4, <1>5

\* ... and of the others'.
LEMMA DenseAnswer ==
  ASSUME operations \in Seq(Operations), RunInv, phase = "verified", backend # "stabilizer"
  PROVE  /\ answer = "PASS" => AssertionsHold /\ OutcomesAllowed /\ demand.paulis = {}
         /\ answer = "FAIL" => ~AssertionsHold \/ ~OutcomesAllowed
<1> DEFINE checks == DenseChecks(demand)
<1>1. Completed /\ answer = IF demand.paulis # {} THEN "raised" ELSE IF "FAIL" \in checks THEN "FAIL" ELSE "PASS"
  BY DEF Completed, RunInv, CourseInv, Answer, Unanswerable
<1>2. observed = Witnessed
  BY <1>1, ReportedIsWitnessed
<1>3. AssertionsHold <=> \A i \in Assertions : stats[i].failed = 0
  <2>1. CASE ShotByShot
    BY <1>1, <2>1, FailuresAreCounted
  <2>2. CASE ~ShotByShot
    BY <1>1, <2>2, AssertionsOfProgram DEF AssertionsHold
  <2>3. QED
    BY <2>1, <2>2
<1>4. "FAIL" \in checks <=> \/ demand.allowed # AnyOutcome /\ ~(observed \subseteq demand.allowed)
                            \/ \E i \in Assertions : stats[i].failed # 0
  BY DEF DenseChecks
<1> HIDE DEF checks
<1>5. OutcomesAllowed <=> (demand.allowed = AnyOutcome \/ observed \subseteq demand.allowed)
  BY <1>2 DEF OutcomesAllowed
<1>6. QED
  BY <1>1, <1>3, <1>4, <1>5

\* The verdict is earned wherever the invariant holds.
LEMMA VerdictOfRun ==
  ASSUME operations \in Seq(Operations), RunInv
  PROVE  VerdictIsEarned
<1>1. answer \in {"PASS", "FAIL"} => phase = "verified"
  BY DEF RunInv, CourseInv
<1>2. CASE backend = "stabilizer"
  BY <1>1, <1>2, StabilizerAnswer DEF VerdictIsEarned, OutcomesAllowed
<1>3. CASE backend # "stabilizer"
  BY <1>1, <1>3, DenseAnswer DEF VerdictIsEarned
<1>4. QED
  BY <1>2, <1>3

\* verify passes only what it looked at and what held, and fails only what did not.
THEOREM VerdictsAreEarned == Spec => []VerdictIsEarned
<1>1. Inv /\ RunInv => VerdictIsEarned
  BY VerdictOfRun DEF Inv, ParserInv, ParserTypeOK
<1>2. QED
  BY <1>1, ParserIsExact, RunIsThatOfShots, PTL

-----------------------------------------------------------------------------
(* Types.                                                                  *)

\* What is prepared is a state.
LEMMA PrepareType ==
  ASSUME operations \in Seq(Operations), Measured, Reusable
  PROVE  Prepare \in States
<1>1. /\ PrefixLength \in Nat /\ PrefixLength < Len(operations) /\ Len(operations) \in Nat
      /\ \A i \in 1 .. PrefixLength : operations[i].op = "gate"
  BY PrefixFacts, LenProperties
<1>2. PICK f : /\ f[0] = Ground /\ Prepare = f[PrefixLength]
               /\ \A k \in 1 .. PrefixLength : f[k] = Apply(f[k - 1], operations[k])
  BY <1>1, PrepareEquations
<1> DEFINE P == {k \in Nat : k <= PrefixLength => f[k] \in States}
<1>3. 0 \in P
  BY <1>2, GroundType
<1>4. ASSUME NEW k \in Nat, k \in P PROVE k + 1 \in P
  <2>1. SUFFICES ASSUME k + 1 <= PrefixLength PROVE f[k + 1] \in States
    OBVIOUS
  <2>2. k <= PrefixLength /\ k + 1 \in 1 .. PrefixLength /\ (k + 1) - 1 = k /\ k + 1 \in 1 .. Len(operations)
    BY <1>1, <2>1
  <2>3. f[k] \in States
    BY <1>4, <2>2
  <2>4. operations[k + 1] \in Operations /\ operations[k + 1].op = "gate"
    BY <1>1, <2>2, ElementOfSeq
  <2>5. Apply(f[k], operations[k + 1]) \in States
    BY <2>3, <2>4, ApplyType
  <2>6. QED
    BY <1>2, <2>2, <2>5
<1>5. PrefixLength \in P
  <2> HIDE DEF P
  <2>1. QED
    BY <1>1, <1>3, <1>4, Induction
<1>6. QED
  BY <1>1, <1>2, <1>5

\* A collapsed state is a state.
LEMMA CollapseType ==
  ASSUME NEW v \in States, NEW q, NEW b
  PROVE  Collapse(v, q, b) \in States
BY DEF Collapse, States, Amplitudes, Nought

\* Labels read bits.
LEMMA SupportType ==
  ASSUME NEW mixed
  PROVE  Support(mixed) \subseteq Labels
<1>1. \A i \in Basis : Label(i) \in Labels
  BY BitsOfIndex DEF Label, Labels
<1>2. QED
  BY <1>1 DEF Support

\* What is on record of a run that is not over has its type.
Recorded ==
  phase \in {"between", "shot", "ran", "verified"} /\ ShotByShot =>
    /\ stats \in Seq([Heads -> 0 .. Shots]) /\ counts \in [Labels -> 0 .. Shots]
    /\ shot \in 0 .. Shots /\ past \in Seq(Seq({0, 1}))
    /\ phase = "shot" => drawn \in Seq({0, 1}) /\ classical \in Labels /\ at \in Nat \ {0}

\* The invariant gives the types of what is recorded.
LEMMA RecordedOfRun ==
  ASSUME operations \in Seq(Operations), RunInv
  PROVE  Recorded
<1>1. SUFFICES ASSUME phase \in {"between", "shot", "ran", "verified"}, ShotByShot
               PROVE  /\ stats \in Seq([Heads -> 0 .. Shots]) /\ counts \in [Labels -> 0 .. Shots]
                      /\ shot \in 0 .. Shots /\ past \in Seq(Seq({0, 1}))
                      /\ phase = "shot" => drawn \in Seq({0, 1}) /\ classical \in Labels /\ at \in Nat \ {0}
  BY DEF Recorded
<1>2. /\ shot \in 0 .. Shots /\ past \in Seq(Seq({0, 1})) /\ Len(past) = shot
      /\ counts = [l \in Labels |-> Cardinality({n \in 1 .. shot : Play(past[n]).bits = l})]
      /\ stats \in [DOMAIN operations -> [Heads -> Nat]]
      /\ phase # "shot" => \A i \in DOMAIN operations : \A head \in Heads : stats[i][head] = Times(i, head)
  BY <1>1 DEF RunInv, PastInv
<1>3. Shots \in Nat /\ shot \in Nat /\ Len(operations) \in Nat /\ DOMAIN operations = 1 .. Len(operations)
  BY <1>2, ExecutionAssumption, LenProperties
<1>4. phase = "shot" => shot < Shots /\ drawn \in Seq({0, 1}) /\ classical \in Labels /\ at \in Nat \ {0}
  BY <1>3 DEF RunInv, ShotInv
<1>5. ASSUME NEW i \in DOMAIN operations, NEW head \in Heads PROVE stats[i][head] \in 0 .. Shots
  <2>1. Times(i, head) \in 0 .. shot
    BY <1>3, TimesType
  <2>2. CASE phase # "shot"
    BY <1>2, <1>3, <2>1, <2>2
  <2>3. CASE phase = "shot"
    <3>1. PICK s, m, g : UnderWay(s, m, g)
      BY <2>3 DEF RunInv, ShotInv
    <3>2. stats[i][head] = Times(i, head) + (IF i < at /\ head \in g[i] THEN 1 ELSE 0)
      BY <3>1 DEF UnderWay
    <3>3. QED
      BY <1>3, <1>4, <2>1, <2>3, <3>2
  <2>4. QED
    BY <2>2, <2>3
<1>6. ASSUME NEW l \in Labels PROVE counts[l] \in 0 .. Shots
  <2> DEFINE A == {n \in 1 .. shot : Play(past[n]).bits = l}
  <2>1. A \in SUBSET (1 .. shot) /\ counts[l] = Cardinality(A)
    BY <1>2
  <2> HIDE DEF A
  <2>2. Cardinality(A) \in 0 .. shot
    BY <1>3, <2>1, OneMore
  <2>3. QED
    BY <1>2, <1>3, <2>1, <2>2
<1>7. counts \in [Labels -> 0 .. Shots]
  BY <1>2, <1>6
<1>8. stats \in Seq([Heads -> 0 .. Shots])
  <2>1. \A i \in 1 .. Len(operations) : stats[i] \in [Heads -> 0 .. Shots]
    BY <1>2, <1>3, <1>5
  <2>2. QED
    BY <1>2, <1>3, <2>1
<1>9. QED
  BY <1>2, <1>4, <1>7, <1>8

\* One operation of a shot leaves a state, and touches nothing it should not.
LEMMA OperationTypes ==
  ASSUME operations \in Seq(Operations), RunInv, ExecutionTypeOK, Recorded', NEW heads, Account(heads),
         phase = "shot", state' \in States
  PROVE  ExecutionTypeOK'
<1>1. UNCHANGED <<operations, backend, phase, prepared, observed, demand, answer>>
  BY Zenon DEF Account, source
<1>2. ShotByShot'
  BY <1>1, SamePlays DEF RunInv, CourseInv
<1>3. /\ stats' \in Seq([Heads -> 0 .. Shots]) /\ counts' \in [Labels -> 0 .. Shots]
      /\ shot' \in 0 .. Shots /\ past' \in Seq(Seq({0, 1}))
      /\ drawn' \in Seq({0, 1}) /\ classical' \in Labels /\ at' \in Nat \ {0}
  BY <1>1, <1>2 DEF Recorded
<1>4. QED
  BY <1>1, <1>3 DEF ExecutionTypeOK, States, Amplitudes, Heads

\* Every step of the execution keeps the types.
LEMMA StepTypes ==
  ASSUME operations \in Seq(Operations), RunInv, ExecutionTypeOK, Recorded', RunStep
  PROVE  ExecutionTypeOK'
<1>1. verdict = "accepted" /\ Execute
  BY DEF RunStep
<1>2. state \in States /\ (prepared # <<>> => prepared[1] \in States) /\ Shots \in Nat
  <2>1. Shots \in Nat
    BY ExecutionAssumption
  <2>2. QED
    BY <2>1 DEF ExecutionTypeOK, States, Amplitudes
<1>3. at <= Len(operations) /\ at \in Nat \ {0} => Op \in Operations
  BY ElementOfSeq DEF Op
<1>4. at \in Nat \ {0}
  BY DEF ExecutionTypeOK
<1>5. CASE RefuseProgram \/ BlockProgram \/ Unsupported \/ AllocationFails
  <2>1. /\ phase' \in {"refused", "blocked", "unsupported", "failed"}
        /\ UNCHANGED <<operations, backend, prepared, state, classical, at, shot, stats, counts, observed, drawn, past, demand, answer>>
    BY <1>5 DEF RefuseProgram, BlockProgram, Unsupported, AllocationFails, End, source, quantum, records, history
  <2>2. QED
    BY <2>1 DEF ExecutionTypeOK
<1>6. CASE Begin
  <2>1. /\ phase' = "between" /\ ValidProgram /\ Measured /\ ShotByShot
        /\ prepared' = (IF Reusable THEN <<Prepare>> ELSE <<>>)
        /\ UNCHANGED <<operations, backend, state, classical, at, shot, counts, observed, drawn, past, demand, answer>>
    BY <1>6 DEF Begin, source, history
  <2>2. prepared' = <<>> \/ prepared' \in [1 .. 1 -> States]
    BY <2>1, PrepareType
  <2>3. stats' \in Seq([Heads -> 0 .. Shots])
    BY <2>1, SamePlays DEF Recorded
  <2>4. QED
    BY <2>1, <2>2, <2>3 DEF ExecutionTypeOK, States, Amplitudes, Heads
<1>7. CASE RunStatic
  <2>1. /\ phase' = "ran" /\ shot' = Shots /\ observed' = Support(Mixture)
        /\ UNCHANGED <<operations, backend, prepared, state, classical, at, stats, drawn, past, demand, answer>>
    BY <1>7 DEF RunStatic, source, quantum, history
  <2>2. PICK sample \in [1 .. Shots -> Support(Mixture)] :
          counts' = [l \in Labels |-> Cardinality({s \in 1 .. Shots : sample[s] = l})]
    BY <1>7 DEF RunStatic
  <2>3. ASSUME NEW l \in Labels PROVE Cardinality({s \in 1 .. Shots : sample[s] = l}) \in 0 .. Shots
    <3> DEFINE A == {s \in 1 .. Shots : sample[s] = l}
    <3>1. A \in SUBSET (1 .. Shots)
      OBVIOUS
    <3> HIDE DEF A
    <3>2. Cardinality(A) \in 0 .. Shots
      BY <1>2, <3>1, OneMore
    <3>3. QED
      BY <3>2 DEF A
  <2>4. counts' \in [Labels -> 0 .. Shots]
    BY <2>2, <2>3
  <2>5. observed' \subseteq Labels
    BY <2>1, SupportType
  <2>6. QED
    BY <1>2, <2>1, <2>4, <2>5 DEF ExecutionTypeOK
<1>8. CASE StartShot
  <2>1. /\ phase' = "shot"
        /\ state' = (IF prepared # <<>> THEN prepared[1] ELSE Ground)
        /\ classical' = Cleared /\ at' = 1 /\ drawn' = <<>>
        /\ UNCHANGED <<operations, backend, prepared, shot, stats, counts, observed, past, demand, answer>>
    BY <1>8 DEF StartShot, source, records
  <2>2. state' \in States
    BY <1>2, <2>1, GroundType
  <2>3. classical' \in Labels /\ drawn' \in Seq({0, 1})
    BY <2>1, EmptySeq DEF Cleared, Labels
  <2>4. QED
    BY <2>1, <2>2, <2>3 DEF ExecutionTypeOK, States, Amplitudes
<1>9. CASE PassPrepared \/ SkipConditional \/ AssertBit
  <2>1. /\ phase = "shot" /\ state' = state
        /\ \E heads : Account(heads)
    BY <1>9 DEF PassPrepared, SkipConditional, AssertBit, Running
  <2>2. QED
    BY <1>2, <2>1, OperationTypes
<1>10. CASE ApplyGate
  <2>1. /\ phase = "shot" /\ at <= Len(operations) /\ Op.op \in {"gate", "conditional"}
        /\ state' = Apply(state, Op) /\ Account({"executed"})
    BY <1>10 DEF ApplyGate, Running
  <2>2. state' \in States
    BY <1>2, <1>3, <1>4, <2>1, ApplyType
  <2>3. QED
    BY <2>1, <2>2, OperationTypes
<1>11. CASE MeasureQubit
  <2>1. phase = "shot" /\ \E b : state' = Collapse(state, Op.qubit, b)
    BY <1>11 DEF MeasureQubit, Running
  <2>2. state' \in States
    BY <1>2, <2>1, CollapseType
  <2>3. \E heads : Account(heads)
    BY <1>11 DEF MeasureQubit
  <2>4. QED
    BY <2>1, <2>2, <2>3, OperationTypes
<1>12. CASE MeasureRegister
  <2>1. phase = "shot" /\ Account({"executed"})
    BY <1>12 DEF MeasureRegister, Running
  <2>2. PICK i \in Basis : state' = [j \in Basis |-> IF j = i THEN state[i] ELSE Nought]
    BY <1>12 DEF MeasureRegister
  <2>3. state' \in States
    BY <1>2, <2>2 DEF States, Amplitudes, Nought
  <2>4. QED
    BY <2>1, <2>3, OperationTypes
<1>13. CASE EndShot
  <2>1. /\ phase' = "between" /\ phase = "shot"
        /\ UNCHANGED <<operations, backend, prepared, state, classical, at, stats, observed, drawn, demand, answer>>
    BY <1>13 DEF EndShot, source, quantum
  <2>2. ShotByShot'
    BY <2>1, SamePlays DEF RunInv, CourseInv
  <2>3. /\ stats' \in Seq([Heads -> 0 .. Shots]) /\ counts' \in [Labels -> 0 .. Shots]
        /\ shot' \in 0 .. Shots /\ past' \in Seq(Seq({0, 1}))
    BY <2>1, <2>2 DEF Recorded
  <2>4. QED
    BY <2>1, <2>3 DEF ExecutionTypeOK
<1>14. CASE Conclude
  <2>1. /\ phase' = "ran" /\ observed' \subseteq Labels
        /\ UNCHANGED <<operations, backend, prepared, state, classical, at, shot, stats, counts, drawn, past, demand, answer>>
    BY <1>14 DEF Conclude, source, quantum, history
  <2>2. QED
    BY <2>1 DEF ExecutionTypeOK
<1>15. CASE Verify
  <2>1. /\ phase' = "verified" /\ demand' \in Demands
        /\ UNCHANGED <<operations, backend, prepared, state, classical, at, shot, stats, counts, observed, drawn, past>>
    BY <1>15 DEF Verify, source, quantum, records, history
  <2>2. answer' \in {"PASS", "FAIL", "NOT_ASSESSED", "raised"}
    <3>1. \A c : StabilizerStatus(c) \in {"PASS", "FAIL", "NOT_ASSESSED"}
      BY DEF StabilizerStatus
    <3>2. QED
      BY <1>15, <3>1 DEF Verify
  <2>3. QED
    BY <2>1, <2>2 DEF ExecutionTypeOK
<1>16. QED
  BY <1>1, <1>5, <1>6, <1>7, <1>8, <1>9, <1>10, <1>11, <1>12, <1>13, <1>14, <1>15, Zenon DEF Execute

\* Parsing touches the operations only.
LEMMA ParseTypes ==
  ASSUME ExecutionTypeOK, ParseStep, operations' \in Seq(Operations), backend' \in Backends
  PROVE  ExecutionTypeOK'
<1>1. UNCHANGED <<phase, prepared, state, classical, at, shot, stats, counts, observed, drawn, past, demand, answer>>
  BY DEF ParseStep, quantum, records, history
<1>2. QED
  BY <1>1 DEF ExecutionTypeOK

\* The types hold before anything ran.
LEMMA FreshTypes ==
  ASSUME ParserTypeOK, Fresh
  PROVE  ExecutionTypeOK
<1>1. /\ phase = "loaded" /\ shot = 0 /\ stats = <<>> /\ past = <<>> /\ counts = [l \in Labels |-> 0]
      /\ prepared = <<>> /\ answer = "none" /\ state = Ground /\ classical = Cleared /\ at = 1
      /\ observed = {} /\ drawn = <<>>
  BY DEF Fresh
<1>2. demand \in Demands
  <2>1. demand = CHOOSE d \in Demands : TRUE
    BY DEF Fresh
  <2>2. Demands # {}
    BY ExecutionAssumption
  <2>3. QED
    BY <2>1, <2>2
<1>3. state \in States /\ classical \in Labels
  BY <1>1, GroundType DEF Cleared, Labels
<1>4. counts \in [Labels -> 0 .. Shots] /\ shot \in 0 .. Shots
  BY <1>1, ExecutionAssumption
<1>5. QED
  BY <1>1, <1>2, <1>3, <1>4 DEF ParserTypeOK, ExecutionTypeOK, States, Amplitudes

\* Every variable of the parser and of the execution has its type: the indices of
\* the state vector stay within it, the counts within the shots.
THEOREM TypeCorrect == Spec => []TypeOK
<1>1. Spec => []Recorded
  <2>1. Inv /\ RunInv => Recorded
    BY RecordedOfRun DEF Inv, ParserInv, ParserTypeOK
  <2>2. QED
    BY <2>1, ParserIsExact, RunIsThatOfShots, PTL
<1>2. Inv /\ Init => ExecutionTypeOK
  BY FreshTypes DEF Init, Inv, ParserInv
<1>3. Inv /\ Inv' /\ RunInv /\ ExecutionTypeOK /\ Recorded' /\ [Next]_vars => ExecutionTypeOK'
  <2> SUFFICES ASSUME Inv, Inv', RunInv, ExecutionTypeOK, Recorded', [Next]_vars PROVE ExecutionTypeOK'
    OBVIOUS
  <2>1. operations \in Seq(Operations) /\ operations' \in Seq(Operations) /\ backend' \in Backends
    BY DEF Inv, ParserInv, ParserTypeOK
  <2>2. CASE ParseStep
    BY <2>1, <2>2, ParseTypes
  <2>3. CASE RunStep
    BY <2>1, <2>3, StepTypes
  <2>4. CASE Done \/ UNCHANGED vars
    <3>1. UNCHANGED <<operations, backend, phase, prepared, state, classical, at, shot, stats, counts,
                      observed, drawn, past, demand, answer>>
      BY <2>4 DEF Done, vars, executionVars, source, quantum, records, history
    <3>2. QED
      BY <3>1 DEF ExecutionTypeOK
  <2>5. QED
    BY <2>2, <2>3, <2>4 DEF Next
<1>4. Inv /\ ExecutionTypeOK => TypeOK
  BY DEF Inv, ParserInv, TypeOK
<1>5. QED
  BY <1>1, <1>2, <1>3, <1>4, ParserIsExact, RunIsThatOfShots, PTL DEF Spec

==============================================================================
