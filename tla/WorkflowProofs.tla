--------------------------- MODULE WorkflowProofs ---------------------------
(***************************************************************************)
(* The workflows that put a check between a source and a claim: the        *)
(* compiler's, the native-to-external one and the circuit-pair one.        *)
(*                                                                         *)
(* The first two hand the check something else than what the claim is      *)
(* about: measurements are taken off, swaps put in.  So the first part is  *)
(* about what programs do (After, Meaning), in terms of which removing     *)
(* and routing are shown to make no difference where they were admitted;   *)
(* the second about the invariants of the three workflows.  The last part  *)
(* is about the compiler's search, which finds the routes that the first   *)
(* defines by distances.                                                   *)
(***************************************************************************)
EXTENDS CompilerWorkflow, TopologyRouting, NativeQcecWorkflow, QcecWorkflow,
        SequenceTheorems, FiniteSetTheorems, WellFoundedInduction, TLAPS

-----------------------------------------------------------------------------
(* Induction, and the recursive functions of the models.                   *)

\* Every set of natural numbers that is not empty has a least one.
LEMMA LeastNumber ==
  ASSUME NEW P \in SUBSET Nat, P # {}
  PROVE  \E n \in P : \A m \in P : n <= m
<1> DEFINE Below == {0 .. n : n \in P}
<1>1. IsWellFoundedOn(StrictSubsetOrdering(Nat), FiniteSubsetsOf(Nat))
  BY FS_StrictSubsetOrderingWellFounded
<1>2. Below \subseteq FiniteSubsetsOf(Nat)
  <2>1. ASSUME NEW n \in P PROVE 0 .. n \in FiniteSubsetsOf(Nat)
    <3>1. IsFiniteSet(0 .. n)
      BY FS_Interval
    <3>2. 0 .. n \subseteq Nat
      OBVIOUS
    <3>3. QED
      BY <3>1, <3>2 DEF FiniteSubsetsOf
  <2>2. QED
    BY <2>1
<1>3. Below # {}
  OBVIOUS
<1> HIDE DEF Below
<1>4. PICK x \in Below : \A y \in Below : <<y, x>> \notin StrictSubsetOrdering(Nat)
  BY <1>1, <1>2, <1>3, WFMin
<1> USE DEF Below
<1>5. PICK n \in P : x = 0 .. n
  BY <1>4
<1>6. ASSUME NEW m \in P PROVE n <= m
  <2>1. SUFFICES ASSUME m < n PROVE FALSE
    OBVIOUS
  <2>2. 0 .. m \in SUBSET Nat /\ 0 .. n \in SUBSET Nat /\ 0 .. m \subseteq 0 .. n /\ 0 .. m # 0 .. n
    <3>1. n \in 0 .. n /\ n \notin 0 .. m
      BY <2>1
    <3>2. QED
      BY <2>1, <3>1
  <2>3. <<0 .. m, 0 .. n>> \in StrictSubsetOrdering(Nat)
    BY <2>2 DEF StrictSubsetOrdering
  <2>4. QED
    BY <1>4, <1>5, <2>3
<1>7. QED
  BY <1>6

\* Induction over the natural numbers, for a set in place of a predicate.
LEMMA Induction ==
  ASSUME NEW P, 0 \in P, \A n \in Nat : n \in P => n + 1 \in P
  PROVE  Nat \subseteq P
<1> DEFINE Q == Nat \ P
<1>1. SUFFICES ASSUME Q # {} PROVE FALSE
  OBVIOUS
<1> HIDE DEF Q
<1>2. Q \in SUBSET Nat
  BY DEF Q
<1>3. PICK n \in Q : \A m \in Q : n <= m
  BY <1>1, <1>2, LeastNumber
<1>4. n \in Nat /\ n # 0 /\ n \notin P
  BY <1>3 DEF Q
<1>5. n - 1 \in Nat /\ n - 1 \notin Q
  BY <1>3, <1>4, <1>2
<1>6. QED
  BY <1>4, <1>5 DEF Q

\* What a sequence of operations does, by its last one.
LEMMA AfterEquations ==
  ASSUME NEW width, NEW met, NEW S, NEW s \in Seq(S), NEW x \in S
  PROVE  /\ After(width, met, <<>>) = met
         /\ After(width, met, Append(s, x)) = Doing(width, After(width, met, s), x)
<1>a. ASSUME NEW r, NEW m \in Nat
      PROVE  \E f : f = [k \in 0 .. m |-> IF k = 0 THEN met ELSE Doing(width, f[k - 1], r[k])]
  <2> DEFINE Value(f, k) == IF k = 0 THEN met ELSE Doing(width, f[k - 1], r[k])
             P == {n \in Nat : \E f : f = [k \in 0 .. n |-> Value(f, k)]}
  <2>1. 0 \in P
    <3> DEFINE f == [k \in 0 .. 0 |-> Value(<<>>, k)]
    <3>1. \A k \in 0 .. 0 : Value(f, k) = Value(<<>>, k)
      OBVIOUS
    <3>2. f = [k \in 0 .. 0 |-> Value(f, k)]
      <4> HIDE DEF Value
      <4>1. QED
        BY <3>1
    <3> HIDE DEF f
    <3>3. QED
      BY <3>2
  <2>2. ASSUME NEW n \in Nat, n \in P PROVE n + 1 \in P
    <3>1. PICK f : f = [k \in 0 .. n |-> Value(f, k)]
      BY <2>2
    <3> DEFINE g == [k \in 0 .. n + 1 |-> IF k <= n THEN f[k] ELSE Value(f, k)]
    <3>2. ASSUME NEW k \in 0 .. n + 1 PROVE g[k] = Value(g, k)
      <4>1. k # 0 => g[k - 1] = f[k - 1]
        OBVIOUS
      <4>2. Value(g, k) = Value(f, k)
        BY <4>1
      <4> HIDE DEF Value
      <4>3. k <= n => f[k] = Value(f, k)
        BY <3>1
      <4>4. g[k] = Value(f, k)
        BY <4>3
      <4>5. QED
        BY <4>2, <4>4
    <3>3. g = [k \in 0 .. n + 1 |-> g[k]]
      OBVIOUS
    <3> HIDE DEF g, Value
    <3>4. g = [k \in 0 .. n + 1 |-> Value(g, k)]
      BY <3>2, <3>3
    <3>5. QED
      BY <3>4
  <2>3. m \in P
    <3> HIDE DEF P
    <3>1. QED
      BY <2>1, <2>2, Induction
  <2>4. QED
    BY <2>3
<1> DEFINE Value(t, f, k) == IF k = 0 THEN met ELSE Doing(width, f[k - 1], t[k])
           f(t) == CHOOSE g : g = [k \in 0 .. Len(t) |-> Value(t, g, k)]
           n == Len(s)
           t == Append(s, x)
<1>1. \A r : After(width, met, r) = f(r)[Len(r)]
  BY Zenon DEF After
<1>2. ASSUME NEW r \in Seq(S) PROVE f(r) = [k \in 0 .. Len(r) |-> Value(r, f(r), k)]
  <2>1. Len(r) \in Nat
    OBVIOUS
  <2>2. \E g : g = [k \in 0 .. Len(r) |-> Value(r, g, k)]
    BY <2>1, <1>a, ZenonT(60)
  <2> HIDE DEF Value
  <2>3. QED
    BY <2>2, Zenon
<1> HIDE DEF f
<1>b. ASSUME NEW r \in Seq(S), NEW k \in 0 .. Len(r) PROVE f(r)[k] = Value(r, f(r), k)
  <2> HIDE DEF Value
  <2>1. QED
    BY <1>2
<1>3. n \in Nat /\ t \in Seq(S) /\ Len(t) = n + 1 /\ t[n + 1] = x /\ (\A k \in 1 .. n : t[k] = s[k]) /\ <<>> \in Seq(S)
  OBVIOUS
<1> HIDE DEF n, t
<1>4. After(width, met, <<>>) = met
  <2>1. 0 \in 0 .. Len(<<>>) /\ Len(<<>>) = 0
    OBVIOUS
  <2>2. f(<<>>)[0] = Value(<<>>, f(<<>>), 0)
    <3> HIDE DEF Value
    <3>1. QED
      BY <1>b, <1>3, <2>1
  <2>3. QED
    BY <1>1, <2>1, <2>2
<1>5. f(s)[0] = met /\ f(t)[0] = met
  <2>1. f(s)[0] = Value(s, f(s), 0) /\ f(t)[0] = Value(t, f(t), 0)
    <3> HIDE DEF Value
    <3>1. QED
      BY <1>b, <1>3 DEF n
  <2>2. QED
    BY <2>1, Zenon
<1>6. ASSUME NEW k \in 1 .. n PROVE f(s)[k] = Doing(width, f(s)[k - 1], s[k])
  <2>1. f(s)[k] = Value(s, f(s), k)
    <3> HIDE DEF Value
    <3>1. QED
      BY <1>b, <1>3 DEF n
  <2>2. k # 0
    OBVIOUS
  <2>3. QED
    BY <2>1, <2>2, Zenon
<1>7. ASSUME NEW k \in 1 .. n + 1 PROVE f(t)[k] = Doing(width, f(t)[k - 1], t[k])
  <2>1. f(t)[k] = Value(t, f(t), k)
    <3> HIDE DEF Value
    <3>1. QED
      BY <1>b, <1>3
  <2>2. k # 0
    OBVIOUS
  <2>3. QED
    BY <2>1, <2>2, Zenon
<1>8. \A k \in 0 .. n : f(t)[k] = f(s)[k]
  <2> DEFINE P == {k \in Nat : k <= n => f(t)[k] = f(s)[k]}
  <2>1. 0 \in P
    BY <1>5
  <2>2. ASSUME NEW k \in Nat, k \in P PROVE k + 1 \in P
    <3>1. SUFFICES ASSUME k + 1 <= n PROVE f(t)[k + 1] = f(s)[k + 1]
      OBVIOUS
    <3>2. k + 1 \in 1 .. n /\ k + 1 \in 1 .. n + 1 /\ (k + 1) - 1 = k /\ k <= n
      BY <1>3, <3>1
    <3>3. f(t)[k] = f(s)[k] /\ t[k + 1] = s[k + 1]
      BY <1>3, <2>2, <3>2
    <3>4. f(s)[k + 1] = Doing(width, f(s)[k], s[k + 1]) /\ f(t)[k + 1] = Doing(width, f(t)[k], t[k + 1])
      BY <1>6, <1>7, <3>2
    <3>5. QED
      BY <3>3, <3>4
  <2>3. \A k \in Nat : k \in P
    <3> HIDE DEF P
    <3>1. QED
      BY <2>1, <2>2, Induction
  <2>4. QED
    BY <1>3, <2>3
<1>9. After(width, met, t) = Doing(width, After(width, met, s), x)
  <2>1. n + 1 \in 1 .. n + 1 /\ (n + 1) - 1 = n /\ n \in 0 .. n
    BY <1>3
  <2>2. f(t)[n + 1] = Doing(width, f(t)[n], x)
    BY <1>3, <1>7, <2>1
  <2>3. f(t)[n] = f(s)[n]
    BY <1>8, <2>1
  <2>4. QED
    BY <1>1, <1>3, <2>2, <2>3 DEF n
<1>10. QED
  BY <1>4, <1>9 DEF n, t

\* What is chosen of a sequence, by its last element.
LEMMA ChosenEquations ==
  ASSUME NEW positions, NEW S, NEW s \in Seq(S), NEW x \in S
  PROVE  /\ Chosen(<<>>, positions) = <<>>
         /\ Chosen(Append(s, x), positions) = (IF Len(s) + 1 \in positions THEN Append(Chosen(s, positions), x) ELSE Chosen(s, positions))
<1>a. ASSUME NEW r, NEW m \in Nat
      PROVE  \E f : f = [k \in 0 .. m |-> IF k = 0 THEN <<>> ELSE (IF k \in positions THEN Append(f[k - 1], r[k]) ELSE f[k - 1])]
  <2> DEFINE Value(f, k) == IF k = 0 THEN <<>> ELSE (IF k \in positions THEN Append(f[k - 1], r[k]) ELSE f[k - 1])
             P == {n \in Nat : \E f : f = [k \in 0 .. n |-> Value(f, k)]}
  <2>1. 0 \in P
    <3> DEFINE f == [k \in 0 .. 0 |-> Value(<<>>, k)]
    <3>1. \A k \in 0 .. 0 : Value(f, k) = Value(<<>>, k)
      OBVIOUS
    <3>2. f = [k \in 0 .. 0 |-> Value(f, k)]
      <4> HIDE DEF Value
      <4>1. QED
        BY <3>1
    <3> HIDE DEF f
    <3>3. QED
      BY <3>2
  <2>2. ASSUME NEW n \in Nat, n \in P PROVE n + 1 \in P
    <3>1. PICK f : f = [k \in 0 .. n |-> Value(f, k)]
      BY <2>2
    <3> DEFINE g == [k \in 0 .. n + 1 |-> IF k <= n THEN f[k] ELSE Value(f, k)]
    <3>2. ASSUME NEW k \in 0 .. n + 1 PROVE g[k] = Value(g, k)
      <4>1. k # 0 => g[k - 1] = f[k - 1]
        OBVIOUS
      <4>2. Value(g, k) = Value(f, k)
        BY <4>1
      <4> HIDE DEF Value
      <4>3. k <= n => f[k] = Value(f, k)
        BY <3>1
      <4>4. g[k] = Value(f, k)
        BY <4>3
      <4>5. QED
        BY <4>2, <4>4
    <3>3. g = [k \in 0 .. n + 1 |-> g[k]]
      OBVIOUS
    <3> HIDE DEF g, Value
    <3>4. g = [k \in 0 .. n + 1 |-> Value(g, k)]
      BY <3>2, <3>3
    <3>5. QED
      BY <3>4
  <2>3. m \in P
    <3> HIDE DEF P
    <3>1. QED
      BY <2>1, <2>2, Induction
  <2>4. QED
    BY <2>3
<1> DEFINE Value(t, f, k) == IF k = 0 THEN <<>> ELSE (IF k \in positions THEN Append(f[k - 1], t[k]) ELSE f[k - 1])
           f(t) == CHOOSE g : g = [k \in 0 .. Len(t) |-> Value(t, g, k)]
           n == Len(s)
           t == Append(s, x)
<1>1. \A r : Chosen(r, positions) = f(r)[Len(r)]
  BY Zenon DEF Chosen
<1>2. ASSUME NEW r \in Seq(S) PROVE f(r) = [k \in 0 .. Len(r) |-> Value(r, f(r), k)]
  <2>1. Len(r) \in Nat
    OBVIOUS
  <2>2. \E g : g = [k \in 0 .. Len(r) |-> Value(r, g, k)]
    BY <2>1, <1>a, ZenonT(60)
  <2> HIDE DEF Value
  <2>3. QED
    BY <2>2, Zenon
<1> HIDE DEF f
<1>b. ASSUME NEW r \in Seq(S), NEW k \in 0 .. Len(r) PROVE f(r)[k] = Value(r, f(r), k)
  <2> HIDE DEF Value
  <2>1. QED
    BY <1>2
<1>3. n \in Nat /\ t \in Seq(S) /\ Len(t) = n + 1 /\ t[n + 1] = x /\ (\A k \in 1 .. n : t[k] = s[k]) /\ <<>> \in Seq(S)
  OBVIOUS
<1> HIDE DEF n, t
<1>4. Chosen(<<>>, positions) = <<>>
  <2>1. 0 \in 0 .. Len(<<>>) /\ Len(<<>>) = 0
    OBVIOUS
  <2>2. f(<<>>)[0] = Value(<<>>, f(<<>>), 0)
    <3> HIDE DEF Value
    <3>1. QED
      BY <1>b, <1>3, <2>1
  <2>3. QED
    BY <1>1, <2>1, <2>2
<1>5. f(s)[0] = <<>> /\ f(t)[0] = <<>>
  <2>1. f(s)[0] = Value(s, f(s), 0) /\ f(t)[0] = Value(t, f(t), 0)
    <3> HIDE DEF Value
    <3>1. QED
      BY <1>b, <1>3 DEF n
  <2>2. QED
    BY <2>1, Zenon
<1>6. ASSUME NEW k \in 1 .. n PROVE f(s)[k] = (IF k \in positions THEN Append(f(s)[k - 1], s[k]) ELSE f(s)[k - 1])
  <2>1. f(s)[k] = Value(s, f(s), k)
    <3> HIDE DEF Value
    <3>1. QED
      BY <1>b, <1>3 DEF n
  <2>2. k # 0
    OBVIOUS
  <2>3. QED
    BY <2>1, <2>2, Zenon
<1>7. ASSUME NEW k \in 1 .. n + 1 PROVE f(t)[k] = (IF k \in positions THEN Append(f(t)[k - 1], t[k]) ELSE f(t)[k - 1])
  <2>1. f(t)[k] = Value(t, f(t), k)
    <3> HIDE DEF Value
    <3>1. QED
      BY <1>b, <1>3
  <2>2. k # 0
    OBVIOUS
  <2>3. QED
    BY <2>1, <2>2, Zenon
<1>8. \A k \in 0 .. n : f(t)[k] = f(s)[k]
  <2> DEFINE P == {k \in Nat : k <= n => f(t)[k] = f(s)[k]}
  <2>1. 0 \in P
    BY <1>5
  <2>2. ASSUME NEW k \in Nat, k \in P PROVE k + 1 \in P
    <3>1. SUFFICES ASSUME k + 1 <= n PROVE f(t)[k + 1] = f(s)[k + 1]
      OBVIOUS
    <3>2. k + 1 \in 1 .. n /\ k + 1 \in 1 .. n + 1 /\ (k + 1) - 1 = k /\ k <= n
      BY <1>3, <3>1
    <3>3. f(t)[k] = f(s)[k] /\ t[k + 1] = s[k + 1]
      BY <1>3, <2>2, <3>2
    <3>4. f(s)[k + 1] = (IF (k + 1) \in positions THEN Append(f(s)[k], s[k + 1]) ELSE f(s)[k]) /\ f(t)[k + 1] = (IF (k + 1) \in positions THEN Append(f(t)[k], t[k + 1]) ELSE f(t)[k])
      BY <1>6, <1>7, <3>2
    <3>5. QED
      BY <3>3, <3>4
  <2>3. \A k \in Nat : k \in P
    <3> HIDE DEF P
    <3>1. QED
      BY <2>1, <2>2, Induction
  <2>4. QED
    BY <1>3, <2>3
<1>9. Chosen(t, positions) = (IF (n + 1) \in positions THEN Append(Chosen(s, positions), x) ELSE Chosen(s, positions))
  <2>1. n + 1 \in 1 .. n + 1 /\ (n + 1) - 1 = n /\ n \in 0 .. n
    BY <1>3
  <2>2. f(t)[n + 1] = (IF (n + 1) \in positions THEN Append(f(t)[n], x) ELSE f(t)[n])
    BY <1>3, <1>7, <2>1
  <2>3. f(t)[n] = f(s)[n]
    BY <1>8, <2>1
  <2>4. QED
    BY <1>1, <1>3, <2>2, <2>3 DEF n
<1>10. QED
  BY <1>4, <1>9 DEF n, t

\* The swaps of a trace, by its last record.
LEMMA SwapsInEquations ==
  ASSUME NEW S, NEW s \in Seq(S), NEW x \in S
  PROVE  /\ SwapsIn(<<>>) = 0
         /\ SwapsIn(Append(s, x)) = SwapsIn(s) + x.swaps
<1>a. ASSUME NEW r, NEW m \in Nat
      PROVE  \E f : f = [k \in 0 .. m |-> IF k = 0 THEN 0 ELSE f[k - 1] + r[k].swaps]
  <2> DEFINE Value(f, k) == IF k = 0 THEN 0 ELSE f[k - 1] + r[k].swaps
             P == {n \in Nat : \E f : f = [k \in 0 .. n |-> Value(f, k)]}
  <2>1. 0 \in P
    <3> DEFINE f == [k \in 0 .. 0 |-> Value(<<>>, k)]
    <3>1. \A k \in 0 .. 0 : Value(f, k) = Value(<<>>, k)
      OBVIOUS
    <3>2. f = [k \in 0 .. 0 |-> Value(f, k)]
      <4> HIDE DEF Value
      <4>1. QED
        BY <3>1
    <3> HIDE DEF f
    <3>3. QED
      BY <3>2
  <2>2. ASSUME NEW n \in Nat, n \in P PROVE n + 1 \in P
    <3>1. PICK f : f = [k \in 0 .. n |-> Value(f, k)]
      BY <2>2
    <3> DEFINE g == [k \in 0 .. n + 1 |-> IF k <= n THEN f[k] ELSE Value(f, k)]
    <3>2. ASSUME NEW k \in 0 .. n + 1 PROVE g[k] = Value(g, k)
      <4>1. k # 0 => g[k - 1] = f[k - 1]
        OBVIOUS
      <4>2. Value(g, k) = Value(f, k)
        BY <4>1
      <4> HIDE DEF Value
      <4>3. k <= n => f[k] = Value(f, k)
        BY <3>1
      <4>4. g[k] = Value(f, k)
        BY <4>3
      <4>5. QED
        BY <4>2, <4>4
    <3>3. g = [k \in 0 .. n + 1 |-> g[k]]
      OBVIOUS
    <3> HIDE DEF g, Value
    <3>4. g = [k \in 0 .. n + 1 |-> Value(g, k)]
      BY <3>2, <3>3
    <3>5. QED
      BY <3>4
  <2>3. m \in P
    <3> HIDE DEF P
    <3>1. QED
      BY <2>1, <2>2, Induction
  <2>4. QED
    BY <2>3
<1> DEFINE Value(t, f, k) == IF k = 0 THEN 0 ELSE f[k - 1] + t[k].swaps
           f(t) == CHOOSE g : g = [k \in 0 .. Len(t) |-> Value(t, g, k)]
           n == Len(s)
           t == Append(s, x)
<1>1. \A r : SwapsIn(r) = f(r)[Len(r)]
  BY Zenon DEF SwapsIn
<1>2. ASSUME NEW r \in Seq(S) PROVE f(r) = [k \in 0 .. Len(r) |-> Value(r, f(r), k)]
  <2>1. Len(r) \in Nat
    OBVIOUS
  <2>2. \E g : g = [k \in 0 .. Len(r) |-> Value(r, g, k)]
    BY <2>1, <1>a, ZenonT(60)
  <2> HIDE DEF Value
  <2>3. QED
    BY <2>2, Zenon
<1> HIDE DEF f
<1>b. ASSUME NEW r \in Seq(S), NEW k \in 0 .. Len(r) PROVE f(r)[k] = Value(r, f(r), k)
  <2> HIDE DEF Value
  <2>1. QED
    BY <1>2
<1>3. n \in Nat /\ t \in Seq(S) /\ Len(t) = n + 1 /\ t[n + 1] = x /\ (\A k \in 1 .. n : t[k] = s[k]) /\ <<>> \in Seq(S)
  OBVIOUS
<1> HIDE DEF n, t
<1>4. SwapsIn(<<>>) = 0
  <2>1. 0 \in 0 .. Len(<<>>) /\ Len(<<>>) = 0
    OBVIOUS
  <2>2. f(<<>>)[0] = Value(<<>>, f(<<>>), 0)
    <3> HIDE DEF Value
    <3>1. QED
      BY <1>b, <1>3, <2>1
  <2>3. QED
    BY <1>1, <2>1, <2>2
<1>5. f(s)[0] = 0 /\ f(t)[0] = 0
  <2>1. f(s)[0] = Value(s, f(s), 0) /\ f(t)[0] = Value(t, f(t), 0)
    <3> HIDE DEF Value
    <3>1. QED
      BY <1>b, <1>3 DEF n
  <2>2. QED
    BY <2>1, Zenon
<1>6. ASSUME NEW k \in 1 .. n PROVE f(s)[k] = f(s)[k - 1] + s[k].swaps
  <2>1. f(s)[k] = Value(s, f(s), k)
    <3> HIDE DEF Value
    <3>1. QED
      BY <1>b, <1>3 DEF n
  <2>2. k # 0
    OBVIOUS
  <2>3. QED
    BY <2>1, <2>2, Zenon
<1>7. ASSUME NEW k \in 1 .. n + 1 PROVE f(t)[k] = f(t)[k - 1] + t[k].swaps
  <2>1. f(t)[k] = Value(t, f(t), k)
    <3> HIDE DEF Value
    <3>1. QED
      BY <1>b, <1>3
  <2>2. k # 0
    OBVIOUS
  <2>3. QED
    BY <2>1, <2>2, Zenon
<1>8. \A k \in 0 .. n : f(t)[k] = f(s)[k]
  <2> DEFINE P == {k \in Nat : k <= n => f(t)[k] = f(s)[k]}
  <2>1. 0 \in P
    BY <1>5
  <2>2. ASSUME NEW k \in Nat, k \in P PROVE k + 1 \in P
    <3>1. SUFFICES ASSUME k + 1 <= n PROVE f(t)[k + 1] = f(s)[k + 1]
      OBVIOUS
    <3>2. k + 1 \in 1 .. n /\ k + 1 \in 1 .. n + 1 /\ (k + 1) - 1 = k /\ k <= n
      BY <1>3, <3>1
    <3>3. f(t)[k] = f(s)[k] /\ t[k + 1] = s[k + 1]
      BY <1>3, <2>2, <3>2
    <3>4. f(s)[k + 1] = f(s)[k] + s[k + 1].swaps /\ f(t)[k + 1] = f(t)[k] + t[k + 1].swaps
      BY <1>6, <1>7, <3>2
    <3>5. QED
      BY <3>3, <3>4
  <2>3. \A k \in Nat : k \in P
    <3> HIDE DEF P
    <3>1. QED
      BY <2>1, <2>2, Induction
  <2>4. QED
    BY <1>3, <2>3
<1>9. SwapsIn(t) = SwapsIn(s) + x.swaps
  <2>1. n + 1 \in 1 .. n + 1 /\ (n + 1) - 1 = n /\ n \in 0 .. n
    BY <1>3
  <2>2. f(t)[n + 1] = f(t)[n] + x.swaps
    BY <1>3, <1>7, <2>1
  <2>3. f(t)[n] = f(s)[n]
    BY <1>8, <2>1
  <2>4. QED
    BY <1>1, <1>3, <2>2, <2>3 DEF n
<1>10. QED
  BY <1>4, <1>9 DEF n, t

\* The spelling of a circuit, by its last operation.
LEMMA WithMeasurementsEquations ==
  ASSUME NEW width, NEW S, NEW s \in Seq(S), NEW x \in S
  PROVE  /\ WithMeasurements(<<>>, width) = <<>>
         /\ WithMeasurements(Append(s, x), width) = WithMeasurements(s, width) \o Spelled(x, width)
<1>a. ASSUME NEW r, NEW m \in Nat
      PROVE  \E f : f = [k \in 0 .. m |-> IF k = 0 THEN <<>> ELSE f[k - 1] \o Spelled(r[k], width)]
  <2> DEFINE Value(f, k) == IF k = 0 THEN <<>> ELSE f[k - 1] \o Spelled(r[k], width)
             P == {n \in Nat : \E f : f = [k \in 0 .. n |-> Value(f, k)]}
  <2>1. 0 \in P
    <3> DEFINE f == [k \in 0 .. 0 |-> Value(<<>>, k)]
    <3>1. \A k \in 0 .. 0 : Value(f, k) = Value(<<>>, k)
      OBVIOUS
    <3>2. f = [k \in 0 .. 0 |-> Value(f, k)]
      <4> HIDE DEF Value
      <4>1. QED
        BY <3>1
    <3> HIDE DEF f
    <3>3. QED
      BY <3>2
  <2>2. ASSUME NEW n \in Nat, n \in P PROVE n + 1 \in P
    <3>1. PICK f : f = [k \in 0 .. n |-> Value(f, k)]
      BY <2>2
    <3> DEFINE g == [k \in 0 .. n + 1 |-> IF k <= n THEN f[k] ELSE Value(f, k)]
    <3>2. ASSUME NEW k \in 0 .. n + 1 PROVE g[k] = Value(g, k)
      <4>1. k # 0 => g[k - 1] = f[k - 1]
        OBVIOUS
      <4>2. Value(g, k) = Value(f, k)
        BY <4>1
      <4> HIDE DEF Value
      <4>3. k <= n => f[k] = Value(f, k)
        BY <3>1
      <4>4. g[k] = Value(f, k)
        BY <4>3
      <4>5. QED
        BY <4>2, <4>4
    <3>3. g = [k \in 0 .. n + 1 |-> g[k]]
      OBVIOUS
    <3> HIDE DEF g, Value
    <3>4. g = [k \in 0 .. n + 1 |-> Value(g, k)]
      BY <3>2, <3>3
    <3>5. QED
      BY <3>4
  <2>3. m \in P
    <3> HIDE DEF P
    <3>1. QED
      BY <2>1, <2>2, Induction
  <2>4. QED
    BY <2>3
<1> DEFINE Value(t, f, k) == IF k = 0 THEN <<>> ELSE f[k - 1] \o Spelled(t[k], width)
           f(t) == CHOOSE g : g = [k \in 0 .. Len(t) |-> Value(t, g, k)]
           n == Len(s)
           t == Append(s, x)
<1>1. \A r : WithMeasurements(r, width) = f(r)[Len(r)]
  BY Zenon DEF WithMeasurements
<1>2. ASSUME NEW r \in Seq(S) PROVE f(r) = [k \in 0 .. Len(r) |-> Value(r, f(r), k)]
  <2>1. Len(r) \in Nat
    OBVIOUS
  <2>2. \E g : g = [k \in 0 .. Len(r) |-> Value(r, g, k)]
    BY <2>1, <1>a, ZenonT(60)
  <2> HIDE DEF Value
  <2>3. QED
    BY <2>2, Zenon
<1> HIDE DEF f
<1>b. ASSUME NEW r \in Seq(S), NEW k \in 0 .. Len(r) PROVE f(r)[k] = Value(r, f(r), k)
  <2> HIDE DEF Value
  <2>1. QED
    BY <1>2
<1>3. n \in Nat /\ t \in Seq(S) /\ Len(t) = n + 1 /\ t[n + 1] = x /\ (\A k \in 1 .. n : t[k] = s[k]) /\ <<>> \in Seq(S)
  OBVIOUS
<1> HIDE DEF n, t
<1>4. WithMeasurements(<<>>, width) = <<>>
  <2>1. 0 \in 0 .. Len(<<>>) /\ Len(<<>>) = 0
    OBVIOUS
  <2>2. f(<<>>)[0] = Value(<<>>, f(<<>>), 0)
    <3> HIDE DEF Value
    <3>1. QED
      BY <1>b, <1>3, <2>1
  <2>3. QED
    BY <1>1, <2>1, <2>2
<1>5. f(s)[0] = <<>> /\ f(t)[0] = <<>>
  <2>1. f(s)[0] = Value(s, f(s), 0) /\ f(t)[0] = Value(t, f(t), 0)
    <3> HIDE DEF Value
    <3>1. QED
      BY <1>b, <1>3 DEF n
  <2>2. QED
    BY <2>1, Zenon
<1>6. ASSUME NEW k \in 1 .. n PROVE f(s)[k] = f(s)[k - 1] \o Spelled(s[k], width)
  <2>1. f(s)[k] = Value(s, f(s), k)
    <3> HIDE DEF Value
    <3>1. QED
      BY <1>b, <1>3 DEF n
  <2>2. k # 0
    OBVIOUS
  <2>3. QED
    BY <2>1, <2>2, Zenon
<1>7. ASSUME NEW k \in 1 .. n + 1 PROVE f(t)[k] = f(t)[k - 1] \o Spelled(t[k], width)
  <2>1. f(t)[k] = Value(t, f(t), k)
    <3> HIDE DEF Value
    <3>1. QED
      BY <1>b, <1>3
  <2>2. k # 0
    OBVIOUS
  <2>3. QED
    BY <2>1, <2>2, Zenon
<1>8. \A k \in 0 .. n : f(t)[k] = f(s)[k]
  <2> DEFINE P == {k \in Nat : k <= n => f(t)[k] = f(s)[k]}
  <2>1. 0 \in P
    BY <1>5
  <2>2. ASSUME NEW k \in Nat, k \in P PROVE k + 1 \in P
    <3>1. SUFFICES ASSUME k + 1 <= n PROVE f(t)[k + 1] = f(s)[k + 1]
      OBVIOUS
    <3>2. k + 1 \in 1 .. n /\ k + 1 \in 1 .. n + 1 /\ (k + 1) - 1 = k /\ k <= n
      BY <1>3, <3>1
    <3>3. f(t)[k] = f(s)[k] /\ t[k + 1] = s[k + 1]
      BY <1>3, <2>2, <3>2
    <3>4. f(s)[k + 1] = f(s)[k] \o Spelled(s[k + 1], width) /\ f(t)[k + 1] = f(t)[k] \o Spelled(t[k + 1], width)
      BY <1>6, <1>7, <3>2
    <3>5. QED
      BY <3>3, <3>4
  <2>3. \A k \in Nat : k \in P
    <3> HIDE DEF P
    <3>1. QED
      BY <2>1, <2>2, Induction
  <2>4. QED
    BY <1>3, <2>3
<1>9. WithMeasurements(t, width) = WithMeasurements(s, width) \o Spelled(x, width)
  <2>1. n + 1 \in 1 .. n + 1 /\ (n + 1) - 1 = n /\ n \in 0 .. n
    BY <1>3
  <2>2. f(t)[n + 1] = f(t)[n] \o Spelled(x, width)
    BY <1>3, <1>7, <2>1
  <2>3. f(t)[n] = f(s)[n]
    BY <1>8, <2>1
  <2>4. QED
    BY <1>1, <1>3, <2>2, <2>3 DEF n
<1>10. QED
  BY <1>4, <1>9 DEF n, t

\* The compilation of a program, by the last operation.
LEMMA CompiledEquations ==
  ASSUME NEW prog, NEW couplings, NEW gates
  PROVE  /\ CompiledTo(prog, couplings, gates, 0) = Nothing
         /\ \A n \in Nat : CompiledTo(prog, couplings, gates, n + 1) = CompileStep(prog, couplings, gates, CompiledTo(prog, couplings, gates, n), n + 1)
<1>a. ASSUME NEW m \in Nat
      PROVE  \E f : f = [k \in 0 .. m |-> IF k = 0 THEN Nothing ELSE CompileStep(prog, couplings, gates, f[k - 1], k)]
  <2> DEFINE Value(f, k) == IF k = 0 THEN Nothing ELSE CompileStep(prog, couplings, gates, f[k - 1], k)
             P == {n \in Nat : \E f : f = [k \in 0 .. n |-> Value(f, k)]}
  <2>1. 0 \in P
    <3> DEFINE f == [k \in 0 .. 0 |-> Value(<<>>, k)]
    <3>1. \A k \in 0 .. 0 : Value(f, k) = Value(<<>>, k)
      OBVIOUS
    <3>2. f = [k \in 0 .. 0 |-> Value(f, k)]
      <4> HIDE DEF Value
      <4>1. QED
        BY <3>1
    <3> HIDE DEF f
    <3>3. QED
      BY <3>2
  <2>2. ASSUME NEW n \in Nat, n \in P PROVE n + 1 \in P
    <3>1. PICK f : f = [k \in 0 .. n |-> Value(f, k)]
      BY <2>2
    <3> DEFINE g == [k \in 0 .. n + 1 |-> IF k <= n THEN f[k] ELSE Value(f, k)]
    <3>2. ASSUME NEW k \in 0 .. n + 1 PROVE g[k] = Value(g, k)
      <4>1. k # 0 => g[k - 1] = f[k - 1]
        OBVIOUS
      <4>2. Value(g, k) = Value(f, k)
        BY <4>1
      <4> HIDE DEF Value
      <4>3. k <= n => f[k] = Value(f, k)
        BY <3>1
      <4>4. g[k] = Value(f, k)
        BY <4>3
      <4>5. QED
        BY <4>2, <4>4
    <3>3. g = [k \in 0 .. n + 1 |-> g[k]]
      OBVIOUS
    <3> HIDE DEF g, Value
    <3>4. g = [k \in 0 .. n + 1 |-> Value(g, k)]
      BY <3>2, <3>3
    <3>5. QED
      BY <3>4
  <2>3. m \in P
    <3> HIDE DEF P
    <3>1. QED
      BY <2>1, <2>2, Induction
  <2>4. QED
    BY <2>3
<1> DEFINE Value(f, k) == IF k = 0 THEN Nothing ELSE CompileStep(prog, couplings, gates, f[k - 1], k)
           f(n) == CHOOSE g : g = [k \in 0 .. n |-> Value(g, k)]
<1>1. \A n \in Nat : CompiledTo(prog, couplings, gates, n) = f(n)[n]
  BY Zenon DEF CompiledTo
<1>2. \A n \in Nat : f(n) = [k \in 0 .. n |-> Value(f(n), k)]
  <2>1. ASSUME NEW n \in Nat PROVE f(n) = [k \in 0 .. n |-> Value(f(n), k)]
    <3>1. \E g : g = [k \in 0 .. n |-> Value(g, k)]
      BY <1>a, ZenonT(60)
    <3> HIDE DEF Value
    <3>2. QED
      BY <3>1, Zenon
  <2>2. QED
    BY <2>1
<1> HIDE DEF f
<1>3. \A n \in Nat : f(n)[0] = Nothing
  BY <1>2
<1>4. \A n \in Nat : \A k \in 1 .. n : f(n)[k] = CompileStep(prog, couplings, gates, f(n)[k - 1], k)
  BY <1>2
<1>5. ASSUME NEW n \in Nat PROVE \A k \in 0 .. n : f(n + 1)[k] = f(n)[k]
  <2> DEFINE P == {k \in Nat : k <= n => f(n + 1)[k] = f(n)[k]}
  <2>1. 0 \in P
    <3> DEFINE m == n + 1
    <3>m. m \in Nat
      OBVIOUS
    <3> HIDE DEF m
    <3>1. f(m)[0] = f(n)[0]
      BY <1>3, <3>m
    <3> HIDE DEF f
    <3>2. QED
      BY <3>1 DEF m
  <2>2. ASSUME NEW k \in Nat, k \in P PROVE k + 1 \in P
    <3>1. SUFFICES ASSUME k + 1 <= n PROVE f(n + 1)[k + 1] = f(n)[k + 1]
      OBVIOUS
    <3>2. k + 1 \in 1 .. n /\ k + 1 \in 1 .. n + 1 /\ (k + 1) - 1 = k /\ k <= n /\ n + 1 \in Nat
      BY <3>1
    <3>3. f(n + 1)[k] = f(n)[k]
      BY <2>2, <3>2
    <3>4. f(n)[k + 1] = CompileStep(prog, couplings, gates, f(n)[k], k + 1) /\ f(n + 1)[k + 1] = CompileStep(prog, couplings, gates, f(n + 1)[k], k + 1)
      BY <1>4, <3>2
    <3>5. QED
      BY <3>3, <3>4
  <2>3. \A k \in Nat : k \in P
    <3> HIDE DEF P
    <3>1. QED
      BY <2>1, <2>2, Induction
  <2>4. QED
    BY <2>3
<1>6. ASSUME NEW n \in Nat PROVE CompiledTo(prog, couplings, gates, n + 1) = CompileStep(prog, couplings, gates, CompiledTo(prog, couplings, gates, n), n + 1)
  <2>1. n + 1 \in 1 .. n + 1 /\ n + 1 \in Nat /\ (n + 1) - 1 = n /\ n \in 0 .. n
    OBVIOUS
  <2>2. f(n + 1)[n + 1] = CompileStep(prog, couplings, gates, f(n + 1)[n], n + 1)
    BY <1>4, <2>1
  <2>3. f(n + 1)[n] = f(n)[n]
    BY <1>5, <2>1
  <2>4. QED
    BY <1>1, <2>1, <2>2, <2>3
<1>7. QED
  BY <1>1, <1>3, <1>6

\* A ball, by the ball one coupling smaller.
LEMMA BallEquations ==
  ASSUME NEW couplings, NEW q
  PROVE  /\ Ball(couplings, q, 0) = {q}
         /\ \A n \in Nat : Ball(couplings, q, n + 1) = (Ball(couplings, q, n) \cup UNION {Neighbours(couplings, r) : r \in Ball(couplings, q, n)})
<1>a. ASSUME NEW m \in Nat
      PROVE  \E f : f = [k \in 0 .. m |-> IF k = 0 THEN {q} ELSE (f[k - 1] \cup UNION {Neighbours(couplings, r) : r \in f[k - 1]})]
  <2> DEFINE Value(f, k) == IF k = 0 THEN {q} ELSE (f[k - 1] \cup UNION {Neighbours(couplings, r) : r \in f[k - 1]})
             P == {n \in Nat : \E f : f = [k \in 0 .. n |-> Value(f, k)]}
  <2>1. 0 \in P
    <3> DEFINE f == [k \in 0 .. 0 |-> Value(<<>>, k)]
    <3>1. \A k \in 0 .. 0 : Value(f, k) = Value(<<>>, k)
      OBVIOUS
    <3>2. f = [k \in 0 .. 0 |-> Value(f, k)]
      <4> HIDE DEF Value
      <4>1. QED
        BY <3>1
    <3> HIDE DEF f
    <3>3. QED
      BY <3>2
  <2>2. ASSUME NEW n \in Nat, n \in P PROVE n + 1 \in P
    <3>1. PICK f : f = [k \in 0 .. n |-> Value(f, k)]
      BY <2>2
    <3> DEFINE g == [k \in 0 .. n + 1 |-> IF k <= n THEN f[k] ELSE Value(f, k)]
    <3>2. ASSUME NEW k \in 0 .. n + 1 PROVE g[k] = Value(g, k)
      <4>1. k # 0 => g[k - 1] = f[k - 1]
        OBVIOUS
      <4>2. Value(g, k) = Value(f, k)
        BY <4>1
      <4> HIDE DEF Value
      <4>3. k <= n => f[k] = Value(f, k)
        BY <3>1
      <4>4. g[k] = Value(f, k)
        BY <4>3
      <4>5. QED
        BY <4>2, <4>4
    <3>3. g = [k \in 0 .. n + 1 |-> g[k]]
      OBVIOUS
    <3> HIDE DEF g, Value
    <3>4. g = [k \in 0 .. n + 1 |-> Value(g, k)]
      BY <3>2, <3>3
    <3>5. QED
      BY <3>4
  <2>3. m \in P
    <3> HIDE DEF P
    <3>1. QED
      BY <2>1, <2>2, Induction
  <2>4. QED
    BY <2>3
<1> DEFINE Value(f, k) == IF k = 0 THEN {q} ELSE (f[k - 1] \cup UNION {Neighbours(couplings, r) : r \in f[k - 1]})
           f(n) == CHOOSE g : g = [k \in 0 .. n |-> Value(g, k)]
<1>1. \A n \in Nat : Ball(couplings, q, n) = f(n)[n]
  BY Zenon DEF Ball
<1>2. \A n \in Nat : f(n) = [k \in 0 .. n |-> Value(f(n), k)]
  <2>1. ASSUME NEW n \in Nat PROVE f(n) = [k \in 0 .. n |-> Value(f(n), k)]
    <3>1. \E g : g = [k \in 0 .. n |-> Value(g, k)]
      BY <1>a, ZenonT(60)
    <3> HIDE DEF Value
    <3>2. QED
      BY <3>1, Zenon
  <2>2. QED
    BY <2>1
<1> HIDE DEF f
<1>3. \A n \in Nat : f(n)[0] = {q}
  BY <1>2
<1>4. \A n \in Nat : \A k \in 1 .. n : f(n)[k] = (f(n)[k - 1] \cup UNION {Neighbours(couplings, r) : r \in f(n)[k - 1]})
  BY <1>2
<1>5. ASSUME NEW n \in Nat PROVE \A k \in 0 .. n : f(n + 1)[k] = f(n)[k]
  <2> DEFINE P == {k \in Nat : k <= n => f(n + 1)[k] = f(n)[k]}
  <2>1. 0 \in P
    <3> DEFINE m == n + 1
    <3>m. m \in Nat
      OBVIOUS
    <3> HIDE DEF m
    <3>1. f(m)[0] = f(n)[0]
      BY <1>3, <3>m
    <3> HIDE DEF f
    <3>2. QED
      BY <3>1 DEF m
  <2>2. ASSUME NEW k \in Nat, k \in P PROVE k + 1 \in P
    <3>1. SUFFICES ASSUME k + 1 <= n PROVE f(n + 1)[k + 1] = f(n)[k + 1]
      OBVIOUS
    <3>2. k + 1 \in 1 .. n /\ k + 1 \in 1 .. n + 1 /\ (k + 1) - 1 = k /\ k <= n /\ n + 1 \in Nat
      BY <3>1
    <3>3. f(n + 1)[k] = f(n)[k]
      BY <2>2, <3>2
    <3>4. f(n)[k + 1] = (f(n)[k] \cup UNION {Neighbours(couplings, r) : r \in f(n)[k]}) /\ f(n + 1)[k + 1] = (f(n + 1)[k] \cup UNION {Neighbours(couplings, r) : r \in f(n + 1)[k]})
      BY <1>4, <3>2
    <3>5. QED
      BY <3>3, <3>4
  <2>3. \A k \in Nat : k \in P
    <3> HIDE DEF P
    <3>1. QED
      BY <2>1, <2>2, Induction
  <2>4. QED
    BY <2>3
<1>6. ASSUME NEW n \in Nat PROVE Ball(couplings, q, n + 1) = (Ball(couplings, q, n) \cup UNION {Neighbours(couplings, r) : r \in Ball(couplings, q, n)})
  <2>1. n + 1 \in 1 .. n + 1 /\ n + 1 \in Nat /\ (n + 1) - 1 = n /\ n \in 0 .. n
    OBVIOUS
  <2>2. f(n + 1)[n + 1] = (f(n + 1)[n] \cup UNION {Neighbours(couplings, r) : r \in f(n + 1)[n]})
    BY <1>4, <2>1
  <2>3. f(n + 1)[n] = f(n)[n]
    BY <1>5, <2>1
  <2>4. QED
    BY <1>1, <2>1, <2>2, <2>3
<1>7. QED
  BY <1>1, <1>3, <1>6

\* A sequence that is not empty, by its last element.
LEMMA LastSplit ==
  ASSUME NEW S, NEW s \in Seq(S), NEW n \in Nat, Len(s) = n + 1
  PROVE  /\ SubSeq(s, 1, n) \in Seq(S) /\ Len(SubSeq(s, 1, n)) = n
         /\ s[n + 1] \in S /\ s = Append(SubSeq(s, 1, n), s[n + 1])
         /\ \A i \in 1 .. n : SubSeq(s, 1, n)[i] = s[i]
<1>1. SubSeq(s, 1, n) \in Seq(S) /\ Len(SubSeq(s, 1, n)) = n /\ \A i \in 1 .. n : SubSeq(s, 1, n)[i] = s[i]
  OBVIOUS
<1>2. s[n + 1] \in S
  OBVIOUS
<1>3. s = Append(SubSeq(s, 1, n), s[n + 1])
  <2> DEFINE t == Append(SubSeq(s, 1, n), s[n + 1])
  <2>1. t \in Seq(S) /\ Len(t) = n + 1 /\ \A i \in 1 .. n + 1 : t[i] = s[i]
    BY <1>1, <1>2
  <2> HIDE DEF t
  <2>2. t = s
    BY <2>1, SeqEqual
  <2>3. QED
    BY <2>2 DEF t
<1>4. QED
  BY <1>1, <1>2, <1>3

\* Induction over sequences, for a set in place of a predicate.
LEMMA SequenceInduction ==
  ASSUME NEW S, NEW P, <<>> \in P,
         \A s \in Seq(S) : \A x \in S : s \in P => Append(s, x) \in P
  PROVE  Seq(S) \subseteq P
<1> DEFINE N == {n \in Nat : \A s \in Seq(S) : Len(s) = n => s \in P}
<1>1. 0 \in N
  <2>1. ASSUME NEW s \in Seq(S), Len(s) = 0 PROVE s \in P
    <3>1. s = <<>>
      BY <2>1, EmptySeq
    <3>2. QED
      BY <3>1
  <2>2. QED
    BY <2>1
<1>2. ASSUME NEW n \in Nat, n \in N PROVE n + 1 \in N
  <2>1. ASSUME NEW s \in Seq(S), Len(s) = n + 1 PROVE s \in P
    <3> DEFINE t == SubSeq(s, 1, n)
    <3>1. t \in Seq(S) /\ Len(t) = n /\ s[n + 1] \in S /\ s = Append(t, s[n + 1])
      BY <2>1, LastSplit
    <3> HIDE DEF t
    <3>2. t \in P
      BY <1>2, <3>1
    <3>3. Append(t, s[n + 1]) \in P
      BY <3>1, <3>2
    <3>4. QED
      BY <3>1, <3>3
  <2>2. QED
    BY <2>1
<1> HIDE DEF N
<1>3. Nat \subseteq N
  BY <1>1, <1>2, Induction
<1>4. ASSUME NEW s \in Seq(S) PROVE s \in P
  <2>1. Len(s) \in N
    BY <1>3
  <2>2. QED
    BY <2>1 DEF N
<1>5. QED
  BY <1>4

-----------------------------------------------------------------------------
(* What a list of operations does.                                         *)

\* One part of it after the other.
LEMMA AfterConcat ==
  ASSUME NEW S, NEW width, NEW met, NEW a \in Seq(S), NEW b \in Seq(S)
  PROVE  After(width, met, a \o b) = After(width, After(width, met, a), b)
<1> DEFINE P == {c \in Seq(S) : After(width, met, a \o c) = After(width, After(width, met, a), c)}
<1>1. CASE S = {}
  <2>1. b = <<>> /\ a \o b = a
    <3>1. Len(b) = 0
      BY <1>1
    <3>2. b = <<>>
      BY <3>1, EmptySeq
    <3>3. QED
      BY <3>2, ConcatEmptySeq
  <2>2. After(width, After(width, met, a), <<>>) = After(width, met, a)
    <3>1. <<>> \in Seq({0}) /\ 0 \in {0}
      OBVIOUS
    <3>2. QED
      BY <3>1, AfterEquations
  <2>3. QED
    BY <2>1, <2>2
<1>2. CASE S # {}
  <2>1. PICK y \in S : TRUE
    BY <1>2
  <2>2. <<>> \in P
    <3>1. a \o <<>> = a /\ <<>> \in Seq(S)
      BY ConcatEmptySeq
    <3>2. After(width, After(width, met, a), <<>>) = After(width, met, a)
      BY <2>1, <3>1, AfterEquations
    <3>3. QED
      BY <3>1, <3>2
  <2>3. ASSUME NEW c \in Seq(S), NEW x \in S, c \in P PROVE Append(c, x) \in P
    <3> DEFINE d == a \o c
               then == After(width, met, a)
    <3>1. d \in Seq(S) /\ a \o Append(c, x) = Append(d, x) /\ Append(c, x) \in Seq(S)
      OBVIOUS
    <3>2. After(width, met, d) = After(width, then, c)
      BY <2>3
    <3> HIDE DEF d, then, P
    <3>3. After(width, met, Append(d, x)) = Doing(width, After(width, met, d), x)
      BY <3>1, AfterEquations
    <3>4. After(width, then, Append(c, x)) = Doing(width, After(width, then, c), x)
      BY AfterEquations
    <3>5. After(width, met, a \o Append(c, x)) = After(width, then, Append(c, x))
      BY <3>1, <3>2, <3>3, <3>4
    <3>6. QED
      BY <3>1, <3>5 DEF P, then
  <2> HIDE DEF P
  <2>4. b \in P
    BY <2>2, <2>3, SequenceInduction
  <2>5. QED
    BY <2>4 DEF P
<1>3. QED
  BY <1>1, <1>2

\* No operations, and one.
LEMMA AfterOne ==
  ASSUME NEW width, NEW met, NEW op
  PROVE  After(width, met, <<>>) = met /\ After(width, met, <<op>>) = Doing(width, met, op)
<1> DEFINE S == {op}
           none == <<>>
<1>1. none \in Seq(S) /\ op \in S
  OBVIOUS
<1>0. Append(none, op) = <<op>>
  OBVIOUS
<1> HIDE DEF S, none
<1>2. After(width, met, Append(none, op)) = Doing(width, After(width, met, none), op)
  BY <1>1, AfterEquations
<1>3. After(width, met, <<>>) = met
  BY <1>1, AfterEquations
<1>4. QED
  BY <1>0, <1>2, <1>3 DEF none

\* Only their gates, qubits and conditions matter.
LEMMA AfterSame ==
  ASSUME NEW width, NEW met, NEW S, NEW T, NEW a \in Seq(S), NEW b \in Seq(T), Len(a) = Len(b),
         \A i \in 1 .. Len(a) :
           a[i].gate = b[i].gate /\ a[i].qubits = b[i].qubits /\ a[i].when = b[i].when
  PROVE  After(width, met, a) = After(width, met, b)
<1> DEFINE c(n) == SubSeq(a, 1, n)
           d(n) == SubSeq(b, 1, n)
           P == {n \in Nat : n <= Len(a) => After(width, met, c(n)) = After(width, met, d(n))}
<1>1. 0 \in P
  <2>1. c(0) = <<>> /\ d(0) = <<>>
    OBVIOUS
  <2>2. QED
    BY <2>1
<1>2. ASSUME NEW n \in Nat, n \in P PROVE n + 1 \in P
  <2>1. SUFFICES ASSUME n + 1 <= Len(a) PROVE After(width, met, c(n + 1)) = After(width, met, d(n + 1))
    OBVIOUS
  <2>2. c(n) \in Seq(S) /\ a[n + 1] \in S /\ c(n + 1) = Append(c(n), a[n + 1])
    BY <2>1
  <2>3. d(n) \in Seq(T) /\ b[n + 1] \in T /\ d(n + 1) = Append(d(n), b[n + 1])
    BY <2>1
  <2>4. After(width, met, c(n)) = After(width, met, d(n))
    BY <1>2, <2>1
  <2> HIDE DEF c, d, P
  <2>5. /\ After(width, met, Append(c(n), a[n + 1])) = Doing(width, After(width, met, c(n)), a[n + 1])
        /\ After(width, met, Append(d(n), b[n + 1])) = Doing(width, After(width, met, d(n)), b[n + 1])
    <3>1. After(width, met, Append(c(n), a[n + 1])) = Doing(width, After(width, met, c(n)), a[n + 1])
      BY <2>2, AfterEquations
    <3>2. After(width, met, Append(d(n), b[n + 1])) = Doing(width, After(width, met, d(n)), b[n + 1])
      BY <2>3, AfterEquations
    <3>3. QED
      BY <3>1, <3>2
  <2>6. a[n + 1].gate = b[n + 1].gate /\ a[n + 1].qubits = b[n + 1].qubits /\ a[n + 1].when = b[n + 1].when
    BY <2>1
  <2>7. ASSUME NEW now PROVE Doing(width, now, a[n + 1]) = Doing(width, now, b[n + 1])
    BY <2>6, Zenon DEF Doing, Operands, Exchange
  <2>8. QED
    BY <2>2, <2>3, <2>4, <2>5, <2>7
<1> HIDE DEF P
<1>3. Nat \subseteq P
  BY <1>1, <1>2, Induction
<1>4. After(width, met, c(Len(a))) = After(width, met, d(Len(a)))
  BY <1>3 DEF P
<1>5. c(Len(a)) = a /\ d(Len(a)) = b
  OBVIOUS
<1>6. QED
  BY <1>4, <1>5

\* What is chosen of a sequence at consecutive positions.
LEMMA ChosenRange ==
  ASSUME NEW S, NEW s \in Seq(S), NEW positions, NEW m \in Nat, NEW n \in Nat,
         m <= n, n <= Len(s),
         \A i \in 1 .. Len(s) : i \in positions <=> m < i /\ i <= n
  PROVE  Chosen(s, positions) = SubSeq(s, m + 1, n)
<1> DEFINE c(k) == SubSeq(s, 1, k)
           Kept(k) == IF k <= m THEN <<>> ELSE IF k <= n THEN SubSeq(s, m + 1, k) ELSE SubSeq(s, m + 1, n)
           P == {k \in Nat : k <= Len(s) => Chosen(c(k), positions) = Kept(k)}
<1>1. 0 \in P
  <2>1. c(0) = <<>> /\ Kept(0) = <<>>
    OBVIOUS
  <2>2. Chosen(<<>>, positions) = <<>>
    <3>1. <<>> \in Seq({0}) /\ 0 \in {0}
      OBVIOUS
    <3>2. QED
      BY <3>1, ChosenEquations
  <2>3. QED
    BY <2>1, <2>2
<1>2. ASSUME NEW k \in Nat, k \in P PROVE k + 1 \in P
  <2>1. SUFFICES ASSUME k + 1 <= Len(s) PROVE Chosen(c(k + 1), positions) = Kept(k + 1)
    OBVIOUS
  <2>2. c(k) \in Seq(S) /\ s[k + 1] \in S /\ c(k + 1) = Append(c(k), s[k + 1]) /\ Len(c(k)) = k
    BY <2>1
  <2>3. Chosen(c(k), positions) = Kept(k)
    BY <1>2, <2>1
  <2>4. k + 1 \in positions <=> m < k + 1 /\ k + 1 <= n
    BY <2>1
  <2>5. Kept(k + 1) = IF k + 1 \in positions THEN Append(Kept(k), s[k + 1]) ELSE Kept(k)
    <3>1. CASE k + 1 <= m
      BY <2>4, <3>1
    <3>2. CASE k = m /\ k + 1 <= n
      <4>1. SubSeq(s, m + 1, m + 1) = Append(<<>>, s[m + 1])
        <5> DEFINE u == SubSeq(s, m + 1, m + 1)
                   v == Append(<<>>, s[m + 1])
        <5>1. u \in Seq(S) /\ Len(u) = 1 /\ u[1] = s[m + 1]
          BY <2>1, <3>2
        <5>2. v \in Seq(S) /\ Len(v) = 1 /\ v[1] = s[m + 1]
          BY <2>1, <2>2, <3>2
        <5> HIDE DEF u, v
        <5>3. \A i \in 1 .. Len(u) : u[i] = v[i]
          BY <5>1, <5>2
        <5>4. u = v
          BY <5>1, <5>2, <5>3, SeqEqual
        <5>5. QED
          BY <5>4 DEF u, v
      <4>2. k + 1 \in positions /\ Kept(k) = <<>> /\ Kept(k + 1) = SubSeq(s, m + 1, k + 1)
        BY <2>4, <3>2
      <4> HIDE DEF Kept
      <4>3. QED
        BY <3>2, <4>1, <4>2
    <3>3. CASE m < k /\ k + 1 <= n
      <4>1. SubSeq(s, m + 1, k + 1) = Append(SubSeq(s, m + 1, k), s[k + 1])
        <5> DEFINE u == SubSeq(s, m + 1, k + 1)
                   v == Append(SubSeq(s, m + 1, k), s[k + 1])
        <5>1. u \in Seq(S) /\ Len(u) = k + 1 - m /\ \A i \in 1 .. k + 1 - m : u[i] = s[m + i]
          BY <2>1, <3>3
        <5>2. SubSeq(s, m + 1, k) \in Seq(S) /\ Len(SubSeq(s, m + 1, k)) = k - m /\ \A i \in 1 .. k - m : SubSeq(s, m + 1, k)[i] = s[m + i]
          BY <2>1, <3>3
        <5>3. v \in Seq(S) /\ Len(v) = k + 1 - m /\ \A i \in 1 .. k + 1 - m : v[i] = s[m + i]
          BY <2>1, <2>2, <3>3, <5>2
        <5> HIDE DEF u, v
        <5>4. u = v
          BY <5>1, <5>3, SeqEqual
        <5>5. QED
          BY <5>4 DEF u, v
      <4>2. k + 1 \in positions /\ Kept(k) = SubSeq(s, m + 1, k) /\ Kept(k + 1) = SubSeq(s, m + 1, k + 1)
        BY <2>4, <3>3
      <4> HIDE DEF Kept
      <4>3. QED
        BY <4>1, <4>2
    <3>4. CASE k = n /\ m < k
      BY <2>4, <3>4
    <3>5. CASE k = n /\ m = k
      <4>1. SubSeq(s, m + 1, n) = <<>>
        BY <3>5
      <4>2. k + 1 \notin positions /\ Kept(k) = <<>> /\ Kept(k + 1) = SubSeq(s, m + 1, n)
        BY <2>4, <3>5
      <4> HIDE DEF Kept
      <4>3. QED
        BY <4>1, <4>2
    <3>6. CASE n < k
      <4>1. m < k
        BY <3>6
      <4>2. QED
        BY <2>4, <3>6, <4>1
    <3>7. QED
      BY <3>1, <3>2, <3>3, <3>4, <3>5, <3>6
  <2> HIDE DEF c, P, Kept
  <2>6. Chosen(c(k + 1), positions) = IF k + 1 \in positions THEN Append(Chosen(c(k), positions), s[k + 1]) ELSE Chosen(c(k), positions)
    <3> DEFINE d == c(k)
               x == s[k + 1]
    <3>1. d \in Seq(S) /\ x \in S /\ Len(d) = k /\ c(k + 1) = Append(d, x)
      BY <2>2
    <3> HIDE DEF d, x
    <3>2. Chosen(Append(d, x), positions) = IF Len(d) + 1 \in positions THEN Append(Chosen(d, positions), x) ELSE Chosen(d, positions)
      BY <3>1, ChosenEquations
    <3>3. QED
      BY <3>1, <3>2 DEF d, x
  <2>7. QED
    BY <2>3, <2>5, <2>6
<1> HIDE DEF P
<1>3. Nat \subseteq P
  BY <1>1, <1>2, Induction
<1>4. Chosen(c(Len(s)), positions) = Kept(Len(s))
  BY <1>3 DEF P
<1>5. c(Len(s)) = s
  OBVIOUS
<1>6. Kept(Len(s)) = SubSeq(s, m + 1, n)
  <2>1. CASE Len(s) <= m
    <3>1. m = n
      BY <2>1
    <3>2. SubSeq(s, m + 1, n) = <<>>
      BY <3>1
    <3>3. QED
      BY <2>1, <3>2
  <2>2. CASE ~(Len(s) <= m)
    BY <2>2
  <2>3. QED
    BY <2>1, <2>2
<1>7. QED
  BY <1>4, <1>5, <1>6

-----------------------------------------------------------------------------
(* Distances and routes.                                                   *)

LEMMA NeighboursBothWays ==
  ASSUME NEW couplings, NEW q, NEW r \in Neighbours(couplings, q)
  PROVE  r \in UNION couplings /\ q \in UNION couplings /\ r # q /\ q \in Neighbours(couplings, r)
<1>1. r \in UNION couplings /\ r # q /\ {q, r} \in couplings
  BY DEF Neighbours
<1>2. {r, q} = {q, r} /\ q \in {q, r}
  OBVIOUS
<1>3. q \in UNION couplings
  BY <1>1, <1>2
<1>4. QED
  BY <1>1, <1>2, <1>3 DEF Neighbours

\* The balls, one coupling at a time.
LEMMA BallZero ==
  ASSUME NEW couplings, NEW q, NEW x
  PROVE  x \in Ball(couplings, q, 0) <=> x = q
<1>1. Ball(couplings, q, 0) = {q}
  BY BallEquations
<1>2. QED
  BY <1>1

LEMMA BallNext ==
  ASSUME NEW couplings, NEW q, NEW x, NEW n \in Nat, NEW m, m = n + 1
  PROVE  x \in Ball(couplings, q, m)
           <=> \/ x \in Ball(couplings, q, n)
               \/ \E r \in Ball(couplings, q, n) : x \in Neighbours(couplings, r)
<1>1. \A k \in Nat : Ball(couplings, q, k + 1)
        = (Ball(couplings, q, k) \cup UNION {Neighbours(couplings, r) : r \in Ball(couplings, q, k)})
  BY BallEquations
<1>2. Ball(couplings, q, m)
        = Ball(couplings, q, n) \cup UNION {Neighbours(couplings, r) : r \in Ball(couplings, q, n)}
  BY <1>1
<1>3. QED
  BY <1>2

LEMMA BallGrows ==
  ASSUME NEW couplings, NEW q, NEW m \in Nat, NEW n \in Nat, m <= n
  PROVE  Ball(couplings, q, m) \subseteq Ball(couplings, q, n)
<1> DEFINE P == {k \in Nat : Ball(couplings, q, m) \subseteq Ball(couplings, q, m + k)}
<1>1. 0 \in P
  OBVIOUS
<1>2. ASSUME NEW k \in Nat, k \in P PROVE k + 1 \in P
  <2>1. m + k \in Nat /\ (m + k) + 1 = m + (k + 1) /\ Ball(couplings, q, m) \subseteq Ball(couplings, q, m + k)
    BY <1>2
  <2>2. \A x : x \in Ball(couplings, q, m + k) => x \in Ball(couplings, q, (m + k) + 1)
    BY <2>1, BallNext
  <2>3. QED
    BY <2>1, <2>2
<1> HIDE DEF P
<1>3. n - m \in P
  <2>1. n - m \in Nat
    OBVIOUS
  <2>2. QED
    BY <1>1, <1>2, <2>1, Induction
<1>4. QED
  BY <1>3 DEF P

\* The same balls, grown from within.
LEMMA BallFirst ==
  ASSUME NEW couplings, NEW q, NEW n \in Nat, NEW k, k = n + 1, NEW x
  PROVE  x \in Ball(couplings, q, k)
           <=> x = q \/ \E r \in Neighbours(couplings, q) : x \in Ball(couplings, r, n)
<1> DEFINE From(m, y) == y = q \/ \E r \in Neighbours(couplings, q) : y \in Ball(couplings, r, m)
           P == {m \in Nat : \A y : y \in Ball(couplings, q, m + 1) <=> From(m, y)}
<1>1. 0 \in P
  <2>1. ASSUME NEW y PROVE y \in Ball(couplings, q, 0 + 1) <=> From(0, y)
    <3> DEFINE one == 0 + 1
    <3>0. one = 0 + 1
      OBVIOUS
    <3> HIDE DEF one
    <3>2. \A r, z : z \in Ball(couplings, r, 0) <=> z = r
      BY BallZero
    <3>1. y \in Ball(couplings, q, one) <=> y = q \/ y \in Neighbours(couplings, q)
      <4>1. y \in Ball(couplings, q, one)
              <=> \/ y \in Ball(couplings, q, 0)
                  \/ \E r \in Ball(couplings, q, 0) : y \in Neighbours(couplings, r)
        BY <3>0, BallNext
      <4>2. QED
        BY <3>2, <4>1
    <3>3. QED
      BY <3>0, <3>1, <3>2
  <2>2. QED
    BY <2>1
<1>2. ASSUME NEW m \in Nat, m \in P PROVE m + 1 \in P
  <2>1. ASSUME NEW y PROVE y \in Ball(couplings, q, (m + 1) + 1) <=> From(m + 1, y)
    <3>1. y \in Ball(couplings, q, (m + 1) + 1)
            <=> \/ y \in Ball(couplings, q, m + 1)
                \/ \E r \in Ball(couplings, q, m + 1) : y \in Neighbours(couplings, r)
      <4> DEFINE next == m + 1
      <4>1. next \in Nat /\ next + 1 = next + 1
        OBVIOUS
      <4> HIDE DEF next
      <4>2. y \in Ball(couplings, q, next + 1)
              <=> \/ y \in Ball(couplings, q, next)
                  \/ \E r \in Ball(couplings, q, next) : y \in Neighbours(couplings, r)
        BY <4>1, BallNext
      <4>3. QED
        BY <4>2 DEF next
    <3>2. \A z : z \in Ball(couplings, q, m + 1) <=> From(m, z)
      BY <1>2
    <3>3. \A r, z : z \in Ball(couplings, r, m + 1)
            <=> \/ z \in Ball(couplings, r, m)
                \/ \E t \in Ball(couplings, r, m) : z \in Neighbours(couplings, t)
      <4> DEFINE next == m + 1
      <4>1. next = m + 1
        OBVIOUS
      <4> HIDE DEF next
      <4>2. ASSUME NEW r, NEW z
            PROVE z \in Ball(couplings, r, next)
                    <=> \/ z \in Ball(couplings, r, m)
                        \/ \E t \in Ball(couplings, r, m) : z \in Neighbours(couplings, t)
        BY <4>1, BallNext
      <4>3. QED
        BY <4>2 DEF next
    <3>4. ASSUME y \in Ball(couplings, q, (m + 1) + 1) PROVE From(m + 1, y)
      <4>1. CASE y \in Ball(couplings, q, m + 1)
        BY <3>2, <3>3, <4>1
      <4>2. CASE \E r \in Ball(couplings, q, m + 1) : y \in Neighbours(couplings, r)
        <5>1. PICK r \in Ball(couplings, q, m + 1) : y \in Neighbours(couplings, r)
          BY <4>2
        <5>2. CASE r = q
          <6>1. y \in Ball(couplings, y, m + 1)
            <7>1. 0 \in Nat /\ m + 1 \in Nat /\ 0 <= m + 1
              OBVIOUS
            <7>2. y \in Ball(couplings, y, 0) /\ Ball(couplings, y, 0) \subseteq Ball(couplings, y, m + 1)
              BY <7>1, BallZero, BallGrows
            <7>3. QED
              BY <7>2
          <6>2. QED
            BY <5>1, <5>2, <6>1
        <5>3. CASE r # q
          <6>1. PICK s \in Neighbours(couplings, q) : r \in Ball(couplings, s, m)
            BY <3>2, <5>1, <5>3
          <6>2. y \in Ball(couplings, s, m + 1)
            BY <3>3, <5>1, <6>1
          <6>3. QED
            BY <6>1, <6>2
        <5>4. QED
          BY <5>2, <5>3
      <4>3. QED
        BY <3>1, <3>4, <4>1, <4>2
    <3>5. ASSUME From(m + 1, y) PROVE y \in Ball(couplings, q, (m + 1) + 1)
      <4>1. CASE y = q
        BY <3>1, <3>2, <4>1
      <4>2. CASE \E r \in Neighbours(couplings, q) : y \in Ball(couplings, r, m + 1)
        <5>1. PICK r \in Neighbours(couplings, q) : y \in Ball(couplings, r, m + 1)
          BY <4>2
        <5>2. CASE y \in Ball(couplings, r, m)
          BY <3>1, <3>2, <5>1, <5>2
        <5>3. CASE \E t \in Ball(couplings, r, m) : y \in Neighbours(couplings, t)
          BY <3>1, <3>2, <5>1, <5>3
        <5>4. QED
          BY <3>3, <5>1, <5>2, <5>3
      <4>3. QED
        BY <3>5, <4>1, <4>2
    <3>6. QED
      BY <3>4, <3>5
  <2> HIDE DEF From
  <2>2. QED
    BY <2>1
<1> HIDE DEF P
<1>3. n \in P
  BY <1>1, <1>2, Induction
<1>4. k = n + 1
  OBVIOUS
<1>5. \A y : y \in Ball(couplings, q, n + 1) <=> From(n, y)
  BY <1>3 DEF P
<1>6. QED
  BY <1>4, <1>5

\* The distance is the least radius.
LEMMA DistanceIsLeast ==
  ASSUME NEW prog, prog.width \in Nat, NEW couplings, NEW q, NEW r, Joined(prog, couplings, q, r)
  PROVE  /\ Distance(prog, couplings, q, r) \in 0 .. prog.width
         /\ r \in Ball(couplings, q, Distance(prog, couplings, q, r))
         /\ \A n \in Nat : r \in Ball(couplings, q, n) => Distance(prog, couplings, q, r) <= n
<1> DEFINE N == {n \in Nat : r \in Ball(couplings, q, n)}
           w == prog.width
           Is(d) == d \in 0 .. w /\ r \in Ball(couplings, q, d) /\ (d = 0 \/ r \notin Ball(couplings, q, d - 1))
<1>1. w \in N
  BY DEF Joined
<1>2. PICK k \in N : \A m \in N : k <= m
  <2>1. N # {} /\ N \in SUBSET Nat
    BY <1>1
  <2> HIDE DEF N
  <2>2. QED
    BY <2>1, LeastNumber
<1>3. Is(k)
  <2>1. k \in 0 .. w
    BY <1>1, <1>2
  <2>2. k # 0 => k - 1 \in Nat /\ k - 1 \notin N
    BY <1>2
  <2>3. QED
    BY <2>1, <2>2
<1>4. Is(Distance(prog, couplings, q, r))
  <2>1. Distance(prog, couplings, q, r)
          = CHOOSE d \in 0 .. w : r \in Ball(couplings, q, d) /\ (d = 0 \/ r \notin Ball(couplings, q, d - 1))
    BY Zenon DEF Distance
  <2>2. \E d \in 0 .. w : r \in Ball(couplings, q, d) /\ (d = 0 \/ r \notin Ball(couplings, q, d - 1))
    BY <1>3
  <2> HIDE DEF w
  <2>3. QED
    BY <2>1, <2>2, Zenon
<1>5. ASSUME NEW n \in Nat, r \in Ball(couplings, q, n), NEW d, Is(d) PROVE d <= n
  <2>1. SUFFICES ASSUME n < d PROVE FALSE
    BY <1>5
  <2>2. n \in Nat /\ d - 1 \in Nat /\ n <= d - 1 /\ d # 0
    BY <1>5, <2>1
  <2>3. Ball(couplings, q, n) \subseteq Ball(couplings, q, d - 1)
    BY <2>2, BallGrows
  <2>4. QED
    BY <1>5, <2>2, <2>3
<1> HIDE DEF Is
<1>6. \A n \in Nat : r \in Ball(couplings, q, n) => Distance(prog, couplings, q, r) <= n
  BY <1>4, <1>5
<1>7. QED
  BY <1>4, <1>6 DEF Is

\* From one coupling closer to the other.
LEMMA DistanceFalls ==
  ASSUME NEW prog, prog.width \in Nat, NEW couplings, NEW q, NEW r, Joined(prog, couplings, q, r),
         Distance(prog, couplings, q, r) # 0
  PROVE  \E x \in Neighbours(couplings, q) :
           /\ Joined(prog, couplings, x, r)
           /\ Distance(prog, couplings, x, r) = Distance(prog, couplings, q, r) - 1
<1> DEFINE d == Distance(prog, couplings, q, r)
           w == prog.width
<1>1. d \in 0 .. w /\ r \in Ball(couplings, q, d) /\ \A n \in Nat : r \in Ball(couplings, q, n) => d <= n
  BY DistanceIsLeast
<1>2. d - 1 \in Nat /\ (d - 1) + 1 = d /\ d - 1 <= w /\ w \in Nat
  BY <1>1
<1> HIDE DEF d
<1>3. r # q
  <2>1. r = q => r \in Ball(couplings, q, 0)
    BY BallZero
  <2>2. QED
    BY <1>1, <1>2, <2>1
<1>4. PICK x \in Neighbours(couplings, q) : r \in Ball(couplings, x, d - 1)
  <2>1. r \in Ball(couplings, q, (d - 1) + 1)
    BY <1>1, <1>2
  <2>2. QED
    BY <1>2, <1>3, <2>1, BallFirst
<1>5. Joined(prog, couplings, x, r)
  <2>1. Ball(couplings, x, d - 1) \subseteq Ball(couplings, x, w)
    BY <1>2, BallGrows
  <2>2. QED
    BY <1>4, <2>1 DEF Joined
<1> DEFINE e == Distance(prog, couplings, x, r)
<1>6. e \in 0 .. w /\ r \in Ball(couplings, x, e) /\ e <= d - 1
  BY <1>2, <1>4, <1>5, DistanceIsLeast
<1> HIDE DEF e
<1>7. d <= e + 1
  <2>1. e \in Nat /\ r \in Ball(couplings, q, e + 1)
    BY <1>6, BallFirst
  <2>2. e + 1 \in Nat
    BY <2>1
  <2>3. QED
    BY <1>1, <2>1, <2>2
<1>8. e = d - 1
  BY <1>1, <1>2, <1>6, <1>7
<1>9. QED
  BY <1>5, <1>8 DEF d, e

\* A path in the coupling graph.
Walk(couplings, path) == \A i \in 1 .. Len(path) - 1 : path[i + 1] \in Neighbours(couplings, path[i])

\* Among the neighbours of q, those that are left couplings away from r.
Closer(prog, couplings, q, r, left) ==
  {x \in Neighbours(couplings, q) : Joined(prog, couplings, x, r) /\ Distance(prog, couplings, x, r) = left}

LEMMA LeastOf ==
  ASSUME NEW S \in SUBSET Nat, S # {}
  PROVE  Least(S) \in S /\ \A x \in S : Least(S) <= x
<1>1. \E n \in S : \A m \in S : n <= m
  BY LeastNumber
<1>2. QED
  BY <1>1, Zenon DEF Least

\* A path of length d from q to r, a coupling closer with each step, and to the least qubit that is.
Shortest(prog, couplings, q, r, path, d) ==
  /\ d \in 0 .. prog.width /\ path \in Seq(Nat) /\ Len(path) = d + 1
  /\ path[1] = q /\ path[d + 1] = r
  /\ Walk(couplings, path)
  /\ \A i \in 1 .. d + 1 :
       /\ Joined(prog, couplings, path[i], r)
       /\ Distance(prog, couplings, path[i], r) = d + 1 - i
  /\ \A i \in 1 .. d : \A x \in Closer(prog, couplings, path[i], r, d - i) : path[i + 1] <= x

\* A route leads from one end to the other by one coupling at a time, each time
\* to the least qubit that is closer.
LEMMA RouteCorrect ==
  ASSUME NEW prog, prog.width \in Nat, NEW couplings, UNION couplings \subseteq Nat,
         NEW q \in Nat, NEW r, Joined(prog, couplings, q, r),
         NEW path, path = Route(prog, couplings, q, r),
         NEW d, d = Distance(prog, couplings, q, r)
  PROVE  Shortest(prog, couplings, q, r, path, d)
<1> DEFINE Onward(x, left) == Least({y \in Neighbours(couplings, x) :
                              Joined(prog, couplings, y, r) /\ Distance(prog, couplings, y, r) = left})
           Value(f, i) == IF i = 1 THEN q ELSE Onward(f[i - 1], d + 1 - i)
           P == {n \in Nat : \E f : f = [i \in 1 .. n + 1 |-> Value(f, i)]}
<1>1. d \in 0 .. prog.width /\ d \in Nat
  BY DistanceIsLeast
<1>2. path = CHOOSE f : f = [i \in 1 .. d + 1 |-> Value(f, i)]
  <2> DEFINE e == Distance(prog, couplings, q, r)
  <2>1. Route(prog, couplings, q, r)
          = CHOOSE f : f = [i \in 1 .. e + 1 |-> IF i = 1 THEN q ELSE Onward(f[i - 1], e + 1 - i)]
    BY Zenon DEF Route
  <2>2. e = d
    OBVIOUS
  <2> HIDE DEF e, Onward
  <2>3. QED
    BY <2>1, <2>2
<1> HIDE DEF Onward
<1>3. \E f : f = [i \in 1 .. d + 1 |-> Value(f, i)]
  <2>1. 0 \in P
    <3> DEFINE f == [i \in 1 .. 1 |-> q]
    <3>1. \A i \in 1 .. 0 + 1 : i = 1
      OBVIOUS
    <3>2. \A i \in 1 .. 0 + 1 : Value(f, i) = q
      BY <3>1
    <3>3. f = [i \in 1 .. 0 + 1 |-> Value(f, i)]
      <4> HIDE DEF Value
      <4>1. QED
        BY <3>2
    <3> HIDE DEF f
    <3>4. QED
      BY <3>3
  <2>2. ASSUME NEW n \in Nat, n \in P PROVE n + 1 \in P
    <3>1. PICK f : f = [i \in 1 .. n + 1 |-> Value(f, i)]
      BY <2>2
    <3> DEFINE g == [i \in 1 .. (n + 1) + 1 |-> IF i <= n + 1 THEN f[i] ELSE Value(f, i)]
    <3>2. ASSUME NEW i \in 1 .. (n + 1) + 1 PROVE g[i] = Value(g, i)
      <4>1. i # 1 => g[i - 1] = f[i - 1]
        OBVIOUS
      <4>2. Value(g, i) = Value(f, i)
        BY <4>1
      <4> HIDE DEF Value
      <4>3. i <= n + 1 => f[i] = Value(f, i)
        BY <3>1
      <4>4. g[i] = Value(f, i)
        BY <4>3
      <4>5. QED
        BY <4>2, <4>4
    <3>3. g = [i \in 1 .. (n + 1) + 1 |-> g[i]]
      OBVIOUS
    <3> HIDE DEF g, Value
    <3>4. g = [i \in 1 .. (n + 1) + 1 |-> Value(g, i)]
      BY <3>2, <3>3
    <3>5. QED
      BY <3>4
  <2>3. d \in P
    <3> HIDE DEF P
    <3>1. QED
      BY <1>1, <2>1, <2>2, Induction
  <2>4. QED
    BY <2>3
<1>4. path = [i \in 1 .. d + 1 |-> Value(path, i)]
  <2> HIDE DEF Value
  <2>1. QED
    BY <1>2, <1>3, Zenon
<1>5. path[1] = q
  BY <1>1, <1>4
<1>6. ASSUME NEW i \in 1 .. d PROVE path[i + 1] = Onward(path[i], d - i)
  <2>1. i + 1 \in 1 .. d + 1 /\ i + 1 # 1 /\ (i + 1) - 1 = i /\ d + 1 - (i + 1) = d - i
    BY <1>1
  <2>2. path[i + 1] = Value(path, i + 1)
    <3> HIDE DEF Value
    <3>1. QED
      BY <1>4, <2>1
  <2>3. QED
    BY <2>1, <2>2
<1> HIDE DEF Value
<1> DEFINE At(i) == /\ path[i] \in Nat
                    /\ Joined(prog, couplings, path[i], r)
                    /\ Distance(prog, couplings, path[i], r) = d + 1 - i
           C(i) == Closer(prog, couplings, path[i], r, d - i)
<1>7. ASSUME NEW i \in 1 .. d, At(i)
      PROVE  At(i + 1) /\ path[i + 1] \in Neighbours(couplings, path[i]) /\ \A x \in C(i) : path[i + 1] <= x
  <2>1. path[i + 1] = Least(C(i))
    BY <1>6 DEF Closer, Onward
  <2>2. C(i) # {}
    <3>1. Distance(prog, couplings, path[i], r) # 0 /\ (d + 1 - i) - 1 = d - i
      BY <1>1, <1>7
    <3>2. \E x \in Neighbours(couplings, path[i]) :
            /\ Joined(prog, couplings, x, r)
            /\ Distance(prog, couplings, x, r) = Distance(prog, couplings, path[i], r) - 1
      BY <1>7, <3>1, DistanceFalls
    <3>3. QED
      BY <1>7, <3>1, <3>2 DEF Closer
  <2>3. C(i) \subseteq Nat
    BY DEF Closer, Neighbours
  <2>4. path[i + 1] \in C(i) /\ \A x \in C(i) : path[i + 1] <= x
    <3> HIDE DEF C
    <3>1. QED
      BY <2>1, <2>2, <2>3, LeastOf
  <2>5. d + 1 - (i + 1) = d - i
    BY <1>1
  <2>6. QED
    BY <2>3, <2>4, <2>5 DEF Closer
<1>8. \A i \in 1 .. d + 1 : At(i)
  <2> DEFINE Q == {n \in Nat : n <= d => At(n + 1)}
  <2>1. 0 \in Q
    BY <1>1, <1>5
  <2>2. ASSUME NEW n \in Nat, n \in Q PROVE n + 1 \in Q
    <3>1. SUFFICES ASSUME n + 1 <= d PROVE At((n + 1) + 1)
      OBVIOUS
    <3>2. n + 1 \in 1 .. d /\ n <= d
      BY <1>1, <3>1
    <3>3. At(n + 1)
      BY <2>2, <3>2
    <3> HIDE DEF At
    <3>4. QED
      BY <1>7, <3>2, <3>3
  <2>3. Nat \subseteq Q
    <3> HIDE DEF Q
    <3>1. QED
      BY <2>1, <2>2, Induction
  <2>4. ASSUME NEW i \in 1 .. d + 1 PROVE At(i)
    <3>1. i - 1 \in Nat /\ (i - 1) + 1 = i /\ i - 1 <= d
      BY <1>1
    <3>2. i - 1 \in Q
      BY <2>3, <3>1
    <3> HIDE DEF At
    <3>3. QED
      BY <3>1, <3>2
  <2>5. QED
    BY <2>4
<1>9. path \in Seq(Nat) /\ Len(path) = d + 1
  <2>1. path = [i \in 1 .. d + 1 |-> path[i]]
    BY <1>4
  <2>2. path \in [1 .. d + 1 -> Nat]
    BY <1>8, <2>1
  <2>3. QED
    BY <1>1, <2>2
<1>10. path[d + 1] = r
  <2>1. At(d + 1)
    BY <1>1, <1>8
  <2>2. Distance(prog, couplings, path[d + 1], r) = 0 /\ Joined(prog, couplings, path[d + 1], r)
    BY <1>1, <2>1
  <2>3. r \in Ball(couplings, path[d + 1], 0)
    BY <2>2, DistanceIsLeast
  <2>4. QED
    BY <2>3, BallZero
<1> HIDE DEF At
<1>11. \A i \in 1 .. d : path[i + 1] \in Neighbours(couplings, path[i]) /\ \A x \in C(i) : path[i + 1] <= x
  <2>1. ASSUME NEW i \in 1 .. d PROVE At(i)
    BY <1>1, <1>8
  <2>2. QED
    BY <1>7, <2>1
<1>12. Walk(couplings, path)
  BY <1>1, <1>9, <1>11 DEF Walk
<1>13. QED
  BY <1>1, <1>5, <1>8, <1>9, <1>10, <1>11, <1>12 DEF At, Shortest

-----------------------------------------------------------------------------
(* A routed gate does what the gate does.                                  *)

Slots(width) == 0 .. width - 1

\* What has been done so far, and where the qubits of a register are.
Met(width, met) ==
  met = [done |-> met.done, at |-> met.at] /\ met.at \in [Slots(width) -> Nat]

On(op, a, b) == [op EXCEPT !.qubits = <<a, b>>]
Swap(a, b)   == [gate |-> "SWAP", qubits |-> <<a, b>>, when |-> FALSE]
Switched(lay, a, b) == [lay EXCEPT ![a] = lay[b], ![b] = lay[a]]

LEMMA SwitchedValues ==
  ASSUME NEW D, NEW lay \in [D -> Nat], NEW a \in D, NEW b \in D, a # b
  PROVE  /\ Switched(lay, a, b) \in [D -> Nat]
         /\ Switched(lay, a, b)[a] = lay[b] /\ Switched(lay, a, b)[b] = lay[a]
         /\ \A c \in D : c # a /\ c # b => Switched(lay, a, b)[c] = lay[c]
<1> DEFINE f == [lay EXCEPT ![a] = lay[b]]
           y == lay[a]
           g == [f EXCEPT ![b] = y]
<1>1. f \in [D -> Nat] /\ f[a] = lay[b] /\ \A c \in D : c # a => f[c] = lay[c]
  OBVIOUS
<1>2. Switched(lay, a, b) = g
  BY DEF Switched
<1>3. y \in Nat
  OBVIOUS
<1> HIDE DEF f, y
<1>4. g \in [D -> Nat] /\ g[b] = y /\ \A c \in D : c # b => g[c] = f[c]
  BY <1>1, <1>3
<1> HIDE DEF g
<1>5. QED
  BY <1>1, <1>2, <1>4 DEF y

LEMMA OnFields ==
  ASSUME NEW op \in Operations, NEW a, NEW b
  PROVE  On(op, a, b).gate = op.gate /\ On(op, a, b).when = op.when /\ On(op, a, b).qubits = <<a, b>>
BY DEF On, Operations

\* A gate on two qubits, of which one is SWAP.
LEMMA DoingSwap ==
  ASSUME NEW width, NEW met, NEW op, op.gate = "SWAP", NEW a, NEW b, op.qubits = <<a, b>>
  PROVE  Doing(width, met, op) = [done |-> met.done, at |-> Switched(met.at, a, b)]
<1>1. op.qubits[1] = a /\ op.qubits[2] = b
  OBVIOUS
<1>2. QED
  BY <1>1 DEF Doing, Exchange, Switched

LEMMA DoingGate ==
  ASSUME NEW width, NEW met, NEW op, op.gate \in TwoQubit, op.gate # "SWAP", NEW a, NEW b, op.qubits = <<a, b>>
  PROVE  Doing(width, met, op)
           = [done |-> Append(met.done, <<op.gate, op.when, <<met.at[a], met.at[b]>> >>), at |-> met.at]
<1>1. op.gate # "FULL"
  BY DEF TwoQubit
<1> DEFINE qs == op.qubits
           vs == [i \in DOMAIN qs |-> met.at[qs[i]]]
<1>2. vs = <<met.at[a], met.at[b]>>
  OBVIOUS
<1>3. Operands(width, met.at, op) = vs
  BY <1>1 DEF Operands
<1> HIDE DEF vs
<1>4. QED
  BY <1>2, <1>3 DEF Doing

\* The qubits at a and b change places, and back.
LEMMA Conjugated ==
  ASSUME NEW width, NEW met, Met(width, met), NEW op \in Operations, op.gate \in TwoQubit,
         NEW a \in Slots(width), NEW b \in Slots(width), NEW c \in Slots(width),
         a # b, b # c, a # c
  PROVE  Doing(width, Doing(width, Doing(width, met, Swap(a, b)), On(op, b, c)), Swap(a, b))
           = Doing(width, met, On(op, a, c))
<1> DEFINE at1 == Switched(met.at, a, b)
           m1 == Doing(width, met, Swap(a, b))
           m2 == Doing(width, m1, On(op, b, c))
           m3 == Doing(width, m2, Swap(a, b))
<1>1. met.at \in [Slots(width) -> Nat] /\ a \in Slots(width) /\ b \in Slots(width) /\ c \in Slots(width)
  BY DEF Met
<1> DEFINE at0 == met.at
<1> HIDE DEF at0
<1>2. m1 = [done |-> met.done, at |-> at1]
  <2>1. Swap(a, b).gate = "SWAP" /\ Swap(a, b).qubits = <<a, b>>
    BY DEF Swap
  <2>2. QED
    BY <2>1, DoingSwap
<1>3. /\ at1 \in [Slots(width) -> Nat] /\ at1[a] = met.at[b] /\ at1[b] = met.at[a]
      /\ \A x \in Slots(width) : x # a /\ x # b => at1[x] = met.at[x]
  <2>1. at0 \in [Slots(width) -> Nat] /\ at1 = Switched(at0, a, b)
    BY <1>1 DEF at0
  <2> HIDE DEF at1
  <2>2. Switched(at0, a, b) \in [Slots(width) -> Nat] /\ Switched(at0, a, b)[a] = at0[b] /\ Switched(at0, a, b)[b] = at0[a]
    BY <1>1, <2>1, SwitchedValues
  <2>3. \A x \in Slots(width) : x # a /\ x # b => Switched(at0, a, b)[x] = at0[x]
    BY <1>1, <2>1, SwitchedValues
  <2>4. QED
    BY <2>1, <2>2, <2>3 DEF at0
<1>4. m3 = [done |-> m2.done, at |-> Switched(m2.at, a, b)]
  <2>1. Swap(a, b).gate = "SWAP" /\ Swap(a, b).qubits = <<a, b>>
    BY DEF Swap
  <2> HIDE DEF m2
  <2>2. QED
    BY <2>1, DoingSwap
<1>5. /\ On(op, b, c).gate = op.gate /\ On(op, b, c).when = op.when /\ On(op, b, c).qubits = <<b, c>>
      /\ On(op, a, c).gate = op.gate /\ On(op, a, c).when = op.when /\ On(op, a, c).qubits = <<a, c>>
  BY OnFields
<1> HIDE DEF at1, m1, m2, m3
<1>6. CASE op.gate = "SWAP"
  <2> DEFINE at2 == Switched(at1, b, c)
             at3 == Switched(at2, a, b)
             at4 == Switched(met.at, a, c)
  <2>1. m2 = [done |-> m1.done, at |-> Switched(m1.at, b, c)]
    BY <1>5, <1>6, DoingSwap DEF m2
  <2>2. m2 = [done |-> met.done, at |-> at2]
    BY <1>2, <2>1
  <2>3. m3 = [done |-> met.done, at |-> at3]
    BY <1>4, <2>2
  <2>4. Doing(width, met, On(op, a, c)) = [done |-> met.done, at |-> at4]
    BY <1>5, <1>6, DoingSwap
  <2>5. /\ at2 \in [Slots(width) -> Nat] /\ at2[b] = at1[c] /\ at2[c] = at1[b]
        /\ \A x \in Slots(width) : x # b /\ x # c => at2[x] = at1[x]
    BY <1>1, <1>3, SwitchedValues
  <2> HIDE DEF at2
  <2>6. /\ at3 \in [Slots(width) -> Nat] /\ at3[a] = at2[b] /\ at3[b] = at2[a]
        /\ \A x \in Slots(width) : x # a /\ x # b => at3[x] = at2[x]
    BY <1>1, <2>5, SwitchedValues
  <2>7. /\ at4 \in [Slots(width) -> Nat] /\ at4[a] = met.at[c] /\ at4[c] = met.at[a]
        /\ \A x \in Slots(width) : x # a /\ x # c => at4[x] = met.at[x]
    BY <1>1, SwitchedValues
  <2> HIDE DEF at3, at4
  <2>8. ASSUME NEW x \in Slots(width) PROVE at3[x] = at4[x]
    BY <1>1, <1>3, <2>5, <2>6, <2>7
  <2>9. at3 = at4
    BY <2>6, <2>7, <2>8
  <2>10. QED
    BY <2>3, <2>4, <2>9 DEF m1, m2, m3
<1>7. CASE op.gate # "SWAP"
  <2> DEFINE back == Switched(at1, a, b)
             done == Append(met.done, <<op.gate, op.when, <<met.at[a], met.at[c]>> >>)
  <2>1. m2 = [done |-> Append(m1.done, <<op.gate, op.when, <<m1.at[b], m1.at[c]>> >>), at |-> m1.at]
    BY <1>5, <1>7, DoingGate DEF m2
  <2>2. m1.at = at1 /\ m1.done = met.done /\ at1[b] = met.at[a] /\ at1[c] = met.at[c]
    BY <1>2, <1>3
  <2>3. m2 = [done |-> done, at |-> at1]
    BY <2>1, <2>2
  <2>4. Doing(width, met, On(op, a, c)) = [done |-> done, at |-> met.at]
    BY <1>5, <1>7, DoingGate
  <2> HIDE DEF done
  <2>5. m3 = [done |-> done, at |-> back]
    BY <1>4, <2>3
  <2>6. /\ back \in [Slots(width) -> Nat] /\ back[a] = at1[b] /\ back[b] = at1[a]
        /\ \A x \in Slots(width) : x # a /\ x # b => back[x] = at1[x]
    BY <1>1, <1>3, SwitchedValues
  <2> HIDE DEF back
  <2>7. back = met.at
    <3>1. ASSUME NEW x \in Slots(width) PROVE back[x] = met.at[x]
      BY <1>1, <1>3, <2>6
    <3>2. QED
      BY <1>1, <2>6, <3>1
  <2>8. QED
    BY <2>4, <2>5, <2>7 DEF m1, m2, m3
<1>8. QED
  BY <1>6, <1>7

LEMMA DoingMet ==
  ASSUME NEW width, NEW met, Met(width, met), NEW a \in Slots(width), NEW b \in Slots(width), a # b
  PROVE  Met(width, Doing(width, met, Swap(a, b)))
<1> DEFINE m == Doing(width, met, Swap(a, b))
           at1 == Switched(met.at, a, b)
<1>1. Swap(a, b).gate = "SWAP" /\ Swap(a, b).qubits = <<a, b>>
  BY DEF Swap
<1>2. m = [done |-> met.done, at |-> at1]
  BY <1>1, DoingSwap
<1>3. at1 \in [Slots(width) -> Nat]
  BY SwitchedValues DEF Met
<1> HIDE DEF m, at1
<1>4. m.done = met.done /\ m.at = at1
  BY <1>2
<1>5. QED
  BY <1>2, <1>3, <1>4 DEF Met, m

LEMMA OperationFields ==
  ASSUME NEW op \in Operations
  PROVE  /\ op.gate \in Kinds /\ op.qubits \in Seq(Nat) /\ op.when \in BOOLEAN
         /\ op = [gate |-> op.gate, qubits |-> op.qubits, when |-> op.when]
BY DEF Operations

LEMMA SwapFields ==
  ASSUME NEW a \in Nat, NEW b \in Nat
  PROVE  /\ Swap(a, b) \in Operations /\ Swap(a, b).gate = "SWAP"
         /\ Swap(a, b).qubits = <<a, b>> /\ Swap(a, b).when = FALSE
BY DEF Swap, Operations, Kinds, Executable, TwoQubit

LEMMA OnType ==
  ASSUME NEW op \in Operations, NEW a \in Nat, NEW b \in Nat
  PROVE  On(op, a, b) \in Operations
<1>1. <<a, b>> \in Seq(Nat)
  OBVIOUS
<1>2. QED
  BY <1>1 DEF On, Operations

\* The swaps along a path, and the gate between its last two qubits.
LEMMA SwapsAlongPath ==
  ASSUME NEW path \in Seq(Nat), Len(path) >= 2
  PROVE  /\ SwapsAlong(path) \in Seq(Operations) /\ Len(SwapsAlong(path)) = Len(path) - 2
         /\ \A i \in 1 .. Len(path) - 2 : SwapsAlong(path)[i] = Swap(path[i], path[i + 1])
<1> DEFINE n == Len(path) - 2
<1>1. n \in Nat
  OBVIOUS
<1>2. ASSUME NEW i \in 1 .. n PROVE Swap(path[i], path[i + 1]) \in Operations
  <2>1. path[i] \in Nat /\ path[i + 1] \in Nat
    OBVIOUS
  <2>2. QED
    BY <2>1, SwapFields
<1>3. SwapsAlong(path) = [i \in 1 .. n |-> Swap(path[i], path[i + 1])]
  BY DEF SwapsAlong, Swap
<1> HIDE DEF n
<1>4. SwapsAlong(path) \in Seq(Operations) /\ Len(SwapsAlong(path)) = n
      /\ \A i \in 1 .. n : SwapsAlong(path)[i] = Swap(path[i], path[i + 1])
  BY <1>1, <1>2, <1>3
<1>5. QED
  BY <1>4 DEF n

LEMMA ReverseFacts ==
  ASSUME NEW S, NEW s \in Seq(S)
  PROVE  /\ Reverse(s) \in Seq(S) /\ Len(Reverse(s)) = Len(s)
         /\ \A i \in 1 .. Len(s) : Reverse(s)[i] = s[(Len(s) - i) + 1]
BY DEF Reverse

\* Concatenation of operations.
LEMMA JoinFacts ==
  ASSUME NEW u \in Seq(Operations), NEW v \in Seq(Operations)
  PROVE  /\ u \o v \in Seq(Operations) /\ Len(u \o v) = Len(u) + Len(v)
         /\ Len(u) \in Nat /\ Len(v) \in Nat
         /\ \A i \in 1 .. Len(u) : (u \o v)[i] = u[i]
         /\ \A i \in 1 .. Len(v) : (u \o v)[Len(u) + i] = v[i]
OBVIOUS

LEMMA JoinAssociative ==
  ASSUME NEW u \in Seq(Operations), NEW v \in Seq(Operations), NEW w \in Seq(Operations)
  PROVE  (u \o v) \o w = u \o (v \o w)
BY ConcatAssociative

\* A longer path: its first swap, the routed gate of the rest, and that swap again.
LEMMA RoutedPeel ==
  ASSUME NEW op \in Operations, NEW path \in Seq(Nat), Len(path) >= 3
  PROVE  /\ Routed(op, Tail(path)) \in Seq(Operations)
         /\ Routed(op, path) = (<<Swap(path[1], path[2])>> \o Routed(op, Tail(path)))
                                 \o <<Swap(path[1], path[2])>>
<1> DEFINE n == Len(path)
           tail == Tail(path)
           x == Swap(path[1], path[2])
           A == SwapsAlong(path)
           B == SwapsAlong(tail)
           RA == Reverse(A)
           RB == Reverse(B)
           m == On(op, path[n - 1], path[n])
           one == <<x>>
           mid == <<m>>
<1>1. /\ n \in Nat /\ n >= 3 /\ tail \in Seq(Nat) /\ Len(tail) = n - 1
      /\ \A i \in 1 .. n - 1 : tail[i] = path[i + 1]
      /\ \A i \in 1 .. n : path[i] \in Nat
  OBVIOUS
<1>2. A \in Seq(Operations) /\ Len(A) = n - 2 /\ \A i \in 1 .. n - 2 : A[i] = Swap(path[i], path[i + 1])
  BY SwapsAlongPath
<1>3. B \in Seq(Operations) /\ Len(B) = n - 3 /\ \A i \in 1 .. n - 3 : B[i] = Swap(tail[i], tail[i + 1])
  <2>1. tail \in Seq(Nat) /\ Len(tail) >= 2 /\ Len(tail) - 2 = n - 3
    BY <1>1
  <2> HIDE DEF tail
  <2>2. QED
    BY <2>1, SwapsAlongPath
<1>4. m \in Operations /\ x \in Operations
  <2>1. path[n - 1] \in Nat /\ path[n] \in Nat /\ path[1] \in Nat /\ path[2] \in Nat
    BY <1>1
  <2>2. QED
    BY <2>1, OnType, SwapFields
<1>5. Routed(op, path) = (A \o mid) \o RA
  BY DEF Routed, On
<1>6. Routed(op, tail) = (B \o mid) \o RB
  <2>1. tail[Len(tail) - 1] = path[n - 1] /\ tail[Len(tail)] = path[n]
    BY <1>1
  <2> HIDE DEF tail, n
  <2>2. Routed(op, tail) = (B \o <<On(op, tail[Len(tail) - 1], tail[Len(tail)])>>) \o RB
    BY DEF Routed, On
  <2>3. QED
    BY <2>1, <2>2
<1>7. \A i \in 1 .. n - 3 : B[i] = A[i + 1]
  <2>1. ASSUME NEW i \in 1 .. n - 3 PROVE B[i] = A[i + 1]
    <3>1. i + 1 \in 1 .. n - 2 /\ i \in 1 .. n - 1 /\ i + 1 \in 1 .. n - 1
      BY <1>1
    <3>2. tail[i] = path[i + 1] /\ tail[i + 1] = path[(i + 1) + 1]
      BY <1>1, <3>1
    <3> HIDE DEF tail, A, B, n
    <3>3. B[i] = Swap(path[i + 1], path[(i + 1) + 1])
      BY <1>3, <3>2
    <3>4. A[i + 1] = Swap(path[i + 1], path[(i + 1) + 1])
      BY <1>2, <3>1
    <3>5. QED
      BY <3>3, <3>4
  <2>2. QED
    BY <2>1
<1>8. A[1] = x
  BY <1>1, <1>2
<1>9. one \in Seq(Operations) /\ Len(one) = 1 /\ one[1] = x /\ mid \in Seq(Operations)
  BY <1>4
<1> HIDE DEF x, A, B, m, one, mid, n, tail
<1>10. RA \in Seq(Operations) /\ Len(RA) = n - 2 /\ \A i \in 1 .. n - 2 : RA[i] = A[(n - 2 - i) + 1]
  <2>1. Len(A) = n - 2 /\ A \in Seq(Operations)
    BY <1>2
  <2>2. RA \in Seq(Operations) /\ Len(RA) = Len(A) /\ \A i \in 1 .. Len(A) : RA[i] = A[(Len(A) - i) + 1]
    BY <2>1, ReverseFacts
  <2>3. QED
    BY <2>1, <2>2
<1>11. RB \in Seq(Operations) /\ Len(RB) = n - 3 /\ \A i \in 1 .. n - 3 : RB[i] = B[(n - 3 - i) + 1]
  <2>1. Len(B) = n - 3 /\ B \in Seq(Operations)
    BY <1>3
  <2>2. RB \in Seq(Operations) /\ Len(RB) = Len(B) /\ \A i \in 1 .. Len(B) : RB[i] = B[(Len(B) - i) + 1]
    BY <2>1, ReverseFacts
  <2>3. QED
    BY <2>1, <2>2
<1> HIDE DEF RA, RB
<1>12. A = one \o B
  <2> DEFINE C == one \o B
  <2>1. B \in Seq(Operations) /\ Len(B) = n - 3 /\ one \in Seq(Operations) /\ Len(one) = 1
    BY <1>3, <1>9
  <2>2. /\ C \in Seq(Operations) /\ Len(C) = Len(one) + Len(B)
        /\ \A i \in 1 .. Len(one) : C[i] = one[i]
        /\ \A i \in 1 .. Len(B) : C[Len(one) + i] = B[i]
    BY <2>1, JoinFacts
  <2> HIDE DEF C
  <2>3. Len(C) = n - 2
    BY <1>1, <2>1, <2>2
  <2>4. ASSUME NEW i \in 1 .. n - 2 PROVE C[i] = A[i]
    <3>1. CASE i = 1
      BY <1>8, <1>9, <2>1, <2>2, <3>1
    <3>2. CASE i # 1
      <4>1. i - 1 \in 1 .. n - 3 /\ (i - 1) + 1 = i /\ 1 + (i - 1) = i
        BY <1>1, <3>2
      <4>2. C[1 + (i - 1)] = B[i - 1]
        BY <2>1, <2>2, <4>1
      <4>3. QED
        BY <1>7, <4>1, <4>2
    <3>3. QED
      BY <3>1, <3>2
  <2>5. A \in Seq(Operations) /\ Len(A) = n - 2
    BY <1>2
  <2>6. A = C
    BY <2>2, <2>3, <2>4, <2>5, SeqEqual
  <2>7. QED
    BY <2>6 DEF C
<1>13. RA = RB \o one
  <2> DEFINE C == RB \o one
  <2>1. RB \in Seq(Operations) /\ Len(RB) = n - 3 /\ one \in Seq(Operations) /\ Len(one) = 1
    BY <1>9, <1>11
  <2>2. /\ C \in Seq(Operations) /\ Len(C) = Len(RB) + Len(one)
        /\ \A i \in 1 .. Len(RB) : C[i] = RB[i]
        /\ \A i \in 1 .. Len(one) : C[Len(RB) + i] = one[i]
    BY <2>1, JoinFacts
  <2> HIDE DEF C
  <2>3. Len(C) = n - 2
    BY <1>1, <2>1, <2>2
  <2>4. ASSUME NEW i \in 1 .. n - 2 PROVE C[i] = RA[i]
    <3>1. CASE i = n - 2
      <4>1. (n - 3) + 1 = i /\ (n - 2 - i) + 1 = 1
        BY <1>1, <3>1
      <4>2. C[(n - 3) + 1] = x
        BY <1>9, <2>1, <2>2
      <4>3. RA[i] = A[1]
        BY <1>10, <4>1
      <4>4. QED
        BY <1>8, <4>1, <4>2, <4>3
    <3>2. CASE i # n - 2
      <4>1. i \in 1 .. n - 3
        BY <1>1, <3>2
      <4>2. C[i] = RB[i]
        BY <2>1, <2>2, <4>1
      <4>3. (n - 3 - i) + 1 \in 1 .. n - 3 /\ ((n - 3 - i) + 1) + 1 = (n - 2 - i) + 1
        BY <1>1, <4>1
      <4>4. RB[i] = A[(n - 2 - i) + 1]
        BY <1>7, <1>11, <4>1, <4>3
      <4>5. QED
        BY <1>10, <4>2, <4>4
    <3>3. QED
      BY <3>1, <3>2
  <2>5. RA \in Seq(Operations) /\ Len(RA) = n - 2
    BY <1>10
  <2>6. RA = C
    BY <2>2, <2>3, <2>4, <2>5, SeqEqual
  <2>7. QED
    BY <2>6 DEF C
<1>14. (B \o mid) \o RB \in Seq(Operations)
  BY <1>3, <1>9, <1>11
<1>15. (A \o mid) \o RA = (one \o ((B \o mid) \o RB)) \o one
  <2>1. A \o mid = one \o (B \o mid)
    <3>1. B \in Seq(Operations)
      BY <1>3
    <3>2. (one \o B) \o mid = one \o (B \o mid)
      BY <1>9, <3>1, JoinAssociative
    <3>3. QED
      BY <1>12, <3>2
  <2> DEFINE M == B \o mid
  <2>2. M \in Seq(Operations)
    BY <1>3, <1>9
  <2> HIDE DEF M
  <2>3. one \o M \in Seq(Operations)
    BY <1>9, <2>2
  <2>4. (one \o M) \o (RB \o one) = ((one \o M) \o RB) \o one
    <3> DEFINE N == one \o M
    <3>1. N \in Seq(Operations) /\ RB \in Seq(Operations) /\ one \in Seq(Operations)
      BY <1>9, <1>11, <2>3
    <3> HIDE DEF N
    <3>2. (N \o RB) \o one = N \o (RB \o one)
      BY <3>1, JoinAssociative
    <3>3. QED
      BY <3>2 DEF N
  <2>5. (one \o M) \o RB = one \o (M \o RB)
    <3>1. RB \in Seq(Operations)
      BY <1>11
    <3>2. QED
      BY <1>9, <2>2, <3>1, JoinAssociative
  <2>6. QED
    BY <1>13, <2>1, <2>4, <2>5 DEF M
<1>16. QED
  BY <1>5, <1>6, <1>14, <1>15 DEF one, x, tail


\* Where a path is that a gate may be routed along.
Within(width, path) ==
  /\ path \in Seq(Nat) /\ Len(path) >= 2
  /\ \A i \in 1 .. Len(path) : path[i] \in Slots(width)
  /\ \A i \in 1 .. Len(path) - 1 : path[i] # path[i + 1] /\ path[i] # path[Len(path)]

\* The gate, routed along a path, does what it would do at the ends of the path.
LEMMA RoutedDoes ==
  ASSUME NEW width, NEW op \in Operations, op.gate \in TwoQubit,
         NEW path, Within(width, path), NEW met, Met(width, met)
  PROVE  /\ Routed(op, path) \in Seq(Operations)
         /\ After(width, met, Routed(op, path)) = Doing(width, met, On(op, path[1], path[Len(path)]))
<1> DEFINE Does(p, m) ==
             /\ Routed(op, p) \in Seq(Operations)
             /\ After(width, m, Routed(op, p)) = Doing(width, m, On(op, p[1], p[Len(p)]))
           P == {n \in Nat : \A p \in Seq(Nat) : Within(width, p) /\ Len(p) = n + 2 =>
                               \A m : Met(width, m) => Does(p, m)}
<1>1. 0 \in P
  <2>1. ASSUME NEW p \in Seq(Nat), Within(width, p), Len(p) = 2, NEW m PROVE Does(p, m)
    <3> DEFINE g == On(op, p[1], p[2])
               none == SwapsAlong(p)
    <3>1. p[1] \in Nat /\ p[2] \in Nat /\ Len(p) >= 2 /\ Len(p) - 2 = 0
      <4> HIDE DEF g, none
      <4>1. p \in Seq(Nat) /\ Len(p) = 2
        BY <2>1
      <4>2. 1 \in 1 .. Len(p) /\ 2 \in 1 .. Len(p)
        BY <4>1
      <4>3. p[1] \in Nat /\ p[2] \in Nat
        BY <4>1, <4>2, ElementOfSeq
      <4>4. QED
        BY <4>1, <4>3
    <3>2. none \in Seq(Operations) /\ Len(none) = 0
      BY <3>1, SwapsAlongPath
    <3>3. g \in Operations
      BY <3>1, OnType
    <3>4. Routed(op, p) = (none \o <<g>>) \o Reverse(none)
      BY <2>1 DEF Routed, On
    <3> HIDE DEF g, none
    <3>5. none = <<>>
      BY <3>2, EmptySeq
    <3>6. Reverse(none) = <<>>
      <4>1. Reverse(none) \in Seq(Operations) /\ Len(Reverse(none)) = 0
        BY <3>2, ReverseFacts
      <4>2. QED
        BY <4>1, EmptySeq
    <3>7. Routed(op, p) = <<g>>
      <4> DEFINE one == <<g>>
      <4>1. one \in Seq(Operations)
        BY <3>3
      <4> HIDE DEF one
      <4>2. <<>> \o one = one /\ one \o <<>> = one
        BY <4>1
      <4>3. QED
        BY <3>4, <3>5, <3>6, <4>2 DEF one
    <3>8. <<g>> \in Seq(Operations)
      BY <3>3
    <3>9. After(width, m, <<g>>) = Doing(width, m, g)
      BY AfterOne
    <3>10. QED
      BY <2>1, <3>7, <3>8, <3>9 DEF g
  <2>2. QED
    BY <2>1
<1>2. ASSUME NEW n \in Nat, n \in P PROVE n + 1 \in P
  <2>1. ASSUME NEW p \in Seq(Nat), Within(width, p), Len(p) = (n + 1) + 2, NEW m, Met(width, m) PROVE Does(p, m)
    <3> DEFINE t == Tail(p)
               a == p[1]
               b == p[2]
               c == p[Len(p)]
               x == Swap(a, b)
               R == Routed(op, t)
    <3>1. /\ t \in Seq(Nat) /\ Len(t) = n + 2 /\ \A i \in 1 .. n + 2 : t[i] = p[i + 1]
          /\ t[1] = b /\ t[Len(t)] = c /\ Len(p) >= 3 /\ Len(p) = n + 3
      BY <2>1
    <3>2. a \in Slots(width) /\ b \in Slots(width) /\ c \in Slots(width) /\ a # b /\ a # c /\ b # c
      <4>1. 1 \in 1 .. Len(p) - 1 /\ 2 \in 1 .. Len(p) - 1 /\ 1 \in 1 .. Len(p) /\ 2 \in 1 .. Len(p) /\ Len(p) \in 1 .. Len(p)
        BY <3>1
      <4>2. p[1] # p[1 + 1]
        BY <2>1, <4>1 DEF Within
      <4>3. 1 + 1 = 2
        OBVIOUS
      <4>4. QED
        BY <2>1, <4>1, <4>2, <4>3 DEF Within
    <3>3. a \in Nat /\ b \in Nat
      BY <2>1, <3>1
    <3> HIDE DEF t
    <3>4. Within(width, t)
      <4>1. ASSUME NEW i \in 1 .. Len(t) PROVE t[i] \in Slots(width)
        <5>1. i + 1 \in 1 .. Len(p) /\ t[i] = p[i + 1]
          BY <3>1
        <5>2. QED
          BY <2>1, <5>1 DEF Within
      <4>2. ASSUME NEW i \in 1 .. Len(t) - 1 PROVE t[i] # t[i + 1] /\ t[i] # t[Len(t)]
        <5> DEFINE j == i + 1
        <5>1. j \in 1 .. Len(p) - 1 /\ t[i] = p[j] /\ t[i + 1] = p[j + 1] /\ t[Len(t)] = c
          BY <3>1
        <5> HIDE DEF j
        <5>2. p[j] # p[j + 1] /\ p[j] # p[Len(p)]
          BY <2>1, <5>1 DEF Within
        <5>3. QED
          BY <5>1, <5>2
      <4>3. Len(t) >= 2
        BY <3>1
      <4>4. QED
        BY <3>1, <4>1, <4>2, <4>3 DEF Within
    <3>5. R \in Seq(Operations) /\ Routed(op, p) = (<<x>> \o R) \o <<x>>
      BY <3>1, <2>1, RoutedPeel DEF t
    <3> HIDE DEF a, b, c, x, R
    <3> DEFINE one == <<x>>
               m1 == Doing(width, m, x)
               m2 == Doing(width, m1, On(op, b, c))
    <3>6. x = Swap(a, b) /\ x \in Operations /\ one \in Seq(Operations)
      <4>1. x = Swap(a, b)
        BY DEF x, a, b
      <4>2. x \in Operations
        BY <3>3, <4>1, SwapFields
      <4>3. QED
        BY <4>1, <4>2, ElementOfSeq
    <3>7. Met(width, m1)
      BY <2>1, <3>2, <3>6, DoingMet
    <3> HIDE DEF m1
    <3>8. After(width, m1, R) = m2
      <4>1. Does(t, m1)
        BY <1>2, <3>1, <3>4, <3>7
      <4>2. QED
        BY <3>1, <4>1 DEF R
    <3> HIDE DEF m2
    <3>9. After(width, m, one) = m1
      BY AfterOne DEF one, m1
    <3>10. After(width, m2, one) = Doing(width, m2, x)
      BY AfterOne DEF one
    <3> HIDE DEF one
    <3>11. After(width, m, one \o R) = m2
      <4>1. After(width, m, one \o R) = After(width, After(width, m, one), R)
        BY <3>5, <3>6, AfterConcat
      <4>2. QED
        BY <3>8, <3>9, <4>1
    <3>12. After(width, m, (one \o R) \o one) = Doing(width, m2, x)
      <4> DEFINE u == one \o R
      <4>1. u \in Seq(Operations)
        BY <3>5, <3>6
      <4> HIDE DEF u
      <4>2. After(width, m, u \o one) = After(width, After(width, m, u), one)
        BY <3>6, <4>1, AfterConcat
      <4>3. QED
        BY <3>10, <3>11, <4>2 DEF u
    <3>13. Doing(width, m2, x) = Doing(width, m, On(op, a, c))
      <4>1. Doing(width, Doing(width, Doing(width, m, Swap(a, b)), On(op, b, c)), Swap(a, b))
              = Doing(width, m, On(op, a, c))
        BY <2>1, <3>2, Conjugated
      <4>2. QED
        BY <3>6, <4>1 DEF m1, m2
    <3>14. (one \o R) \o one \in Seq(Operations)
      BY <3>5, <3>6
    <3>15. QED
      BY <3>5, <3>12, <3>13, <3>14 DEF one, a, c
  <2> HIDE DEF Does
  <2>2. QED
    BY <2>1
<1> HIDE DEF P
<1>3. Nat \subseteq P
  BY <1>1, <1>2, Induction
<1>4. Len(path) - 2 \in P /\ Len(path) = (Len(path) - 2) + 2 /\ path \in Seq(Nat)
  BY <1>3 DEF Within
<1>5. Does(path, met)
  <2> HIDE DEF Does
  <2>1. QED
    BY <1>4 DEF P
<1>6. QED
  BY <1>5

-----------------------------------------------------------------------------
(* What the compiler makes of a program.                                   *)

\* What parse makes sure of, an operation at a time.
LEMMA SourceFacts ==
  ASSUME NEW prog, WellFormed(prog)
  PROVE  /\ prog \in ProgramRecords /\ prog.width \in Nat \ {0} /\ prog.bits \in Nat \ {0}
         /\ prog.operations \in Seq(Operations) /\ Len(prog.operations) \in Nat \ {0}
<1>1. prog \in ProgramRecords /\ \E i \in DOMAIN prog.operations : prog.operations[i].gate \in {"MEASURE", "FULL"}
  BY DEF WellFormed
<1>2. prog.width \in Nat \ {0} /\ prog.bits \in Nat \ {0} /\ prog.operations \in Seq(Operations)
  BY <1>1 DEF ProgramRecords
<1>3. QED
  BY <1>1, <1>2

LEMMA SourceOperation ==
  ASSUME NEW prog, WellFormed(prog), NEW i \in 1 .. Len(prog.operations),
         NEW op, op = prog.operations[i]
  PROVE  /\ op \in Operations
         /\ op.gate = "FULL" => i = Len(prog.operations) /\ prog.bits >= prog.width
         /\ op.gate = "FULL" => op.qubits = <<>>
         /\ op.gate \notin TwoQubit \cup {"FULL", "ASSERT"} =>
              Len(op.qubits) = 1 /\ op.qubits[1] \in Slots(prog.width)
         /\ op.gate \in TwoQubit =>
              /\ op.qubits[1] \in Slots(prog.width) /\ op.qubits[2] \in Slots(prog.width)
              /\ op.qubits[1] # op.qubits[2] /\ op.qubits = <<op.qubits[1], op.qubits[2]>>
<1>1. op \in Operations /\ i \in DOMAIN prog.operations
  <2>1. prog.operations \in Seq(Operations)
    BY SourceFacts
  <2>2. QED
    BY <2>1, ElementOfSeq
<1>2. op.qubits \in Seq(Nat)
  BY <1>1, OperationFields
<1>3. /\ ToSet(op.qubits) \subseteq Slots(prog.width) /\ IsInjective(op.qubits)
      /\ Len(op.qubits) = CASE op.gate \in TwoQubit -> 2
                            [] op.gate \in {"FULL", "ASSERT"} -> 0
                            [] OTHER -> 1
      /\ op.gate = "FULL" => i = Len(prog.operations) /\ prog.bits >= prog.width
  BY <1>1 DEF WellFormed, Qubits, Slots
<1> DEFINE qs == op.qubits
<1>4. \A k \in 1 .. Len(qs) : qs[k] \in Slots(prog.width)
  <2>1. DOMAIN qs = 1 .. Len(qs)
    BY <1>2
  <2>2. QED
    BY <1>3, <2>1 DEF ToSet
<1>5. \A k, l \in 1 .. Len(qs) : qs[k] = qs[l] => k = l
  <2>1. DOMAIN qs = 1 .. Len(qs)
    BY <1>2
  <2>2. QED
    BY <1>3, <2>1 DEF IsInjective
<1> HIDE DEF qs
<1>6. qs \in Seq(Nat)
  BY <1>2 DEF qs
<1>7. CASE op.gate \in TwoQubit
  <2>1. Len(qs) = 2
    <3>1. Len(op.qubits) = CASE op.gate \in TwoQubit -> 2
                            [] op.gate \in {"FULL", "ASSERT"} -> 0
                            [] OTHER -> 1
      BY <1>3
    <3>2. op.gate \notin {"FULL", "ASSERT"}
      BY <1>7 DEF TwoQubit
    <3>3. QED
      BY <1>7, <3>1, <3>2 DEF qs
  <2>2. 1 \in 1 .. Len(qs) /\ 2 \in 1 .. Len(qs)
    BY <2>1
  <2>3. qs[1] \in Slots(prog.width) /\ qs[2] \in Slots(prog.width) /\ qs[1] # qs[2]
    BY <1>4, <1>5, <2>2
  <2>4. qs = <<qs[1], qs[2]>>
    BY <1>6, <2>1
  <2>5. op.gate # "FULL"
    BY <1>7 DEF TwoQubit
  <2>6. QED
    BY <1>1, <1>7, <2>3, <2>4, <2>5 DEF qs
<1>8. CASE op.gate \in {"FULL", "ASSERT"}
  <2>1. Len(qs) = 0 /\ op.gate \notin TwoQubit
    BY <1>3, <1>8 DEF qs, TwoQubit
  <2>2. qs = <<>>
    BY <1>6, <2>1, EmptySeq
  <2>3. QED
    BY <1>1, <1>3, <1>8, <2>1, <2>2 DEF qs
<1>9. CASE op.gate \notin TwoQubit \cup {"FULL", "ASSERT"}
  <2>1. Len(qs) = 1
    BY <1>3, <1>9 DEF qs
  <2>2. 1 \in 1 .. Len(qs)
    BY <2>1
  <2>3. qs[1] \in Slots(prog.width)
    BY <1>4, <2>2
  <2>4. QED
    BY <1>1, <1>9, <2>1, <2>3 DEF qs
<1>10. QED
  BY <1>7, <1>8, <1>9

LEMMA SlotsNat == ASSUME NEW width, NEW q \in Slots(width) PROVE q \in Nat
BY DEF Slots

Ends(path, q, r) == path[1] = q /\ path[Len(path)] = r

\* A route between two qubits of the device.
LEMMA RouteWithin ==
  ASSUME NEW prog, prog.width \in Nat, NEW couplings, UNION couplings \subseteq Slots(prog.width),
         NEW q \in Slots(prog.width), NEW r \in Slots(prog.width), q # r,
         Joined(prog, couplings, q, r), NEW path, path = Route(prog, couplings, q, r)
  PROVE  /\ Within(prog.width, path) /\ Ends(path, q, r) /\ Walk(couplings, path)
<1> DEFINE w == prog.width
           d == Distance(prog, couplings, q, r)
<1>1. UNION couplings \subseteq Nat /\ q \in Nat /\ w \in Nat
  BY SlotsNat
<1> HIDE DEF w
<1>2. /\ d \in 0 .. w /\ path \in Seq(Nat) /\ Len(path) = d + 1
      /\ path[1] = q /\ path[d + 1] = r
      /\ Walk(couplings, path)
      /\ \A i \in 1 .. d + 1 : Distance(prog, couplings, path[i], r) = d + 1 - i
  <2>1. prog.width \in Nat /\ d = Distance(prog, couplings, q, r)
    OBVIOUS
  <2> HIDE DEF d
  <2>2. Shortest(prog, couplings, q, r, path, d)
    BY <1>1, <2>1, RouteCorrect
  <2>3. QED
    BY <2>2 DEF w, Shortest
<1> HIDE DEF d
<1>3. d \in Nat /\ d # 0
  BY <1>1, <1>2
<1>4. \A i \in 1 .. d : path[i + 1] \in Neighbours(couplings, path[i])
  BY <1>2, <1>3 DEF Walk
<1>5. ASSUME NEW i \in 1 .. d PROVE path[i] # path[i + 1] /\ path[i] # path[d + 1] /\ path[i + 1] \in Slots(prog.width)
  <2>1. path[i] # path[i + 1] /\ path[i + 1] \in Slots(prog.width)
    <3>1. path[i + 1] \in Neighbours(couplings, path[i])
      BY <1>4
    <3>2. path[i + 1] \in UNION couplings /\ path[i + 1] # path[i]
      BY <3>1, NeighboursBothWays
    <3>3. QED
      BY <3>2
  <2>2. path[i] # path[d + 1]
    <3>1. i \in 1 .. d + 1 /\ d + 1 \in 1 .. d + 1 /\ d + 1 - i # 0 /\ d + 1 - (d + 1) = 0
      BY <1>3
    <3>2. Distance(prog, couplings, path[i], r) = d + 1 - i /\ Distance(prog, couplings, path[d + 1], r) = 0
      BY <1>2, <3>1
    <3>3. QED
      BY <3>1, <3>2
  <2>3. QED
    BY <2>1, <2>2
<1>6. ASSUME NEW i \in 1 .. d + 1 PROVE path[i] \in Slots(prog.width)
  <2>1. CASE i = 1
    BY <1>2, <2>1
  <2>2. CASE i # 1
    <3>1. i - 1 \in 1 .. d /\ (i - 1) + 1 = i
      BY <1>3, <2>2
    <3>2. QED
      BY <1>5, <3>1
  <2>3. QED
    BY <2>1, <2>2
<1>7. Len(path) >= 2 /\ Len(path) - 1 = d
  BY <1>2, <1>3
<1>8. Within(prog.width, path)
  <2>1. \A i \in 1 .. Len(path) : path[i] \in Slots(prog.width)
    BY <1>2, <1>6
  <2>2. \A i \in 1 .. Len(path) - 1 : path[i] # path[i + 1] /\ path[i] # path[Len(path)]
    BY <1>2, <1>5, <1>7
  <2>3. QED
    BY <1>2, <1>7, <2>1, <2>2 DEF Within
<1>9. QED
  BY <1>2, <1>8 DEF Ends

Verdicts == {"compiled", "unknown_gate", "unsupported_gate", "disconnected", "missing_swap"}
RouteRecords == [step : Nat, gate : Kinds, qubits : Seq(Nat), path : Seq(Nat), swaps : Nat]
Results == [verdict : Verdicts, operations : Seq(Operations), trace : Seq(RouteRecords)]

\* The ways an operation is compiled.
Refuses(met, now) ==
  /\ now.verdict \in Verdicts \ {"compiled"}
  /\ now.operations = met.operations /\ now.trace = met.trace

Copies(gates, met, now, op) ==
  /\ met.verdict = "compiled" /\ now.verdict = "compiled"
  /\ op.gate \notin TwoQubit /\ (op.gate \in Executable => op.gate \in gates)
  /\ now.operations = Append(met.operations, op) /\ now.trace = met.trace

Along(prog, couplings, op) == Route(prog, couplings, op.qubits[1], op.qubits[2])

Routes(prog, couplings, gates, met, now, op, n) ==
  LET path == Along(prog, couplings, op)
  IN  /\ met.verdict = "compiled" /\ now.verdict = "compiled"
      /\ op.gate \in TwoQubit \cap gates
      /\ Joined(prog, couplings, op.qubits[1], op.qubits[2])
      /\ Len(path) > 2 => "SWAP" \in gates
      /\ now.operations = met.operations \o Routed(op, path)
      /\ now.trace = Append(met.trace, RouteRecord(n, op, path))

LEMMA UntouchedMet ==
  ASSUME NEW width
  PROVE  Met(width, Untouched(width)) /\ Untouched(width).at = [q \in Slots(width) |-> q]
<1> DEFINE lay == [q \in Slots(width) |-> q]
<1>1. Untouched(width) = [done |-> <<>>, at |-> lay]
  BY DEF Untouched, Slots
<1>2. \A q \in Slots(width) : q \in Nat
  BY SlotsNat
<1>3. lay \in [Slots(width) -> Nat]
  BY <1>2
<1> HIDE DEF lay
<1>4. QED
  BY <1>1, <1>3 DEF Met, lay

\* A gate of the source and the route it takes.
LEMMA GateRoute ==
  ASSUME NEW prog, WellFormed(prog), NEW couplings, UNION couplings \subseteq Slots(prog.width),
         NEW i \in 1 .. Len(prog.operations), NEW op, op = prog.operations[i], op.gate \in TwoQubit,
         Joined(prog, couplings, op.qubits[1], op.qubits[2]),
         NEW path, path = Along(prog, couplings, op)
  PROVE  /\ Within(prog.width, path) /\ Walk(couplings, path)
         /\ Ends(path, op.qubits[1], op.qubits[2])
         /\ Routed(op, path) \in Seq(Operations)
         /\ RouteRecord(i, op, path) \in RouteRecords
         /\ On(op, op.qubits[1], op.qubits[2]) = op
<1> DEFINE w == prog.width
           q == op.qubits[1]
           r == op.qubits[2]
<1>1. /\ w \in Nat /\ op \in Operations
      /\ q \in Slots(w) /\ r \in Slots(w) /\ q # r /\ op.qubits = <<q, r>>
  BY SourceFacts, SourceOperation
<1>2. path = Route(prog, couplings, q, r) /\ Joined(prog, couplings, q, r)
  BY DEF Along
<1> HIDE DEF w, q, r
<1>3. Within(w, path) /\ Ends(path, q, r) /\ Walk(couplings, path)
  BY <1>1, <1>2, RouteWithin DEF w
<1>4. Routed(op, path) \in Seq(Operations)
  <2>1. Met(w, Untouched(w))
    BY UntouchedMet
  <2>2. QED
    BY <1>1, <1>3, <2>1, RoutedDoes
<1>5. RouteRecord(i, op, path) \in RouteRecords
  <2>1. path \in Seq(Nat) /\ Len(path) >= 2
    BY <1>3 DEF Within
  <2>2. Len(SwapsAlong(path)) \in Nat /\ i \in Nat
    BY <2>1, SwapsAlongPath
  <2>3. op.gate \in Kinds /\ op.qubits \in Seq(Nat)
    BY <1>1, OperationFields
  <2>4. 2 * Len(SwapsAlong(path)) \in Nat
    BY <2>2
  <2>5. QED
    BY <2>1, <2>2, <2>3, <2>4 DEF RouteRecord, RouteRecords
<1>6. On(op, q, r) = op
  <2>1. op = [gate |-> op.gate, qubits |-> op.qubits, when |-> op.when]
    BY <1>1, OperationFields
  <2>2. QED
    BY <1>1, <2>1 DEF On
<1>7. QED
  BY <1>3, <1>4, <1>5, <1>6 DEF w, q, r, Ends

LEMMA ResultFields ==
  ASSUME NEW met \in Results
  PROVE  /\ met.verdict \in Verdicts /\ met.operations \in Seq(Operations) /\ met.trace \in Seq(RouteRecords)
         /\ met = [verdict |-> met.verdict, operations |-> met.operations, trace |-> met.trace]
BY DEF Results

LEMMA StepCases ==
  ASSUME NEW prog, WellFormed(prog), NEW couplings, UNION couplings \subseteq Slots(prog.width), NEW gates,
         NEW n \in 1 .. Len(prog.operations), NEW op, op = prog.operations[n],
         NEW met \in Results, NEW now, now = CompileStep(prog, couplings, gates, met, n)
  PROVE  /\ now \in Results
         /\ \/ met.verdict # "compiled" /\ now = met
            \/ met.verdict = "compiled" /\ Refuses(met, now)
            \/ Copies(gates, met, now, op)
            \/ Routes(prog, couplings, gates, met, now, op, n)
<1> DEFINE path == Along(prog, couplings, op)
           Refusal(reason) == [met EXCEPT !.verdict = reason]
           joined == Joined(prog, couplings, op.qubits[1], op.qubits[2])
           longer == [met EXCEPT !.operations = Append(@, op)]
           routing == [met EXCEPT !.operations = @ \o Routed(op, path), !.trace = Append(@, RouteRecord(n, op, path))]
<1>1. now = IF met.verdict # "compiled" THEN met
            ELSE IF op.gate \notin Executable THEN longer
            ELSE IF op.gate \notin gates THEN Refusal("unsupported_gate")
            ELSE IF op.gate \notin TwoQubit THEN longer
            ELSE IF ~joined THEN Refusal("disconnected")
            ELSE IF Len(path) > 2 /\ "SWAP" \notin gates THEN Refusal("missing_swap")
            ELSE routing
  BY Zenon DEF CompileStep, Along
<1>2. /\ met.verdict \in Verdicts /\ met.operations \in Seq(Operations) /\ met.trace \in Seq(RouteRecords)
      /\ met = [verdict |-> met.verdict, operations |-> met.operations, trace |-> met.trace]
  BY ResultFields
<1>3. op \in Operations
  BY SourceOperation
<1>4. ASSUME NEW reason \in Verdicts \ {"compiled"}, now = Refusal(reason)
      PROVE  now \in Results /\ Refuses(met, now)
  <2>1. now = [verdict |-> reason, operations |-> met.operations, trace |-> met.trace]
    BY <1>2, <1>4
  <2>2. QED
    BY <1>2, <2>1 DEF Results, Refuses
<1>5. ASSUME now = longer, met.verdict = "compiled", op.gate \notin TwoQubit, op.gate \in Executable => op.gate \in gates
      PROVE  now \in Results /\ Copies(gates, met, now, op)
  <2> DEFINE ops == Append(met.operations, op)
  <2>1. now = [verdict |-> met.verdict, operations |-> ops, trace |-> met.trace]
    BY <1>2, <1>5
  <2>2. ops \in Seq(Operations)
    BY <1>2, <1>3
  <2> HIDE DEF ops
  <2>3. now.verdict = met.verdict /\ now.operations = ops /\ now.trace = met.trace /\ now \in Results
    BY <1>2, <2>1, <2>2 DEF Results
  <2>4. QED
    BY <1>5, <2>3 DEF Copies, ops
<1>6. ASSUME now = routing, met.verdict = "compiled", op.gate \in TwoQubit \cap gates, joined, Len(path) > 2 => "SWAP" \in gates
      PROVE  now \in Results /\ Routes(prog, couplings, gates, met, now, op, n)
  <2> DEFINE ops == met.operations \o Routed(op, path)
             record == RouteRecord(n, op, path)
             told == Append(met.trace, record)
  <2>1. now = [verdict |-> met.verdict, operations |-> ops, trace |-> told]
    BY <1>2, <1>6
  <2>2. Routed(op, path) \in Seq(Operations) /\ record \in RouteRecords
    BY <1>6, GateRoute
  <2>3. ops \in Seq(Operations)
    BY <1>2, <2>2
  <2> HIDE DEF record, path
  <2>4. told \in Seq(RouteRecords)
    BY <1>2, <2>2
  <2> HIDE DEF ops, told
  <2>5. now.verdict = met.verdict /\ now.operations = ops /\ now.trace = told /\ now \in Results
    BY <1>2, <2>1, <2>3, <2>4 DEF Results
  <2>6. QED
    BY <1>6, <2>5 DEF Routes, ops, told, record, path
<1> HIDE DEF longer, routing, Refusal
<1>7. "unsupported_gate" \in Verdicts \ {"compiled"} /\ "disconnected" \in Verdicts \ {"compiled"} /\ "missing_swap" \in Verdicts \ {"compiled"}
  BY DEF Verdicts
<1>8. TwoQubit \subseteq Executable
  BY DEF Executable
<1> HIDE DEF path, joined
<1>9. CASE met.verdict # "compiled"
  BY <1>1, <1>9
<1>10. CASE met.verdict = "compiled" /\ op.gate \notin Executable
  <2>1. now = longer /\ op.gate \notin TwoQubit
    BY <1>1, <1>8, <1>10
  <2>2. QED
    BY <1>5, <1>10, <2>1
<1>11. CASE met.verdict = "compiled" /\ op.gate \in Executable
  <2>1. CASE op.gate \notin gates
    <3>1. now = Refusal("unsupported_gate")
      BY <1>1, <1>11, <2>1
    <3>2. QED
      BY <1>4, <1>7, <1>11, <3>1
  <2>2. CASE op.gate \in gates /\ op.gate \notin TwoQubit
    <3>1. now = longer
      BY <1>1, <1>11, <2>2
    <3>2. QED
      BY <1>5, <1>11, <2>2, <3>1
  <2>3. CASE op.gate \in gates /\ op.gate \in TwoQubit /\ ~joined
    <3>1. now = Refusal("disconnected")
      BY <1>1, <1>11, <2>3
    <3>2. QED
      BY <1>4, <1>7, <1>11, <3>1
  <2>4. CASE op.gate \in gates /\ op.gate \in TwoQubit /\ joined /\ Len(path) > 2 /\ "SWAP" \notin gates
    <3>1. now = Refusal("missing_swap")
      BY <1>1, <1>11, <2>4
    <3>2. QED
      BY <1>4, <1>7, <1>11, <3>1
  <2>5. CASE op.gate \in gates /\ op.gate \in TwoQubit /\ joined /\ ~(Len(path) > 2 /\ "SWAP" \notin gates)
    <3>1. now = routing
      BY <1>1, <1>11, <2>5
    <3>2. Len(path) > 2 => "SWAP" \in gates
      BY <2>5
    <3>3. QED
      BY <1>6, <1>11, <2>5, <3>1, <3>2
  <2>6. QED
    BY <2>1, <2>2, <2>3, <2>4, <2>5
<1>12. QED
  BY <1>9, <1>10, <1>11

\* The operations a routed gate is made of.
Alike(x, y) == x.gate = y.gate /\ x.when = y.when

PartOf(op, path, x) ==
  /\ x.gate \in {op.gate, "SWAP"} /\ (x.gate # op.gate => Len(path) > 2)
  /\ \E i \in 1 .. Len(path) - 1 : x.qubits = <<path[i], path[i + 1]>>

LEMMA RoutedElements ==
  ASSUME NEW op \in Operations, NEW path \in Seq(Nat), Len(path) >= 2,
         NEW ops, ops = Routed(op, path), NEW k, k = Len(path) - 2
  PROVE  /\ ops \in Seq(Operations) /\ k \in Nat /\ Len(ops) = 2 * k + 1
         /\ Alike(ops[k + 1], op)
         /\ \A j \in 1 .. Len(ops) : PartOf(op, path, ops[j])
<1> DEFINE A == SwapsAlong(path)
           RA == Reverse(A)
           m == On(op, path[Len(path) - 1], path[Len(path)])
           mid == <<m>>
           B == A \o mid
<1>1. k \in Nat /\ \A i \in 1 .. Len(path) : path[i] \in Nat
  OBVIOUS
<1>2. A \in Seq(Operations) /\ Len(A) = k /\ \A i \in 1 .. k : A[i] = Swap(path[i], path[i + 1])
  BY SwapsAlongPath
<1>3. ops = B \o RA
  BY DEF Routed, On
<1>4. m \in Operations /\ m.gate = op.gate /\ m.when = op.when /\ m.qubits = <<path[k + 1], path[(k + 1) + 1]>>
  <2>1. Len(path) - 1 \in 1 .. Len(path) /\ Len(path) \in 1 .. Len(path)
    OBVIOUS
  <2>2. path[Len(path) - 1] \in Nat /\ path[Len(path)] \in Nat
    BY <1>1, <2>1
  <2>3. Len(path) - 1 = k + 1 /\ Len(path) = (k + 1) + 1
    OBVIOUS
  <2> DEFINE a == path[Len(path) - 1]
             b == path[Len(path)]
  <2>4. a = path[k + 1] /\ b = path[(k + 1) + 1] /\ a \in Nat /\ b \in Nat /\ m = On(op, a, b)
    BY <2>2, <2>3
  <2> HIDE DEF a, b, m
  <2>5. On(op, a, b) \in Operations /\ On(op, a, b).gate = op.gate /\ On(op, a, b).when = op.when /\ On(op, a, b).qubits = <<a, b>>
    <3>1. On(op, a, b) \in Operations
      BY <2>4, OnType
    <3>2. On(op, a, b).gate = op.gate /\ On(op, a, b).when = op.when /\ On(op, a, b).qubits = <<a, b>>
      BY OnFields
    <3>3. QED
      BY <3>1, <3>2
  <2>6. QED
    BY <2>4, <2>5
<1> HIDE DEF A, m
<1>5. mid \in Seq(Operations) /\ Len(mid) = 1 /\ mid[1] = m
  BY <1>4
<1>6. RA \in Seq(Operations) /\ Len(RA) = k /\ \A i \in 1 .. k : RA[i] = A[(k - i) + 1]
  <2>1. RA \in Seq(Operations) /\ Len(RA) = Len(A) /\ \A i \in 1 .. Len(A) : RA[i] = A[(Len(A) - i) + 1]
    BY <1>2, ReverseFacts
  <2>2. QED
    BY <1>2, <2>1
<1> HIDE DEF mid, RA
<1>7. /\ B \in Seq(Operations) /\ Len(B) = k + 1 /\ B[k + 1] = m
      /\ \A i \in 1 .. k : B[i] = A[i]
  <2>1. /\ B \in Seq(Operations) /\ Len(B) = Len(A) + Len(mid)
        /\ \A i \in 1 .. Len(A) : B[i] = A[i]
        /\ \A i \in 1 .. Len(mid) : B[Len(A) + i] = mid[i]
    BY <1>2, <1>5, JoinFacts
  <2> HIDE DEF B
  <2>2. B[Len(A) + 1] = mid[1]
    BY <1>5, <2>1
  <2>3. QED
    BY <1>2, <1>5, <2>1, <2>2
<1> HIDE DEF B
<1>8. /\ ops \in Seq(Operations) /\ Len(ops) = 2 * k + 1
      /\ \A i \in 1 .. k + 1 : ops[i] = B[i]
      /\ \A i \in 1 .. k : ops[(k + 1) + i] = RA[i]
  <2> DEFINE C == B \o RA
  <2>1. /\ C \in Seq(Operations) /\ Len(C) = Len(B) + Len(RA)
        /\ \A i \in 1 .. Len(B) : C[i] = B[i]
        /\ \A i \in 1 .. Len(RA) : C[Len(B) + i] = RA[i]
    BY <1>6, <1>7, JoinFacts
  <2>2. ops = C
    BY <1>3
  <2> HIDE DEF C
  <2>3. Len(B) = k + 1 /\ Len(RA) = k /\ (k + 1) + k = 2 * k + 1
    BY <1>1, <1>6, <1>7
  <2>4. QED
    BY <2>1, <2>2, <2>3
<1>9. ASSUME NEW i \in 1 .. k PROVE PartOf(op, path, A[i])
  <2>1. i \in 1 .. Len(path) - 1 /\ i \in 1 .. Len(path) /\ i + 1 \in 1 .. Len(path) /\ k > 0
    BY <1>1
  <2>2. A[i] = Swap(path[i], path[i + 1]) /\ path[i] \in Nat /\ path[i + 1] \in Nat
    BY <1>1, <1>2, <2>1
  <2> DEFINE a == path[i]
             b == path[i + 1]
  <2>3. A[i] = Swap(a, b) /\ a \in Nat /\ b \in Nat
    BY <2>2
  <2> HIDE DEF a, b
  <2>4. Swap(a, b).gate = "SWAP" /\ Swap(a, b).qubits = <<a, b>>
    BY <2>3, SwapFields
  <2>5. A[i].gate = "SWAP" /\ A[i].qubits = <<path[i], path[i + 1]>> /\ Len(path) > 2
    BY <2>1, <2>3, <2>4 DEF a, b
  <2>6. QED
    BY <2>1, <2>5 DEF PartOf
<1>10. PartOf(op, path, m)
  <2> DEFINE l == k + 1
  <2>1. l \in 1 .. Len(path) - 1 /\ m.qubits = <<path[l], path[l + 1]>> /\ m.gate = op.gate
    BY <1>1, <1>4
  <2> HIDE DEF l
  <2>2. \E i \in 1 .. Len(path) - 1 : m.qubits = <<path[i], path[i + 1]>>
    BY <2>1
  <2>3. QED
    BY <2>1, <2>2 DEF PartOf
<1>11. ASSUME NEW j \in 1 .. Len(ops) PROVE PartOf(op, path, ops[j])
  <2>1. CASE j <= k
    <3>1. j \in 1 .. k /\ j \in 1 .. k + 1
      BY <1>1, <2>1
    <3>2. ops[j] = A[j]
      BY <1>7, <1>8, <3>1
    <3>3. QED
      BY <1>9, <3>1, <3>2
  <2>2. CASE j = k + 1
    <3>1. j \in 1 .. k + 1
      BY <1>1, <2>2
    <3>2. ops[j] = m
      BY <1>7, <1>8, <2>2, <3>1
    <3>3. QED
      BY <1>10, <3>2
  <2>3. CASE j > k + 1
    <3> DEFINE i == j - (k + 1)
               l == (k - i) + 1
    <3>1. i \in 1 .. k /\ (k + 1) + i = j /\ l \in 1 .. k
      BY <1>1, <1>8, <2>3
    <3>2. ops[(k + 1) + i] = RA[i] /\ RA[i] = A[l]
      BY <1>6, <1>8, <3>1
    <3> HIDE DEF i, l
    <3>3. QED
      BY <1>9, <3>1, <3>2
  <2>4. QED
    BY <1>1, <2>1, <2>2, <2>3
<1>12. ops[k + 1] = m
  <2>1. k + 1 \in 1 .. k + 1
    BY <1>1
  <2>2. QED
    BY <1>7, <1>8, <2>1
<1>13. QED
  BY <1>1, <1>4, <1>8, <1>11, <1>12 DEF Alike

\* All of it is native and on coupled qubits.
LEMMA RoutedOnDevice ==
  ASSUME NEW op \in Operations, op.gate \in TwoQubit, NEW width, NEW path, Within(width, path),
         NEW couplings, Walk(couplings, path), NEW gates,
         op.gate \in gates, Len(path) > 2 => "SWAP" \in gates,
         NEW j \in 1 .. Len(Routed(op, path))
  PROVE  OnDevice(Routed(op, path)[j], couplings, gates)
<1> DEFINE ops == Routed(op, path)
           k == Len(path) - 2
           x == ops[j]
<1>1. path \in Seq(Nat) /\ Len(path) >= 2
  BY DEF Within
<1>2. PartOf(op, path, x)
  <2>1. j \in 1 .. Len(ops) /\ ops = Routed(op, path) /\ k = Len(path) - 2
    OBVIOUS
  <2> HIDE DEF ops, k
  <2>2. QED
    BY <1>1, <2>1, RoutedElements
<1>3. PICK i \in 1 .. Len(path) - 1 : x.qubits = <<path[i], path[i + 1]>>
  BY <1>2 DEF PartOf
<1>4. path[i + 1] \in Neighbours(couplings, path[i])
  BY <1>3 DEF Walk
<1>5. {path[i], path[i + 1]} \in couplings
  BY <1>4 DEF Neighbours
<1> HIDE DEF x
<1>6. x.qubits[1] = path[i] /\ x.qubits[2] = path[i + 1]
  BY <1>3
<1>8. x.gate \in gates
  BY <1>2 DEF PartOf
<1>9. OnDevice(x, couplings, gates)
  BY <1>5, <1>6, <1>8 DEF OnDevice
<1>10. QED
  BY <1>9 DEF x

\* The compiler, an operation at a time.
LEMMA CompiledTypes ==
  ASSUME NEW prog, WellFormed(prog), NEW couplings, UNION couplings \subseteq Slots(prog.width), NEW gates,
         NEW n \in 0 .. Len(prog.operations)
  PROVE  CompiledTo(prog, couplings, gates, n) \in Results
<1> DEFINE C(k) == CompiledTo(prog, couplings, gates, k)
           P == {k \in Nat : k <= Len(prog.operations) => C(k) \in Results}
<1>1. Len(prog.operations) \in Nat
  BY SourceFacts
<1>2. 0 \in P
  <2>1. C(0) = Nothing
    BY CompiledEquations
  <2>2. Nothing \in Results
    BY DEF Nothing, Results, Verdicts
  <2>3. QED
    BY <2>1, <2>2
<1>3. ASSUME NEW k \in Nat, k \in P PROVE k + 1 \in P
  <2>1. SUFFICES ASSUME k + 1 <= Len(prog.operations) PROVE C(k + 1) \in Results
    OBVIOUS
  <2>2. C(k) \in Results
    BY <1>1, <1>3, <2>1
  <2> DEFINE met == C(k)
             now == C(k + 1)
             m == k + 1
             op == prog.operations[m]
  <2>3. now = CompileStep(prog, couplings, gates, met, m) /\ m \in 1 .. Len(prog.operations) /\ met \in Results
    <3>1. C(k + 1) = CompileStep(prog, couplings, gates, C(k), k + 1)
      BY CompiledEquations
    <3>2. QED
      BY <1>1, <2>1, <2>2, <3>1
  <2>4. op = prog.operations[m]
    OBVIOUS
  <2> HIDE DEF met, now, m, op, C, P
  <2>5. now \in Results
    BY <2>3, <2>4, StepCases
  <2>6. QED
    BY <2>5 DEF now
<1> HIDE DEF P
<1>4. n \in P
  BY <1>1, <1>2, <1>3, Induction
<1>5. QED
  BY <1>1, <1>4 DEF P

LEMMA CompiledCases ==
  ASSUME NEW prog, WellFormed(prog), NEW couplings, UNION couplings \subseteq Slots(prog.width), NEW gates,
         NEW n \in Nat, NEW m \in 1 .. Len(prog.operations), m = n + 1, NEW op, op = prog.operations[m],
         NEW met, met = CompiledTo(prog, couplings, gates, n),
         NEW now, now = CompiledTo(prog, couplings, gates, m)
  PROVE  /\ met \in Results /\ now \in Results
         /\ \/ met.verdict # "compiled" /\ now = met
            \/ met.verdict = "compiled" /\ Refuses(met, now)
            \/ Copies(gates, met, now, op)
            \/ Routes(prog, couplings, gates, met, now, op, m)
<1>1. Len(prog.operations) \in Nat
  BY SourceFacts
<1>2. n \in 0 .. Len(prog.operations)
  BY <1>1
<1>3. met \in Results
  BY <1>2, CompiledTypes
<1>4. now = CompileStep(prog, couplings, gates, met, m)
  <2>1. CompiledTo(prog, couplings, gates, n + 1) = CompileStep(prog, couplings, gates, CompiledTo(prog, couplings, gates, n), n + 1)
    BY CompiledEquations
  <2>2. QED
    BY <2>1
<1>5. QED
  BY <1>3, <1>4, StepCases

\* What is emitted is native and on coupled qubits.
LEMMA CompiledOnDevice ==
  ASSUME NEW prog, WellFormed(prog), NEW couplings, UNION couplings \subseteq Slots(prog.width), NEW gates,
         NEW n \in 0 .. Len(prog.operations), NEW c, c = CompiledTo(prog, couplings, gates, n),
         NEW i \in 1 .. Len(c.operations)
  PROVE  OnDevice(c.operations[i], couplings, gates)
<1> DEFINE C(k) == CompiledTo(prog, couplings, gates, k)
           Good(x) == \A j \in 1 .. Len(x.operations) : OnDevice(x.operations[j], couplings, gates)
           P == {k \in Nat : k <= Len(prog.operations) => Good(C(k))}
<1>1. Len(prog.operations) \in Nat
  BY SourceFacts
<1>2. 0 \in P
  <2>1. C(0) = Nothing
    BY CompiledEquations
  <2>2. Nothing.operations = <<>>
    BY DEF Nothing
  <2>3. QED
    BY <2>1, <2>2
<1>3. ASSUME NEW k \in Nat, k \in P PROVE k + 1 \in P
  <2>1. SUFFICES ASSUME k + 1 <= Len(prog.operations) PROVE Good(C(k + 1))
    OBVIOUS
  <2> DEFINE met == C(k)
             now == C(k + 1)
             m == k + 1
             op == prog.operations[m]
  <2>2. Good(met)
    BY <1>1, <1>3, <2>1
  <2>3. /\ m \in 1 .. Len(prog.operations) /\ m = k + 1 /\ op = prog.operations[m]
        /\ met = CompiledTo(prog, couplings, gates, k) /\ now = CompiledTo(prog, couplings, gates, m)
    BY <1>1, <2>1
  <2> HIDE DEF met, now, m, op, C, P, Good
  <2>4. /\ met \in Results /\ now \in Results
        /\ \/ met.verdict # "compiled" /\ now = met
           \/ met.verdict = "compiled" /\ Refuses(met, now)
           \/ Copies(gates, met, now, op)
           \/ Routes(prog, couplings, gates, met, now, op, m)
    BY <2>3, CompiledCases
  <2>5. met.operations \in Seq(Operations)
    BY <2>4, ResultFields
  <2>6. op \in Operations
    BY <2>3, SourceOperation
  <2>7. CASE met.verdict # "compiled" /\ now = met
    BY <2>2, <2>7 DEF now
  <2>8. CASE Refuses(met, now)
    <3>1. now.operations = met.operations
      BY <2>8 DEF Refuses
    <3>2. Good(now)
      BY <2>2, <3>1 DEF Good
    <3>3. QED
      BY <3>2 DEF now
  <2>9. CASE Copies(gates, met, now, op)
    <3>1. now.operations = Append(met.operations, op) /\ OnDevice(op, couplings, gates)
      BY <2>9 DEF Copies, OnDevice
    <3> DEFINE ops == met.operations
    <3>2. now.operations = Append(ops, op) /\ ops \in Seq(Operations) /\ \A j \in 1 .. Len(ops) : OnDevice(ops[j], couplings, gates)
      BY <2>2, <2>5, <3>1 DEF Good
    <3> HIDE DEF ops
    <3>3. Good(now)
      BY <2>6, <3>1, <3>2 DEF Good
    <3>4. QED
      BY <3>3 DEF now
  <2>10. CASE Routes(prog, couplings, gates, met, now, op, m)
    <3> DEFINE path == Along(prog, couplings, op)
               ops == met.operations
               more == Routed(op, path)
    <3>1. /\ op.gate \in TwoQubit /\ op.gate \in gates /\ Joined(prog, couplings, op.qubits[1], op.qubits[2])
          /\ Len(path) > 2 => "SWAP" \in gates
          /\ now.operations = ops \o more /\ path = Along(prog, couplings, op)
      BY <2>10 DEF Routes
    <3>2. more = Routed(op, path) /\ \A j \in 1 .. Len(ops) : OnDevice(ops[j], couplings, gates)
      BY <2>2 DEF Good
    <3>3. ops \in Seq(Operations)
      BY <2>5
    <3> HIDE DEF path, ops, more
    <3>4. Within(prog.width, path) /\ Walk(couplings, path) /\ Routed(op, path) \in Seq(Operations)
      BY <2>3, <3>1, GateRoute
    <3>5. more \in Seq(Operations) /\ \A j \in 1 .. Len(more) : OnDevice(more[j], couplings, gates)
      <4>1. ASSUME NEW j \in 1 .. Len(Routed(op, path)) PROVE OnDevice(Routed(op, path)[j], couplings, gates)
        BY <2>6, <3>1, <3>4, RoutedOnDevice
      <4>2. QED
        BY <3>2, <3>4, <4>1
    <3>6. ASSUME NEW j \in 1 .. Len(ops \o more) PROVE OnDevice((ops \o more)[j], couplings, gates)
      <4>1. CASE j <= Len(ops)
        BY <3>2, <3>3, <3>5, <4>1
      <4>2. CASE j > Len(ops)
        <5>1. j - Len(ops) \in 1 .. Len(more) /\ (ops \o more)[j] = more[j - Len(ops)]
          BY <3>3, <3>5, <4>2
        <5>2. QED
          BY <3>5, <5>1
      <4>3. QED
        BY <3>3, <3>5, <4>1, <4>2
    <3>7. Good(now)
      BY <3>1, <3>6 DEF Good
    <3>8. QED
      BY <3>7 DEF now
  <2>11. QED
    BY <2>4, <2>7, <2>8, <2>9, <2>10
<1> HIDE DEF P, Good
<1>4. n \in P
  BY <1>1, <1>2, <1>3, Induction
<1>5. Good(c)
  BY <1>1, <1>4 DEF P
<1>6. QED
  BY <1>5 DEF Good

\* The first operations of a sequence, and one more.
LEMMA OneMore ==
  ASSUME NEW S, NEW s \in Seq(S), NEW k \in Nat, NEW m \in 1 .. Len(s), m = k + 1
  PROVE  /\ SubSeq(s, 1, k) \in Seq(S) /\ s[m] \in S /\ Len(SubSeq(s, 1, k)) = k
         /\ SubSeq(s, 1, m) = Append(SubSeq(s, 1, k), s[m])
<1> DEFINE t == SubSeq(s, 1, m)
<1>1. t \in Seq(S) /\ Len(t) = k + 1 /\ \A i \in 1 .. k + 1 : t[i] = s[i]
  OBVIOUS
<1>2. SubSeq(t, 1, k) = SubSeq(s, 1, k)
  <2> DEFINE u == SubSeq(t, 1, k)
             v == SubSeq(s, 1, k)
  <2>1. u \in Seq(S) /\ Len(u) = k /\ \A i \in 1 .. k : u[i] = t[i]
    <3> HIDE DEF t
    <3>1. QED
      BY <1>1
  <2>2. v \in Seq(S) /\ Len(v) = k /\ \A i \in 1 .. k : v[i] = s[i]
    OBVIOUS
  <2> HIDE DEF u, v, t
  <2>3. \A i \in 1 .. k : u[i] = v[i]
    BY <1>1, <2>1, <2>2
  <2>4. u = v
    BY <2>1, <2>2, <2>3, SeqEqual
  <2>5. QED
    BY <2>4 DEF u, v
<1> HIDE DEF t
<1>3. t = Append(SubSeq(t, 1, k), t[k + 1]) /\ SubSeq(t, 1, k) \in Seq(S) /\ Len(SubSeq(t, 1, k)) = k
  BY <1>1, LastSplit
<1>4. t[k + 1] = s[m] /\ s[m] \in S
  BY <1>1, ElementOfSeq
<1>5. QED
  BY <1>2, <1>3, <1>4 DEF t

\* The qubits stay a register, whatever a program does.
LEMMA SourceMet ==
  ASSUME NEW prog, WellFormed(prog), NEW n \in 0 .. Len(prog.operations)
  PROVE  Met(prog.width, Meaning(prog.width, SubSeq(prog.operations, 1, n)))
<1> DEFINE w == prog.width
           ops == prog.operations
           M(k) == Meaning(w, SubSeq(ops, 1, k))
           P == {k \in Nat : k <= Len(ops) => Met(w, M(k))}
<1>1. Len(ops) \in Nat /\ ops \in Seq(Operations)
  BY SourceFacts
<1>2. 0 \in P
  <2>1. SubSeq(ops, 1, 0) = <<>>
    BY <1>1
  <2>2. M(0) = Untouched(w)
    BY <2>1, AfterOne DEF Meaning
  <2>3. QED
    BY <2>2, UntouchedMet
<1>3. ASSUME NEW k \in Nat, k \in P PROVE k + 1 \in P
  <2>1. SUFFICES ASSUME k + 1 <= Len(ops) PROVE Met(w, M(k + 1))
    OBVIOUS
  <2> DEFINE m == k + 1
             op == ops[m]
             src == SubSeq(ops, 1, k)
             met == M(k)
  <2>2. Met(w, met)
    BY <1>1, <1>3, <2>1
  <2>3. m \in 1 .. Len(ops) /\ m = k + 1
    BY <1>1, <2>1
  <2>4. src \in Seq(Operations) /\ op \in Operations /\ SubSeq(ops, 1, m) = Append(src, op)
    <3> HIDE DEF m, ops
    <3>1. QED
      BY <1>1, <2>3, OneMore
  <2>5. M(m) = Doing(w, met, op)
    <3> HIDE DEF src, op, m
    <3>1. After(w, Untouched(w), Append(src, op)) = Doing(w, After(w, Untouched(w), src), op)
      BY <2>4, AfterEquations
    <3>2. QED
      BY <2>4, <3>1 DEF Meaning, src
  <2>6. op.gate = "SWAP" => Met(w, Doing(w, met, op))
    <3>1. SUFFICES ASSUME op.gate = "SWAP" PROVE Met(w, Doing(w, met, op))
      OBVIOUS
    <3> DEFINE a == op.qubits[1]
               b == op.qubits[2]
    <3>2. a \in Slots(w) /\ b \in Slots(w) /\ a # b /\ op.qubits = <<a, b>>
      <4>1. m \in 1 .. Len(prog.operations) /\ op = prog.operations[m]
        BY <2>3
      <4>2. op.gate \in TwoQubit
        BY <3>1 DEF TwoQubit
      <4> HIDE DEF m, op
      <4>3. QED
        BY <4>1, <4>2, SourceOperation
    <3> HIDE DEF a, b, met, op, w
    <3>3. Doing(w, met, op) = [done |-> met.done, at |-> Switched(met.at, a, b)]
      BY <3>1, <3>2, DoingSwap
    <3>4. Swap(a, b).gate = "SWAP" /\ Swap(a, b).qubits = <<a, b>>
      BY DEF Swap
    <3>5. Doing(w, met, Swap(a, b)) = [done |-> met.done, at |-> Switched(met.at, a, b)]
      BY <3>4, DoingSwap
    <3>6. Met(w, Doing(w, met, Swap(a, b)))
      BY <2>2, <3>2, DoingMet
    <3>7. QED
      BY <3>3, <3>5, <3>6
  <2>7. op.gate # "SWAP" => Met(w, Doing(w, met, op))
    <3> DEFINE did == Append(met.done, <<op.gate, op.when, Operands(w, met.at, op)>>)
               here == met.at
    <3>1. op.gate # "SWAP" => Doing(w, met, op) = [done |-> did, at |-> here]
      BY Zenon DEF Doing
    <3>2. here \in [Slots(w) -> Nat]
      BY <2>2 DEF Met
    <3> HIDE DEF did, here
    <3>3. QED
      BY <3>1, <3>2 DEF Met
  <2>8. QED
    BY <2>5, <2>6, <2>7
<1> HIDE DEF P
<1>4. n \in P
  BY <1>1, <1>2, <1>3, Induction
<1>5. QED
  BY <1>1, <1>4 DEF P

\* Between two operations, what the compiler has emitted does what the source does so far.
LEMMA CompiledMeaning ==
  ASSUME NEW prog, WellFormed(prog), NEW couplings, UNION couplings \subseteq Slots(prog.width), NEW gates,
         NEW n \in 0 .. Len(prog.operations), NEW c, c = CompiledTo(prog, couplings, gates, n),
         c.verdict = "compiled"
  PROVE  Meaning(prog.width, c.operations) = Meaning(prog.width, SubSeq(prog.operations, 1, n))
<1> DEFINE w == prog.width
           L == Len(prog.operations)
           C(k) == CompiledTo(prog, couplings, gates, k)
           Src(k) == Meaning(w, SubSeq(prog.operations, 1, k))
           Good(x, k) == x.verdict = "compiled" => Meaning(w, x.operations) = Src(k)
           P == {k \in Nat : k <= L => Good(C(k), k)}
<1>1. L \in Nat /\ prog.operations \in Seq(Operations)
  BY SourceFacts
<1>2. 0 \in P
  <2>1. C(0) = Nothing
    BY CompiledEquations
  <2>2. Nothing.operations = <<>> /\ SubSeq(prog.operations, 1, 0) = <<>>
    BY <1>1 DEF Nothing
  <2>3. QED
    BY <2>1, <2>2
<1>3. ASSUME NEW k \in Nat, k \in P PROVE k + 1 \in P
  <2>1. SUFFICES ASSUME k + 1 <= L, C(k + 1).verdict = "compiled"
                 PROVE  Meaning(w, C(k + 1).operations) = Src(k + 1)
    OBVIOUS
  <2> DEFINE met == C(k)
             now == C(k + 1)
             m == k + 1
             op == prog.operations[m]
             src == SubSeq(prog.operations, 1, k)
             ops == met.operations
             before == Meaning(w, src)
  <2>2. met.verdict = "compiled" => Meaning(w, ops) = before
    BY <1>1, <1>3, <2>1
  <2>3. /\ m \in 1 .. Len(prog.operations) /\ m = k + 1 /\ op = prog.operations[m]
        /\ met = CompiledTo(prog, couplings, gates, k) /\ now = CompiledTo(prog, couplings, gates, m)
    BY <1>1, <2>1
  <2>4. src \in Seq(Operations) /\ op \in Operations /\ SubSeq(prog.operations, 1, m) = Append(src, op)
    <3> HIDE DEF m
    <3>1. QED
      BY <1>1, <2>3, OneMore
  <2>5. Met(w, before)
    <3>1. k \in 0 .. Len(prog.operations)
      BY <1>1, <2>1
    <3>2. QED
      BY <3>1, SourceMet
  <2>6. now.verdict = "compiled"
    BY <2>1
  <2> HIDE DEF met, now, m, op, src
  <2>7. Src(m) = Doing(w, before, op)
    <3>1. After(w, Untouched(w), Append(src, op)) = Doing(w, After(w, Untouched(w), src), op)
      BY <2>4, AfterEquations
    <3>2. QED
      BY <2>4, <3>1 DEF Meaning
  <2>8. /\ met \in Results
        /\ \/ met.verdict # "compiled" /\ now = met
           \/ met.verdict = "compiled" /\ Refuses(met, now)
           \/ Copies(gates, met, now, op)
           \/ Routes(prog, couplings, gates, met, now, op, m)
    BY <2>3, CompiledCases
  <2>9. ops \in Seq(Operations)
    BY <2>8, ResultFields
  <2> HIDE DEF C, P, Good, ops, before, w
  <2>10. CASE Copies(gates, met, now, op)
    <3>1. now.operations = Append(ops, op) /\ met.verdict = "compiled"
      BY <2>10 DEF Copies, ops
    <3>2. After(w, Untouched(w), Append(ops, op)) = Doing(w, After(w, Untouched(w), ops), op)
      BY <2>4, <2>9, AfterEquations
    <3>3. Meaning(w, now.operations) = Doing(w, before, op)
      BY <2>2, <3>1, <3>2 DEF Meaning
    <3>4. QED
      BY <2>7, <3>3 DEF now, m
  <2>11. CASE Routes(prog, couplings, gates, met, now, op, m)
    <3> DEFINE path == Along(prog, couplings, op)
               more == Routed(op, path)
    <3>1. /\ op.gate \in TwoQubit /\ Joined(prog, couplings, op.qubits[1], op.qubits[2])
          /\ now.operations = ops \o more /\ path = Along(prog, couplings, op) /\ met.verdict = "compiled"
      BY <2>11 DEF Routes, ops
    <3> HIDE DEF path
    <3>2. Within(w, path) /\ On(op, path[1], path[Len(path)]) = op
      <4>1. op.gate \in TwoQubit /\ Joined(prog, couplings, op.qubits[1], op.qubits[2]) /\ path = Along(prog, couplings, op)
        BY <3>1
      <4>2. m \in 1 .. Len(prog.operations) /\ op = prog.operations[m]
        BY <2>3
      <4>3. Within(prog.width, path) /\ Ends(path, op.qubits[1], op.qubits[2]) /\ On(op, op.qubits[1], op.qubits[2]) = op
        BY <4>1, <4>2, GateRoute
      <4>4. QED
        BY <4>3 DEF w, Ends
    <3>3. more \in Seq(Operations) /\ After(w, before, more) = Doing(w, before, op)
      <4>1. /\ Routed(op, path) \in Seq(Operations)
            /\ After(w, before, Routed(op, path)) = Doing(w, before, On(op, path[1], path[Len(path)]))
        BY <2>4, <2>5, <3>1, <3>2, RoutedDoes
      <4>2. QED
        BY <3>2, <4>1
    <3> HIDE DEF more
    <3>4. After(w, Untouched(w), ops \o more) = After(w, After(w, Untouched(w), ops), more)
      BY <2>9, <3>3, AfterConcat
    <3>5. Meaning(w, now.operations) = Doing(w, before, op)
      BY <2>2, <3>1, <3>3, <3>4 DEF Meaning
    <3>6. QED
      BY <2>7, <3>5 DEF now, m
  <2>12. QED
    BY <2>6, <2>8, <2>10, <2>11 DEF Refuses
<1> HIDE DEF P, Good
<1>4. n \in P
  BY <1>1, <1>2, <1>3, Induction
<1>5. Good(C(n), n)
  BY <1>1, <1>4 DEF P
<1>6. QED
  BY <1>5 DEF Good

\* Every operation of the source has one like it in what was compiled, in time.
LEMMA CompiledKeeps ==
  ASSUME NEW prog, WellFormed(prog), NEW couplings, UNION couplings \subseteq Slots(prog.width), NEW gates,
         NEW n \in 0 .. Len(prog.operations), NEW c, c = CompiledTo(prog, couplings, gates, n),
         c.verdict = "compiled", NEW i \in 1 .. n
  PROVE  \E j \in 1 .. Len(c.operations) - (n - i) : Alike(c.operations[j], prog.operations[i])
<1> DEFINE L == Len(prog.operations)
           C(k) == CompiledTo(prog, couplings, gates, k)
           Has(s, l, x) == \E j \in 1 .. l : Alike(s[j], x)
           Good(x, k) == x.verdict = "compiled" =>
                           \A h \in 1 .. k : Has(x.operations, Len(x.operations) - (k - h), prog.operations[h])
           P == {k \in Nat : k <= L => Good(C(k), k)}
<1>1. L \in Nat /\ prog.operations \in Seq(Operations)
  BY SourceFacts
<1>2. 0 \in P
  OBVIOUS
<1>3. ASSUME NEW k \in Nat, k \in P PROVE k + 1 \in P
  <2> HIDE DEF Has, C
  <2>1. SUFFICES ASSUME k + 1 <= L, C(k + 1).verdict = "compiled",
                        NEW h \in 1 .. k + 1
                 PROVE  Has(C(k + 1).operations, Len(C(k + 1).operations) - ((k + 1) - h), prog.operations[h])
    OBVIOUS
  <2> USE DEF C
  <2> DEFINE met == C(k)
             now == C(k + 1)
             m == k + 1
             op == prog.operations[m]
             old == met.operations
             new == now.operations
  <2>2. met.verdict = "compiled" /\ h <= k => Has(old, Len(old) - (k - h), prog.operations[h])
    BY <1>1, <1>3, <2>1
  <2>3. /\ m \in 1 .. Len(prog.operations) /\ m = k + 1 /\ op = prog.operations[m]
        /\ met = CompiledTo(prog, couplings, gates, k) /\ now = CompiledTo(prog, couplings, gates, m)
    BY <1>1, <2>1
  <2>4. now.verdict = "compiled"
    BY <2>1
  <2> HIDE DEF met, now, m, op
  <2>5. /\ met \in Results /\ now \in Results
        /\ \/ met.verdict # "compiled" /\ now = met
           \/ met.verdict = "compiled" /\ Refuses(met, now)
           \/ Copies(gates, met, now, op)
           \/ Routes(prog, couplings, gates, met, now, op, m)
    BY <2>3, CompiledCases
  <2>6. old \in Seq(Operations) /\ new \in Seq(Operations)
    BY <2>5, ResultFields
  <2>7. op \in Operations
    BY <2>3, SourceOperation
  <2> HIDE DEF C, P, Good, old, new, L
  <2> USE DEF Has
  \* What had one like it has it still.
  <2>8. ASSUME met.verdict = "compiled", NEW more \in Seq(Operations), new = old \o more, NEW p \in 1 .. Len(more),
               Alike(more[p], op)
        PROVE  Has(new, Len(new) - (m - h), prog.operations[h])
    <3>1. Len(new) = Len(old) + Len(more) /\ Len(old) \in Nat /\ Len(more) \in Nat
      BY <2>6, <2>8
    <3>2. CASE h <= k
      <4>1. PICK j \in 1 .. Len(old) - (k - h) : Alike(old[j], prog.operations[h])
        BY <2>2, <2>8, <3>2
      <4>2. j \in 1 .. Len(old) /\ j \in 1 .. Len(new) - (m - h)
        BY <2>3, <2>8, <3>1, <3>2
      <4>3. new[j] = old[j]
        BY <2>6, <2>8, <4>2
      <4>4. QED
        BY <4>1, <4>2, <4>3
    <3>3. CASE h = m
      <4> DEFINE j == Len(old) + p
      <4>1. j \in 1 .. Len(new) - (m - h) /\ new[j] = more[p]
        BY <2>3, <2>6, <2>8, <3>1, <3>3
      <4> HIDE DEF j
      <4>2. Alike(new[j], prog.operations[h])
        BY <2>3, <2>8, <3>3, <4>1
      <4>3. QED
        BY <4>1, <4>2
    <3>4. QED
      BY <2>3, <3>2, <3>3
  <2> HIDE DEF Has
  <2>9. CASE Copies(gates, met, now, op)
    <3> DEFINE one == <<op>>
    <3>1. new = old \o one /\ met.verdict = "compiled" /\ one \in Seq(Operations) /\ 1 \in 1 .. Len(one) /\ one[1] = op
      <4>1. new = Append(old, op) /\ met.verdict = "compiled"
        BY <2>9 DEF Copies, old, new
      <4>2. QED
        BY <2>6, <2>7, <4>1
    <3> HIDE DEF one
    <3>2. Alike(one[1], op)
      BY <3>1 DEF Alike
    <3>3. Has(new, Len(new) - (m - h), prog.operations[h])
      BY <2>8, <3>1, <3>2
    <3>4. QED
      BY <3>3 DEF new, now, m
  <2>10. CASE Routes(prog, couplings, gates, met, now, op, m)
    <3> DEFINE path == Along(prog, couplings, op)
               more == Routed(op, path)
               k0 == Len(path) - 2
    <3>1. /\ op.gate \in TwoQubit /\ Joined(prog, couplings, op.qubits[1], op.qubits[2])
          /\ new = old \o more /\ path = Along(prog, couplings, op) /\ met.verdict = "compiled"
      BY <2>10 DEF Routes, old, new
    <3>2. more = Routed(op, path) /\ k0 = Len(path) - 2
      OBVIOUS
    <3> HIDE DEF path, more, k0
    <3>3. Within(prog.width, path)
      BY <2>3, <3>1, GateRoute
    <3>4. path \in Seq(Nat) /\ Len(path) >= 2
      BY <3>3 DEF Within
    <3>5. more \in Seq(Operations) /\ k0 \in Nat /\ Len(more) = 2 * k0 + 1 /\ Alike(more[k0 + 1], op)
      <4>1. more \in Seq(Operations) /\ k0 \in Nat /\ Len(more) = 2 * k0 + 1
        BY <2>7, <3>2, <3>4, RoutedElements
      <4>2. Alike(more[k0 + 1], op)
        BY <2>7, <3>2, <3>4, RoutedElements
      <4>3. QED
        BY <4>1, <4>2
    <3> DEFINE p == k0 + 1
    <3>6. p \in 1 .. Len(more) /\ Alike(more[p], op)
      BY <3>5
    <3> HIDE DEF p
    <3>7. Has(new, Len(new) - (m - h), prog.operations[h])
      BY <2>8, <3>1, <3>5, <3>6
    <3>8. QED
      BY <3>7 DEF new, now, m
  <2>11. QED
    BY <2>4, <2>5, <2>9, <2>10 DEF Refuses
<1> HIDE DEF P, Good
<1>4. n \in P
  BY <1>1, <1>2, <1>3, Induction
<1>5. Good(c, n)
  BY <1>1, <1>4 DEF P
<1>6. QED
  BY <1>5 DEF Good

\* A route record fits the source operation it is of.
Fits(prog, couplings, record, g) ==
  LET op == prog.operations[g]
  IN  /\ record.step = g /\ record.gate = op.gate /\ record.qubits = op.qubits
      /\ Len(record.path) >= 2
      /\ Head(record.path) = op.qubits[1] /\ Last(record.path) = op.qubits[2]
      /\ \A k \in 1 .. Len(record.path) - 1 : {record.path[k], record.path[k + 1]} \in couplings
      /\ record.swaps = 2 * Len(SwapsAlong(record.path))

LEMMA RecordFits ==
  ASSUME NEW prog, NEW couplings, NEW g, NEW path \in Seq(Nat), Len(path) >= 2, Walk(couplings, path),
         Ends(path, prog.operations[g].qubits[1], prog.operations[g].qubits[2])
  PROVE  Fits(prog, couplings, RouteRecord(g, prog.operations[g], path), g)
<1> DEFINE op == prog.operations[g]
           record == RouteRecord(g, op, path)
<1>1. /\ record.step = g /\ record.gate = op.gate /\ record.qubits = op.qubits /\ record.path = path
      /\ record.swaps = 2 * Len(SwapsAlong(path))
  BY DEF RouteRecord
<1>2. Head(path) = op.qubits[1] /\ Last(path) = op.qubits[2]
  BY DEF Last, Ends
<1>3. ASSUME NEW i \in 1 .. Len(path) - 1 PROVE {path[i], path[i + 1]} \in couplings
  <2>1. path[i + 1] \in Neighbours(couplings, path[i])
    BY DEF Walk
  <2>2. QED
    BY <2>1 DEF Neighbours
<1>4. QED
  BY <1>1, <1>2, <1>3 DEF Fits

LEMMA CompiledTrace ==
  ASSUME NEW prog, WellFormed(prog), NEW couplings, UNION couplings \subseteq Slots(prog.width), NEW gates,
         NEW c, c = CompiledTo(prog, couplings, gates, Len(prog.operations)), c.verdict = "compiled"
  PROVE  TypedTraceAgrees(prog, couplings, c)
<1> DEFINE L == Len(prog.operations)
           steps == [i \in 1 .. L |-> i]
           T == {i \in ToSet(steps) : prog.operations[i].gate \in TwoQubit}
           G(k) == Chosen(SubSeq(steps, 1, k), T)
           C(k) == CompiledTo(prog, couplings, gates, k)
           Told(x, g) == Len(x.trace) = Len(g) /\ \A i \in 1 .. Len(g) : Fits(prog, couplings, x.trace[i], g[i])
           Good(x, k) == x.verdict = "compiled" =>
                           Told(x, G(k)) /\ Len(x.operations) - k = SwapsIn(x.trace)
           P == {k \in Nat : k <= L => G(k) \in Seq(Nat) /\ Good(C(k), k)}
<1>1. L \in Nat /\ prog.operations \in Seq(Operations)
  BY SourceFacts
<1> HIDE DEF L
<1>2. steps \in Seq(Nat) /\ Len(steps) = L /\ (\A i \in 1 .. L : steps[i] = i) /\ ToSet(steps) = 1 .. L
  <2>1. steps \in Seq(Nat) /\ Len(steps) = L /\ \A i \in 1 .. L : steps[i] = i
    BY <1>1
  <2>2. ToSet(steps) = 1 .. L
    BY <2>1 DEF ToSet
  <2>3. QED
    BY <2>1, <2>2
<1> HIDE DEF steps
<1>3. \A i \in 1 .. L : i \in T <=> prog.operations[i].gate \in TwoQubit
  BY <1>2
<1> HIDE DEF T
<1>4. 0 \in P
  <2>1. C(0) = Nothing
    BY CompiledEquations
  <2>2. SubSeq(steps, 1, 0) = <<>>
    BY <1>2
  <2>3. Chosen(<<>>, T) = <<>>
    <3>1. <<>> \in Seq({0}) /\ 0 \in {0}
      OBVIOUS
    <3>2. QED
      BY <3>1, ChosenEquations
  <2>4. SwapsIn(<<>>) = 0
    <3>1. <<>> \in Seq({0}) /\ 0 \in {0}
      OBVIOUS
    <3>2. QED
      BY <3>1, SwapsInEquations
  <2>5. Nothing.operations = <<>> /\ Nothing.trace = <<>>
    BY DEF Nothing
  <2>6. G(0) = <<>> /\ C(0).operations = <<>> /\ C(0).trace = <<>>
    BY <2>1, <2>2, <2>3, <2>5
  <2>7. G(0) \in Seq(Nat) /\ Len(G(0)) = 0 /\ Len(C(0).trace) = 0 /\ Len(C(0).operations) = 0 /\ SwapsIn(C(0).trace) = 0
    <3> HIDE DEF G, C
    <3>1. SwapsIn(C(0).trace) = 0
      BY <2>4, <2>6
    <3>2. G(0) \in Seq(Nat) /\ Len(G(0)) = 0
      <4>1. <<>> \in Seq(Nat) /\ Len(<<>>) = 0
        OBVIOUS
      <4>2. QED
        BY <2>6, <4>1
    <3>3. Len(C(0).trace) = 0 /\ Len(C(0).operations) = 0
      BY <2>6
    <3>4. QED
      BY <3>1, <3>2, <3>3
  <2> HIDE DEF G, C
  <2>8. QED
    BY <2>7
<1>5. ASSUME NEW k \in Nat, k \in P PROVE k + 1 \in P
  <2> DEFINE met == C(k)
             now == C(k + 1)
             m == k + 1
             op == prog.operations[m]
             g == G(k)
             told == met.trace
             old == met.operations
  <2>1. SUFFICES ASSUME m <= L PROVE G(m) \in Seq(Nat) /\ Good(now, m)
    OBVIOUS
  <2>2. g \in Seq(Nat) /\ Good(met, k)
    BY <1>1, <1>5, <2>1
  <2>3. /\ m \in 1 .. Len(prog.operations) /\ m = k + 1 /\ op = prog.operations[m]
        /\ met = CompiledTo(prog, couplings, gates, k) /\ now = CompiledTo(prog, couplings, gates, m)
    BY <1>1, <2>1 DEF L
  <2>4. m \in 1 .. L
    BY <2>3 DEF L
  <2> HIDE DEF met, now, m, op, G
  <2>5. /\ met \in Results /\ now \in Results
        /\ \/ met.verdict # "compiled" /\ now = met
           \/ met.verdict = "compiled" /\ Refuses(met, now)
           \/ Copies(gates, met, now, op)
           \/ Routes(prog, couplings, gates, met, now, op, m)
    BY <2>3, CompiledCases
  <2>6. old \in Seq(Operations) /\ told \in Seq(RouteRecords)
    BY <2>5, ResultFields
  <2>7. op \in Operations
    BY <2>3, SourceOperation
  <2>8. G(m) = IF op.gate \in TwoQubit THEN Append(g, m) ELSE g
    <3> DEFINE s == SubSeq(steps, 1, k)
    <3>1. s \in Seq(Nat) /\ steps[m] \in Nat /\ Len(s) = k /\ SubSeq(steps, 1, m) = Append(s, steps[m])
      <4>1. m \in 1 .. Len(steps)
        BY <1>2, <2>4
      <4>2. QED
        BY <1>2, <2>3, <4>1, OneMore
    <3>2. steps[m] = m
      BY <1>2, <2>4
    <3>3. s \in Seq(Nat) /\ m \in Nat /\ Len(s) + 1 = m
      BY <2>3, <2>4, <3>1
    <3> HIDE DEF s
    <3>4. Chosen(Append(s, m), T) = IF Len(s) + 1 \in T THEN Append(Chosen(s, T), m) ELSE Chosen(s, T)
      BY <3>3, ChosenEquations
    <3>5. G(m) = Chosen(Append(s, m), T) /\ g = Chosen(s, T)
      BY <3>1, <3>2 DEF G, s
    <3>6. m \in T <=> op.gate \in TwoQubit
      BY <1>3, <2>3, <2>4
    <3>7. QED
      BY <3>3, <3>4, <3>5, <3>6
  <2> HIDE DEF g
  <2>9. G(m) \in Seq(Nat)
    <3>1. g \in Seq(Nat) /\ m \in Nat
      BY <2>2, <2>4 DEF g
    <3>2. QED
      BY <2>8, <3>1
  <2>10. g \in Seq(Nat) /\ Len(g) \in Nat
    <3>1. g \in Seq(Nat)
      BY <2>2 DEF g
    <3>2. QED
      BY <3>1
  <2>11. met.verdict = "compiled" =>
           /\ Len(told) = Len(g) /\ \A i \in 1 .. Len(g) : Fits(prog, couplings, told[i], g[i])
           /\ Len(old) - k = SwapsIn(told)
    BY <2>2 DEF g
  <2> HIDE DEF old, told
  <2>12. CASE Copies(gates, met, now, op)
    <3>1. /\ met.verdict = "compiled" /\ op.gate \notin TwoQubit
          /\ now.operations = Append(old, op) /\ now.trace = told
      BY <2>12 DEF Copies, old, told
    <3>2. Len(now.operations) = Len(old) + 1
      BY <2>6, <2>7, <3>1
    <3>3. Len(now.operations) - m = Len(old) - k
      BY <2>3, <2>6, <3>2
    <3>4. Told(now, G(m))
      BY <2>8, <2>11, <3>1
    <3> HIDE DEF Told
    <3>5. QED
      BY <2>9, <2>11, <3>1, <3>3, <3>4
  <2>13. CASE Routes(prog, couplings, gates, met, now, op, m)
    <3> DEFINE path == Along(prog, couplings, op)
               more == Routed(op, path)
               record == RouteRecord(m, op, path)
               k0 == Len(path) - 2
               new == Append(told, record)
               g2 == Append(g, m)
    <3>1. /\ op.gate \in TwoQubit /\ Joined(prog, couplings, op.qubits[1], op.qubits[2])
          /\ now.operations = old \o more /\ path = Along(prog, couplings, op) /\ met.verdict = "compiled"
          /\ now.trace = new
      BY <2>13 DEF Routes, old, told
    <3>2. more = Routed(op, path) /\ k0 = Len(path) - 2 /\ record = RouteRecord(m, op, path)
      OBVIOUS
    <3> HIDE DEF path, more, k0, record
    <3>3. Within(prog.width, path) /\ Walk(couplings, path)
      BY <2>3, <3>1, GateRoute
    <3>9. Ends(path, op.qubits[1], op.qubits[2])
      BY <2>3, <3>1, GateRoute
    <3>4. path \in Seq(Nat) /\ Len(path) >= 2
      BY <3>3 DEF Within
    <3>5. more \in Seq(Operations) /\ k0 \in Nat /\ Len(more) = 2 * k0 + 1
      BY <2>7, <3>2, <3>4, RoutedElements
    <3>6. Fits(prog, couplings, record, m) /\ record.swaps = 2 * k0
      <4>1. Ends(path, prog.operations[m].qubits[1], prog.operations[m].qubits[2]) /\ record = RouteRecord(m, prog.operations[m], path)
        BY <2>3, <3>2, <3>9
      <4>2. Fits(prog, couplings, RouteRecord(m, prog.operations[m], path), m)
        BY <3>3, <3>4, <4>1, RecordFits
      <4>3. record.swaps = 2 * Len(SwapsAlong(path)) /\ Len(SwapsAlong(path)) = k0
        BY <3>2, <3>4, SwapsAlongPath DEF RouteRecord
      <4>4. QED
        BY <4>1, <4>2, <4>3
    <3>7. record \in RouteRecords
      <4>1. RouteRecord(m, op, path) \in RouteRecords
        BY <2>3, <3>1, GateRoute
      <4>2. QED
        BY <3>2, <4>1
    <3>8. SwapsIn(new) = SwapsIn(told) + 2 * k0
      <4>1. SwapsIn(Append(told, record)) = SwapsIn(told) + record.swaps
        BY <2>6, <3>7, SwapsInEquations DEF told
      <4>2. QED
        BY <3>6, <4>1
    <3>10. Len(now.operations) - m = SwapsIn(new)
      <4>1. Len(old \o more) = Len(old) + (2 * k0 + 1) /\ Len(old) \in Nat
        BY <2>6, <3>5
      <4> DEFINE l == Len(old)
      <4>2. l - k = SwapsIn(told) /\ l \in Nat
        BY <2>11, <3>1, <4>1
      <4> HIDE DEF l
      <4>3. (l + (2 * k0 + 1)) - m = SwapsIn(told) + 2 * k0
        BY <2>3, <3>5, <4>2
      <4>4. QED
        BY <3>1, <3>8, <4>1, <4>3 DEF l
    <3>11. Len(new) = Len(g2) /\ \A i \in 1 .. Len(g2) : Fits(prog, couplings, new[i], g2[i])
      <4>1. told \in Seq(RouteRecords) /\ Len(told) = Len(g) /\ m \in Nat
        BY <2>3, <2>6, <2>11, <3>1 DEF told
      <4>2. /\ Len(new) = Len(g) + 1 /\ new[Len(g) + 1] = record
            /\ \A i \in 1 .. Len(g) : new[i] = told[i]
        BY <2>10, <3>7, <4>1
      <4>3. /\ Len(g2) = Len(g) + 1 /\ g2[Len(g) + 1] = m
            /\ \A i \in 1 .. Len(g) : g2[i] = g[i]
        BY <2>10, <4>1
      <4> HIDE DEF new, g2
      <4>4. ASSUME NEW i \in 1 .. Len(g2) PROVE Fits(prog, couplings, new[i], g2[i])
        <5>1. CASE i = Len(g) + 1
          BY <3>6, <4>2, <4>3, <5>1
        <5>2. CASE i # Len(g) + 1
          <6>1. i \in 1 .. Len(g)
            BY <2>10, <4>3, <5>2
          <6>2. QED
            BY <2>11, <3>1, <4>2, <4>3, <6>1
        <5>3. QED
          BY <5>1, <5>2
      <4>5. QED
        BY <4>2, <4>3, <4>4
    <3>12. G(m) = g2
      BY <2>8, <3>1
    <3> HIDE DEF new, g2
    <3>13. Told(now, G(m))
      BY <3>1, <3>11, <3>12
    <3> HIDE DEF Told
    <3>14. QED
      BY <2>9, <3>1, <3>10, <3>13
  <2>14. CASE now.verdict # "compiled"
    BY <2>9, <2>14
  <2>15. CASE met.verdict # "compiled" /\ now = met
    BY <2>9, <2>15
  <2>16. QED
    <3> HIDE DEF Good
    <3>1. QED
      BY <2>5, <2>12, <2>13, <2>14, <2>15 DEF Refuses
<1> HIDE DEF P, Good
<1>6. L \in P
  BY <1>1, <1>4, <1>5, Induction
<1>7. Good(c, L)
  BY <1>1, <1>6 DEF P, L
<1>8. G(L) = Chosen(steps, T)
  <2>1. SubSeq(steps, 1, L) = steps
    BY <1>1, <1>2
  <2>2. QED
    BY <2>1
<1>9. Told(c, Chosen(steps, T)) /\ Len(c.operations) - L = SwapsIn(c.trace)
  BY <1>7, <1>8 DEF Good
<1>10. Chosen(steps, T) \in Seq(Nat)
  BY <1>1, <1>6, <1>8 DEF P
<1> DEFINE chosen == Chosen(steps, T)
<1>11. DOMAIN chosen = 1 .. Len(chosen)
  BY <1>10
<1>12. \A i \in DOMAIN chosen : Fits(prog, couplings, c.trace[i], chosen[i])
  BY <1>9, <1>11
<1>13. QED
  BY <1>9, <1>12, Zenon DEF TypedTraceAgrees, Fits, steps, T, L

-----------------------------------------------------------------------------
(* Admission, and what the compiler workflow relies on of the compiler.    *)

LEMMA NoError == ASSUME NEW c, NEW code, NEW status PROVE Error(c, code, status) = {} <=> ~c
BY DEF Error

LEMMA OperationAdmitted ==
  ASSUME NEW op \in Operations
  PROVE  OperationErrors(op) = {} <=> op.gate \in Executable /\ ~op.when
<1>1. op.gate \in Kinds /\ op.when \in BOOLEAN
  BY OperationFields
<1> DEFINE e(x) == [code |-> x, status |-> "UNSUPPORTED"]
<1>2. \A x : Error(TRUE, x, "UNSUPPORTED") = {e(x)}
  BY DEF Error
<1>3. CASE op.gate \in {"NOISE", "ASSERT", "MEASURE", "FULL"}
  <2>1. \E x : OperationErrors(op) = Error(TRUE, x, "UNSUPPORTED")
    BY <1>3 DEF OperationErrors
  <2>2. OperationErrors(op) # {}
    BY <1>2, <2>1
  <2>3. op.gate \notin Executable
    BY <1>3 DEF Executable, TwoQubit
  <2>4. QED
    BY <2>2, <2>3
<1>4. CASE op.gate \in Executable
  <2>1. OperationErrors(op) = Error(op.when, "dynamic_control", "UNSUPPORTED")
    BY <1>4 DEF OperationErrors, Executable, TwoQubit
  <2>2. OperationErrors(op) = {} <=> ~op.when
    BY <2>1, NoError
  <2>3. QED
    BY <1>4, <2>2
<1>5. QED
  BY <1>1, <1>3, <1>4 DEF Kinds

LEMMA PrefixFacts ==
  ASSUME NEW prog, prog.operations \in Seq(Operations), prog.operations # <<>>
  PROVE  /\ Prefix(prog) \in Seq(Operations) /\ Len(Prefix(prog)) = Len(prog.operations) - 1
         /\ Len(prog.operations) \in Nat \ {0}
         /\ \A i \in 1 .. Len(prog.operations) - 1 : Prefix(prog)[i] = prog.operations[i]
         /\ Last(prog.operations) = prog.operations[Len(prog.operations)]
<1> DEFINE ops == prog.operations
<1>1. Prefix(prog) = Front(ops) /\ ops \in Seq(Operations) /\ ops # <<>>
  BY DEF Prefix
<1> HIDE DEF ops
<1>2. Len(ops) \in Nat \ {0}
  BY <1>1, EmptySeq
<1>3. Front(ops) = SubSeq(ops, 1, Len(ops) - 1)
  BY DEF Front
<1>4. Front(ops) \in Seq(Operations) /\ Len(Front(ops)) = Len(ops) - 1 /\ \A i \in 1 .. Len(ops) - 1 : Front(ops)[i] = ops[i]
  <2> DEFINE n == Len(ops) - 1
  <2>1. n \in Nat /\ Len(ops) = n + 1
    BY <1>2
  <2> HIDE DEF n
  <2>2. /\ SubSeq(ops, 1, n) \in Seq(Operations) /\ Len(SubSeq(ops, 1, n)) = n
        /\ \A i \in 1 .. n : SubSeq(ops, 1, n)[i] = ops[i]
    BY <1>1, <2>1, LastSplit
  <2>3. QED
    BY <1>3, <2>2 DEF n
<1>5. Last(ops) = ops[Len(ops)]
  BY DEF Last
<1>6. QED
  BY <1>1, <1>2, <1>4, <1>5 DEF ops

\* A program is admitted exactly when it is in the declared subset.
LEMMA AdmittedIsCommon ==
  ASSUME NEW prog \in ProgramRecords
  PROVE  AdmitNative(prog) = {} <=> InCommonSubset(prog)
<1> DEFINE ops == prog.operations
           prefix == Prefix(prog)
<1>1. /\ ops \in Seq(Operations) /\ prog.width \in Nat /\ prog.bits \in Nat
      /\ MaxQubits \in Nat /\ MaxGates \in Nat
  BY BudgetAssumption DEF ProgramRecords
<1>2. AdmitNative(prog) = {} <=>
        /\ prog.backend = "statevector" /\ ~(prog.width > MaxQubits) /\ prog.bits = prog.width
        /\ ~(ops = <<>> \/ Last(ops).gate # "FULL") /\ ~(Len(prefix) > MaxGates)
        /\ \A op \in ToSet(prefix) : OperationErrors(op) = {}
  <2> DEFINE E1 == Error(prog.backend # "statevector", "noise_or_nonunitary_backend", "UNSUPPORTED")
             E2 == Error(prog.width > MaxQubits, "qubit_budget", "BLOCKED")
             E3 == Error(prog.bits # prog.width, "native_register_widths", "UNSUPPORTED")
             E4 == Error(ops = <<>> \/ Last(ops).gate # "FULL", "terminal_measurement", "UNSUPPORTED")
             E5 == Error(Len(prefix) > MaxGates, "gate_budget", "BLOCKED")
             E6 == UNION {OperationErrors(op) : op \in ToSet(prefix)}
  <2>1. AdmitNative(prog) = E1 \cup E2 \cup E3 \cup E4 \cup E5 \cup E6
    BY Zenon DEF AdmitNative
  <2>2. E1 = {} <=> prog.backend = "statevector"
    BY DEF Error
  <2>3. E2 = {} <=> ~(prog.width > MaxQubits)
    BY DEF Error
  <2>4. E3 = {} <=> prog.bits = prog.width
    BY DEF Error
  <2>5. E4 = {} <=> ~(ops = <<>> \/ Last(ops).gate # "FULL")
    BY DEF Error
  <2>6. E5 = {} <=> ~(Len(prefix) > MaxGates)
    BY DEF Error
  <2>7. E6 = {} <=> \A op \in ToSet(prefix) : OperationErrors(op) = {}
    BY Zenon
  <2> HIDE DEF E1, E2, E3, E4, E5, E6, ops, prefix
  <2>8. AdmitNative(prog) = {} <=> E1 = {} /\ E2 = {} /\ E3 = {} /\ E4 = {} /\ E5 = {} /\ E6 = {}
    BY <2>1
  <2>9. QED
    BY <2>2, <2>3, <2>4, <2>5, <2>6, <2>7, <2>8
<1>3. CASE ops = <<>>
  <2>1. Len(ops) = 0
    BY <1>3
  <2>2. ~InCommonSubset(prog)
    <3>1. Len(prog.operations) \notin 1 .. MaxGates + 1
      BY <1>1, <2>1
    <3>2. QED
      BY <3>1 DEF InCommonSubset
  <2>3. QED
    BY <1>2, <1>3, <2>2
<1>4. CASE ops # <<>>
  <2> DEFINE n == Len(ops)
  <2>1. /\ prefix \in Seq(Operations) /\ Len(prefix) = n - 1 /\ n \in Nat \ {0}
        /\ \A i \in 1 .. n - 1 : prefix[i] = ops[i]
        /\ Last(ops) = ops[n]
    BY <1>1, <1>4, PrefixFacts
  <2> HIDE DEF prefix, ops, n
  <2>2. (\A op \in ToSet(prefix) : OperationErrors(op) = {})
          <=> \A i \in 1 .. n - 1 : ops[i].gate \in Executable /\ ~ops[i].when
    <3>1. DOMAIN prefix = 1 .. n - 1
      BY <2>1
    <3>2. ASSUME NEW i \in 1 .. n - 1 PROVE OperationErrors(prefix[i]) = {} <=> ops[i].gate \in Executable /\ ~ops[i].when
      <4>1. prefix[i] \in Operations /\ prefix[i] = ops[i]
        BY <2>1, ElementOfSeq
      <4>2. QED
        BY <4>1, OperationAdmitted
    <3>3. (\A op \in ToSet(prefix) : OperationErrors(op) = {}) <=> \A i \in 1 .. n - 1 : OperationErrors(prefix[i]) = {}
      BY <3>1 DEF ToSet
    <3>4. QED
      BY <3>2, <3>3
  <2>3. InCommonSubset(prog) <=>
          /\ prog.backend = "statevector" /\ prog.bits = prog.width /\ prog.width <= MaxQubits
          /\ n \in 1 .. MaxGates + 1
          /\ \A i \in DOMAIN ops : IF i = n THEN ops[i].gate = "FULL" ELSE ops[i].gate \in Executable /\ ~ops[i].when
    BY Zenon DEF InCommonSubset, ops, n
  <2>4. DOMAIN ops = 1 .. n /\ n \in 1 .. n
    BY <1>1, <2>1 DEF n
  <2>5. (\A i \in DOMAIN ops : IF i = n THEN ops[i].gate = "FULL" ELSE ops[i].gate \in Executable /\ ~ops[i].when)
          <=> ops[n].gate = "FULL" /\ \A i \in 1 .. n - 1 : ops[i].gate \in Executable /\ ~ops[i].when
    <3>1. \A i \in 1 .. n : i = n \/ i \in 1 .. n - 1
      BY <2>1
    <3>2. \A i \in 1 .. n - 1 : i # n /\ i \in 1 .. n
      BY <2>1
    <3>3. QED
      BY <2>4, <3>1, <3>2
  <2>6. n \in 1 .. MaxGates + 1 <=> ~(Len(prefix) > MaxGates)
    BY <1>1, <2>1
  <2>7. prog.width <= MaxQubits <=> ~(prog.width > MaxQubits)
    BY <1>1
  <2>8. QED
    BY <1>2, <1>4, <2>1, <2>2, <2>3, <2>5, <2>6, <2>7
<1>5. QED
  BY <1>3, <1>4

LEMMA EdgesOnRegister ==
  ASSUME NEW edgeList, NEW width
  PROVE  /\ UNION Edges(edgeList, width) \subseteq Slots(width)
         /\ Edges(edgeList, width) \subseteq {ToSet(e) : e \in ToSet(edgeList)}
<1>1. \A e \in Edges(edgeList, width) : e \subseteq Slots(width) /\ e \in {ToSet(d) : d \in ToSet(edgeList)}
  BY DEF Edges, ValidEdge, Slots
<1>2. QED
  BY <1>1

\* What compile_topology returns.
LEMMA CompileResult ==
  ASSUME NEW prog, WellFormed(prog), NEW couplings, UNION couplings \subseteq Slots(prog.width), NEW gates,
         NEW result, result = Compile(prog, couplings, gates)
  PROVE  /\ result \in Results
         /\ result.verdict = "compiled" =>
              /\ TypedTraceAgrees(prog, couplings, result)
              /\ \A i \in 1 .. Len(result.operations) : OnDevice(result.operations[i], couplings, gates)
              /\ Meaning(prog.width, result.operations) = Meaning(prog.width, prog.operations)
              /\ \A i \in 1 .. Len(prog.operations) :
                   \E j \in 1 .. Len(result.operations) - (Len(prog.operations) - i) :
                     Alike(result.operations[j], prog.operations[i])
<1> DEFINE L == Len(prog.operations)
<1>1. prog.operations \in Seq(Operations) /\ L \in Nat /\ L \in 0 .. L
  BY SourceFacts
<1>2. CASE ~(gates \subseteq Executable)
  <2>1. result = [Nothing EXCEPT !.verdict = "unknown_gate"]
    BY <1>2 DEF Compile
  <2>2. result = [verdict |-> "unknown_gate", operations |-> <<>>, trace |-> <<>>]
    BY <2>1 DEF Nothing
  <2>3. QED
    BY <2>2 DEF Results, Verdicts
<1>3. CASE gates \subseteq Executable
  <2>1. result = CompiledTo(prog, couplings, gates, L)
    BY <1>3 DEF Compile
  <2>2. result \in Results
    BY <1>1, <2>1, CompiledTypes
  <2>3. ASSUME result.verdict = "compiled" PROVE TypedTraceAgrees(prog, couplings, result)
    BY <2>1, <2>3, CompiledTrace
  <2>4. \A i \in 1 .. Len(result.operations) : OnDevice(result.operations[i], couplings, gates)
    BY <1>1, <2>1, CompiledOnDevice
  <2>5. ASSUME result.verdict = "compiled" PROVE Meaning(prog.width, result.operations) = Meaning(prog.width, prog.operations)
    <3>1. Meaning(prog.width, result.operations) = Meaning(prog.width, SubSeq(prog.operations, 1, L))
      BY <1>1, <2>1, <2>5, CompiledMeaning
    <3>2. SubSeq(prog.operations, 1, L) = prog.operations
      BY <1>1
    <3>3. QED
      BY <3>1, <3>2
  <2>6. ASSUME result.verdict = "compiled", NEW i \in 1 .. L
        PROVE  \E j \in 1 .. Len(result.operations) - (L - i) : Alike(result.operations[j], prog.operations[i])
    BY <1>1, <2>1, <2>6, CompiledKeeps
  <2>7. QED
    BY <2>2, <2>3, <2>4, <2>5, <2>6
<1>4. QED
  BY <1>2, <1>3

\* If what was compiled is in the declared subset, so is its source.
LEMMA CompiledCommon ==
  ASSUME NEW prog, WellFormed(prog), NEW couplings, UNION couplings \subseteq Slots(prog.width), NEW gates,
         NEW result, result = Compile(prog, couplings, gates), result.verdict = "compiled"
  PROVE  /\ WithOperations(prog, result) \in ProgramRecords
         /\ SameProgram(prog, WithOperations(prog, result))
         /\ WithOperations(prog, result).operations = result.operations
         /\ InCommonSubset(WithOperations(prog, result)) => InCommonSubset(prog)
<1> DEFINE again == WithOperations(prog, result)
           src == prog.operations
           ops == result.operations
           L == Len(src)
           N == Len(ops)
<1>1. /\ prog \in ProgramRecords /\ prog.width \in Nat \ {0} /\ src \in Seq(Operations) /\ L \in Nat \ {0}
      /\ prog.bits \in Nat \ {0}
  BY SourceFacts
<1>2. result \in Results
  BY CompileResult
<1>3. ops \in Seq(Operations) /\ N \in Nat
  BY <1>2, ResultFields
<1>4. again = [backend |-> prog.backend, width |-> prog.width, bits |-> prog.bits, operations |-> ops]
  BY <1>1 DEF WithOperations, ProgramRecords
<1>5. /\ again.backend = prog.backend /\ again.width = prog.width /\ again.bits = prog.bits
      /\ again.operations = ops
  BY <1>4
<1>6. again \in ProgramRecords
  BY <1>1, <1>3, <1>4 DEF ProgramRecords
<1>7. Meaning(prog.width, ops) = Meaning(prog.width, src)
  BY CompileResult
<1>8. SameProgram(prog, again)
  BY <1>5, <1>7 DEF SameProgram
<1> HIDE DEF again
<1>9. ASSUME InCommonSubset(again) PROVE InCommonSubset(prog)
  <2>1. /\ prog.backend = "statevector" /\ prog.bits = prog.width /\ prog.width <= MaxQubits
        /\ N \in 1 .. MaxGates + 1
        /\ \A j \in 1 .. N : IF j = N THEN ops[j].gate = "FULL" ELSE ops[j].gate \in Executable /\ ~ops[j].when
    <3>1. DOMAIN ops = 1 .. N
      BY <1>3
    <3>2. QED
      BY <1>5, <1>9, <3>1 DEF InCommonSubset
  <2>2. \A i \in 1 .. L : \E j \in 1 .. N - (L - i) : Alike(ops[j], src[i])
    <3> HIDE DEF L
    <3>1. \A i \in 1 .. Len(src) : \E j \in 1 .. Len(ops) - (Len(src) - i) : Alike(ops[j], src[i])
      BY CompileResult
    <3>2. QED
      BY <3>1 DEF L
  <2>3. ASSUME NEW i \in 1 .. L - 1 PROVE src[i].gate \in Executable /\ ~src[i].when
    <3>1. i \in 1 .. L
      BY <1>1
    <3>2. PICK j \in 1 .. N - (L - i) : Alike(ops[j], src[i])
      BY <2>2, <3>1
    <3>3. j \in 1 .. N /\ j # N
      BY <1>1, <1>3, <2>3, <3>2
    <3>4. ops[j].gate \in Executable /\ ~ops[j].when
      BY <2>1, <3>3
    <3>5. QED
      BY <3>2, <3>4 DEF Alike
  <2>4. src[L].gate = "FULL"
    <3>1. PICK i \in DOMAIN src : src[i].gate \in {"MEASURE", "FULL"}
      BY DEF WellFormed
    <3>2. i \in 1 .. L
      BY <1>1, <3>1
    <3>3. src[i].gate \notin Executable
      BY <3>1 DEF Executable, TwoQubit
    <3>4. i = L
      <4>1. CASE i \in 1 .. L - 1
        BY <2>3, <3>3, <4>1
      <4>2. QED
        BY <1>1, <3>2, <4>1
    <3>5. PICK j \in 1 .. N - (L - L) : Alike(ops[j], src[L])
      <4>1. L \in 1 .. L
        BY <1>1
      <4>2. QED
        BY <2>2, <4>1
    <3>6. j \in 1 .. N
      BY <1>1, <1>3, <3>5
    <3>7. ops[j].gate \notin Executable
      BY <3>3, <3>4, <3>5 DEF Alike
    <3>8. ops[j].gate = "FULL"
      BY <2>1, <3>6, <3>7
    <3>9. QED
      BY <3>5, <3>8 DEF Alike
  <2>5. L \in 1 .. MaxGates + 1
    <3>1. 1 \in 1 .. L
      BY <1>1
    <3>2. PICK j \in 1 .. N - (L - 1) : Alike(ops[j], src[1])
      BY <2>2, <3>1
    <3>3. L <= N
      BY <1>1, <1>3, <3>2
    <3>4. QED
      BY <1>1, <1>3, <2>1, <3>3, BudgetAssumption
  <2>6. DOMAIN src = 1 .. L
    BY <1>1
  <2>7. ASSUME NEW i \in 1 .. L
        PROVE  IF i = L THEN src[i].gate = "FULL" ELSE src[i].gate \in Executable /\ ~src[i].when
    <3>1. i # L => i \in 1 .. L - 1
      BY <1>1
    <3>2. QED
      BY <2>3, <2>4, <3>1
  <2>8. QED
    BY <2>1, <2>5, <2>6, <2>7 DEF InCommonSubset
<1>10. QED
  BY <1>5, <1>6, <1>8, <1>9 DEF again

-----------------------------------------------------------------------------
(* The compiler workflow.                                                  *)

\* What the sources are found to be, what the compiler makes of them, and that again.
Admitted ==
  IF source = Unparsed
  THEN Error(TRUE, "native_parse_error", "UNSUPPORTED") \cup EdgeErrors(submitted, 0)
  ELSE AdmitNative(source) \cup EdgeErrors(submitted, source.width)
Coupled == Edges(submitted, source.width)
Result  == Compile(source, Coupled, native)
Again   == WithOperations(source, Result)

NotTried == Admitted # {} /\ errors = Admitted /\ compilation = None /\ compiled = None

Tried ==
  /\ Admitted = {}
  /\ \/ /\ Result.verdict # "compiled" /\ compilation = None /\ compiled = None
        /\ errors = CompileErrors(source, Coupled, Result)
     \/ /\ Result.verdict = "compiled" /\ compilation = Result /\ compiled = Again
        /\ errors = AdmitNative(Again)

Sent == errors = {} /\ sent = <<Projection(source), Projection(compiled)>>

\* The control point says what has been done.
CompilerStages ==
  /\ source \in Programs \cup {Unparsed} /\ edits \in Nat
  /\ pc = "admit" => errors = {}
  /\ pc \in {"admit", "compile"} => compilation = None /\ compiled = None
  /\ pc = "compile" => errors = Admitted
  /\ pc \notin {"admit", "compile"} => NotTried \/ Tried
  /\ pc = "evaluate" => Sent
  /\ pc \in {"admit", "compile", "assess"} => opinion = None
  /\ pc \in {"admit", "compile", "assess", "evaluate"} => outcome = None
  /\ outcome = "PASS" => opinion = "PASS" /\ Sent

\* A graph has its parts, and is the one that was built until it is edited.
Parts(g) ==
  g = [source |-> g.source, original |-> g.original, edges |-> g.edges, native |-> g.native,
       width |-> g.width, status |-> g.status, result |-> g.result, typed |-> g.typed,
       compiled |-> g.compiled, projection |-> g.projection, outcome |-> g.outcome,
       supported |-> g.supported]

CompilerGraph ==
  /\ pc \in {"built", "validated"} =>
       /\ Parts(graph) /\ graph.source \in Programs \cup {Unparsed}
       /\ edits = 0 => graph = GraphOf
  /\ report # None => pc = "validated" /\ report = Report(graph)

\* The inductive invariant.
CompilerInv == CompilerStages /\ CompilerGraph

-----------------------------------------------------------------------------
LEMMA NoneIsOther ==
  /\ None \notin ProgramRecords /\ None # "PASS" /\ Unparsed \notin Programs
  /\ \A prog \in Programs : WellFormed(prog)
BY CompilerAssumption DEF Statuses

\* The graph that will be built depends on what went before only.
LEMMA GraphStands ==
  ASSUME UNCHANGED <<source, submitted, native, errors, compilation, compiled, outcome>>
  PROVE  GraphOf' = GraphOf
BY DEF GraphOf, TraceStatus, PriorityStatus, Supported, Projection, Prefix

LEMMA StagesStand ==
  ASSUME UNCHANGED <<source, submitted, native, errors, compilation, compiled>>
  PROVE  /\ Admitted' = Admitted /\ Coupled' = Coupled /\ Result' = Result /\ Again' = Again
         /\ NotTried' = NotTried /\ Tried' = Tried
<1>1. source' = source /\ submitted' = submitted /\ native' = native /\ errors' = errors
      /\ compilation' = compilation /\ compiled' = compiled
  OBVIOUS
<1>2. Admitted' = Admitted /\ Coupled' = Coupled
  BY <1>1 DEF Admitted, Coupled
<1>3. Result' = Result
  BY <1>1, <1>2 DEF Result
<1>4. Again' = Again
  BY <1>1, <1>3 DEF Again
<1>5. NotTried' = NotTried
  BY <1>1, <1>2 DEF NotTried
<1>6. Tried' = Tried
  BY <1>1, <1>2, <1>3, <1>4 DEF Tried
<1>7. QED
  BY <1>2, <1>3, <1>4, <1>5, <1>6

LEMMA SentStands ==
  ASSUME UNCHANGED <<source, errors, compiled, sent>>
  PROVE  Sent' = Sent
BY DEF Sent, Projection, Prefix

LEMMA GraphOfParts ==
  /\ Parts(GraphOf) /\ GraphOf.source = source /\ GraphOf.original = source
  /\ GraphOf.edges = submitted /\ GraphOf.native = native
  /\ GraphOf.width = (IF source = Unparsed THEN 0 ELSE source.width)
  /\ GraphOf.status = TraceStatus /\ GraphOf.result = compilation
  /\ GraphOf.typed = (IF compilation = None THEN <<>> ELSE compilation.trace)
  /\ GraphOf.compiled = compiled
  /\ GraphOf.projection = (IF compiled = None \/ errors # {} THEN None ELSE Projection(compiled))
  /\ GraphOf.outcome = outcome /\ GraphOf.supported = Supported(TraceStatus, outcome)
<1> DEFINE a == IF source = Unparsed THEN 0 ELSE source.width
           b == IF compilation = None THEN <<>> ELSE compilation.trace
           c == IF compiled = None \/ errors # {} THEN None ELSE Projection(compiled)
           d == Supported(TraceStatus, outcome)
<1>1. GraphOf = [source |-> source, original |-> source, edges |-> submitted, native |-> native,
                 width |-> a, status |-> TraceStatus, result |-> compilation, typed |-> b,
                 compiled |-> compiled, projection |-> c, outcome |-> outcome, supported |-> d]
  BY DEF GraphOf
<1> HIDE DEF a, b, c, d
<1>2. QED
  BY <1>1 DEF Parts, a, b, c, d

LEMMA NeverPass ==
  PriorityStatus # "PASS" /\ PriorityStatus \in {"BLOCKED", "UNSUPPORTED", "NOT_ASSESSED"}
BY DEF PriorityStatus

LEMMA CompilerInit == Init => CompilerInv
<1> SUFFICES ASSUME Init PROVE CompilerInv
  OBVIOUS
<1>1. CompilerStages
  BY NoneIsOther DEF Init, Check!Init, CompilerStages
<1>2. CompilerGraph
  BY DEF Init, CompilerGraph
<1>3. QED
  BY <1>1, <1>2 DEF CompilerInv

\* Before there is a graph, nothing is said of one.
LEMMA NoGraphYet ==
  ASSUME CompilerInv, pc \notin {"built", "validated"}, pc' \notin {"built", "validated"}, report' = report
  PROVE  CompilerGraph'
BY DEF CompilerInv, CompilerGraph

LEMMA CompilerAdmits ==
  ASSUME CompilerInv, Admit
  PROVE  CompilerInv'
<1>1. /\ pc = "admit" /\ pc' = "compile" /\ errors' = Admitted
      /\ UNCHANGED <<source, submitted, native, compilation, compiled, sent, opinion, outcome, graph, edits, report>>
  BY DEF Admit, Go, inputs, Admitted
<1>2. Admitted' = Admitted
  BY <1>1 DEF Admitted
<1>3. CompilerStages'
  BY <1>1, <1>2, NoneIsOther DEF CompilerInv, CompilerStages
<1>4. CompilerGraph'
  BY <1>1, NoGraphYet
<1>5. QED
  BY <1>3, <1>4 DEF CompilerInv

\* What the compiler finds wrong with a program.
LEMMA CompileErrorFacts ==
  ASSUME NEW prog, WellFormed(prog), NEW couplings, UNION couplings \subseteq Slots(prog.width), NEW gates,
         NEW result, result = Compile(prog, couplings, gates)
  PROVE  /\ CompileErrors(prog, couplings, result) = {} <=> result.verdict = "compiled"
         /\ \A e \in CompileErrors(prog, couplings, result) : e.code # "compiler_failure"
<1>1. result \in Results /\ (result.verdict = "compiled" => TypedTraceAgrees(prog, couplings, result))
  BY CompileResult
<1>2. result.verdict \in Verdicts
  BY <1>1, ResultFields
<1> DEFINE v == result.verdict
           E1 == Error(v = "disconnected", "disconnected_topology", "BLOCKED")
           E2 == Error(v = "missing_swap", "missing_swap_support", "UNSUPPORTED")
           E3 == Error(v \in {"unsupported_gate", "unknown_gate"}, "unsupported_native_gate", "UNSUPPORTED")
           E4 == Error(v = "compiled" /\ ~TypedTraceAgrees(prog, couplings, result), "compiler_failure", "NOT_ASSESSED")
<1>3. CompileErrors(prog, couplings, result) = E1 \cup E2 \cup E3 \cup E4
  BY Zenon DEF CompileErrors
<1>4. E4 = {}
  BY <1>1 DEF Error
<1>5. E1 = {} <=> v # "disconnected"
  BY DEF Error
<1>6. E2 = {} <=> v # "missing_swap"
  BY DEF Error
<1>7. E3 = {} <=> v \notin {"unsupported_gate", "unknown_gate"}
  BY DEF Error
<1>8. \A e \in E1 \cup E2 \cup E3 : e.code # "compiler_failure"
  BY DEF Error
<1> HIDE DEF E1, E2, E3, E4
<1>9. CompileErrors(prog, couplings, result) = {} <=> E1 = {} /\ E2 = {} /\ E3 = {}
  BY <1>3, <1>4
<1>10. CompileErrors(prog, couplings, result) = {} <=> v = "compiled"
  BY <1>2, <1>5, <1>6, <1>7, <1>9 DEF Verdicts
<1>11. QED
  BY <1>3, <1>4, <1>8, <1>10

\* An admitted source is a program.
LEMMA AdmittedSource ==
  ASSUME CompilerInv, Admitted = {}
  PROVE  /\ source # Unparsed /\ source \in Programs /\ WellFormed(source)
         /\ UNION Coupled \subseteq Slots(source.width)
         /\ AdmitNative(source) = {} /\ EdgeErrors(submitted, source.width) = {}
<1>1. Error(TRUE, "native_parse_error", "UNSUPPORTED") # {}
  BY DEF Error
<1>2. source # Unparsed
  BY <1>1 DEF Admitted
<1>3. source \in Programs /\ WellFormed(source)
  BY <1>2, NoneIsOther DEF CompilerInv, CompilerStages
<1>4. QED
  BY <1>2, <1>3, EdgesOnRegister DEF Admitted, Coupled

LEMMA CompilerCompiles ==
  ASSUME CompilerInv, CompileSource
  PROVE  CompilerInv'
<1>1. /\ pc = "compile" /\ pc' = "assess" /\ errors = {}
      /\ UNCHANGED <<source, submitted, native, sent, opinion, outcome, graph, edits, report>>
  BY DEF CompileSource, Go, inputs
<1> DEFINE wrong == CompileErrors(source, Coupled, Result)
<1>2. /\ compilation' = IF Result.verdict = "compiled" THEN Result ELSE None
      /\ compiled' = IF wrong = {} THEN Again ELSE None
      /\ errors' = IF wrong = {} THEN AdmitNative(Again) ELSE wrong
  BY DEF CompileSource, Coupled, Result, Again
<1>3. Admitted = {}
  BY <1>1 DEF CompilerInv, CompilerStages
<1>4. WellFormed(source) /\ UNION Coupled \subseteq Slots(source.width)
  BY <1>3, AdmittedSource
<1>5. wrong = {} <=> Result.verdict = "compiled"
  BY <1>4, CompileErrorFacts DEF Result
<1>6. Admitted' = Admitted /\ Coupled' = Coupled /\ Result' = Result /\ Again' = Again
  <2>1. Admitted' = Admitted /\ Coupled' = Coupled
    BY <1>1 DEF Admitted, Coupled
  <2>2. Result' = Result
    BY <1>1, <2>1 DEF Result
  <2>3. QED
    BY <1>1, <2>1, <2>2 DEF Again
<1>7. Tried'
  <2> SUFFICES /\ Admitted = {}
               /\ \/ /\ Result.verdict # "compiled" /\ compilation' = None /\ compiled' = None
                     /\ errors' = wrong
                  \/ /\ Result.verdict = "compiled" /\ compilation' = Result /\ compiled' = Again
                     /\ errors' = AdmitNative(Again)
    BY <1>1, <1>6 DEF Tried
  <2> HIDE DEF wrong
  <2>1. QED
    BY <1>2, <1>3, <1>5
<1>8. CompilerStages'
  BY <1>1, <1>7, NoneIsOther DEF CompilerInv, CompilerStages
<1>9. CompilerGraph'
  BY <1>1, NoGraphYet
<1>10. QED
  BY <1>8, <1>9 DEF CompilerInv

\* The steps that touch neither what was admitted nor what was compiled.
LEMMA CompilerAssesses ==
  ASSUME CompilerInv,
         NothingToCompile \/ AssessErrors \/ SendProjections \/ WorkerAnswers \/ Evaluate \/ EvaluateRaises
  PROVE  CompilerInv'
<1>1. UNCHANGED <<source, submitted, native, errors, compilation, compiled, graph, edits, report>>
  BY DEF NothingToCompile, AssessErrors, SendProjections, WorkerAnswers, Evaluate, EvaluateRaises, Go, inputs
<1>2. /\ Admitted' = Admitted /\ NotTried' = NotTried /\ Tried' = Tried
  BY <1>1, StagesStand
<1>3. CASE NothingToCompile
  <2>1. pc = "compile" /\ errors # {} /\ pc' = "assess" /\ UNCHANGED <<sent, opinion, outcome>>
    BY <1>3 DEF NothingToCompile, Go
  <2>2. NotTried
    BY <2>1 DEF CompilerInv, CompilerStages, NotTried
  <2>3. CompilerStages'
    BY <1>1, <1>2, <2>1, <2>2, NoneIsOther DEF CompilerInv, CompilerStages
  <2>4. QED
    BY <1>1, <2>1, <2>3, NoGraphYet DEF CompilerInv
<1>4. CASE AssessErrors
  <2>1. pc = "assess" /\ outcome' = PriorityStatus /\ pc' = "build" /\ UNCHANGED <<sent, opinion>>
    BY <1>4 DEF AssessErrors, Go
  <2>2. CompilerStages'
    BY <1>1, <1>2, <2>1, NeverPass DEF CompilerInv, CompilerStages
  <2>3. QED
    BY <1>1, <2>1, <2>2, NoGraphYet DEF CompilerInv
<1>5. CASE SendProjections
  <2>1. /\ pc = "assess" /\ errors = {} /\ sent' = <<Projection(source), Projection(compiled)>>
        /\ pc' = "evaluate" /\ UNCHANGED <<opinion, outcome>>
    BY <1>5 DEF SendProjections, Go
  <2>2. Sent'
    BY <1>1, <2>1 DEF Sent, Projection, Prefix
  <2>3. CompilerStages'
    BY <1>1, <1>2, <2>1, <2>2, NoneIsOther DEF CompilerInv, CompilerStages
  <2>4. QED
    BY <1>1, <2>1, <2>3, NoGraphYet DEF CompilerInv
<1>6. CASE WorkerAnswers
  <2>1. pc = "evaluate" /\ pc' = pc /\ UNCHANGED <<sent, outcome>>
    BY <1>6 DEF WorkerAnswers, Check!FormOpinion
  <2>2. Sent' = Sent
    BY <1>1, <2>1, SentStands
  <2>3. CompilerStages'
    BY <1>1, <1>2, <2>1, <2>2, NoneIsOther DEF CompilerInv, CompilerStages
  <2>4. QED
    BY <1>1, <2>1, <2>3, NoGraphYet DEF CompilerInv
<1>7. CASE Evaluate
  <2>1. /\ pc = "evaluate" /\ pc' = "build" /\ UNCHANGED <<sent, opinion>>
        /\ outcome' \in {"BLOCKED", "UNSUPPORTED", "NOT_ASSESSED"} \cup ({opinion} \ {None})
    BY <1>7 DEF Evaluate, Check!Conclude, Fallbacks, Go
  <2>2. Sent' = Sent
    BY <1>1, <2>1, SentStands
  <2>3. outcome' = "PASS" => opinion' = "PASS" /\ Sent'
    BY <2>1, <2>2 DEF CompilerInv, CompilerStages
  <2>4. CompilerStages'
    BY <1>1, <1>2, <2>1, <2>3 DEF CompilerInv, CompilerStages
  <2>5. QED
    BY <1>1, <2>1, <2>4, NoGraphYet DEF CompilerInv
<1>8. CASE EvaluateRaises
  <2>1. pc = "evaluate" /\ pc' = "raised" /\ UNCHANGED <<sent, opinion, outcome>>
    BY <1>8 DEF EvaluateRaises, Go
  <2>2. CompilerStages'
    BY <1>1, <1>2, <2>1, NoneIsOther DEF CompilerInv, CompilerStages
  <2>3. QED
    BY <1>1, <2>1, <2>2, NoGraphYet DEF CompilerInv
<1>9. QED
  BY <1>3, <1>4, <1>5, <1>6, <1>7, <1>8

LEMMA CompilerBuilds ==
  ASSUME CompilerInv, BuildGraph
  PROVE  CompilerInv'
<1>1. /\ pc = "build" /\ graph' = GraphOf /\ pc' \in {"raised", "built"}
      /\ UNCHANGED <<source, submitted, native, errors, compilation, compiled, sent, opinion, outcome, edits, report>>
  BY DEF BuildGraph, Go, inputs
<1>2. Admitted' = Admitted /\ NotTried' = NotTried /\ Tried' = Tried /\ Sent' = Sent /\ GraphOf' = GraphOf
  BY <1>1, StagesStand, SentStands, GraphStands
<1>3. CompilerStages'
  BY <1>1, <1>2 DEF CompilerInv, CompilerStages
<1>4. CompilerGraph'
  <2>1. Parts(GraphOf) /\ GraphOf.source = source /\ source \in Programs \cup {Unparsed}
    BY GraphOfParts DEF CompilerInv, CompilerStages
  <2>2. Parts(graph') /\ graph'.source \in Programs \cup {Unparsed} /\ graph' = GraphOf'
    BY <1>1, <1>2, <2>1
  <2>3. report' = None
    BY <1>1 DEF CompilerInv, CompilerGraph
  <2>4. QED
    BY <2>2, <2>3, Zenon DEF CompilerGraph, Parts
<1>5. QED
  BY <1>3, <1>4 DEF CompilerInv

\* What an edit of one part makes of a graph.
WithSource(g, p) == [g EXCEPT !.source = p, !.original = p, !.width = p.width]
WithPart(g, v) ==
  {[g EXCEPT !.original = v], [g EXCEPT !.compiled = v], [g EXCEPT !.projection = v],
   [g EXCEPT !.edges = v], [g EXCEPT !.native = v], [g EXCEPT !.status = v],
   [g EXCEPT !.outcome = v], [g EXCEPT !.supported = v], [g EXCEPT !.typed = v]}

LEMMA SourceEdited ==
  ASSUME NEW g, Parts(g), NEW p
  PROVE  Parts(WithSource(g, p)) /\ WithSource(g, p).source = p
<1> DEFINE w == p.width
           g1 == [g EXCEPT !.source = p]
           g2 == [g1 EXCEPT !.original = p]
           h == [g2 EXCEPT !.width = w]
<1> HIDE DEF w
<1>1. Parts(g1) /\ g1.source = p
  BY DEF Parts
<1> HIDE DEF g1
<1>2. Parts(g2) /\ g2.source = p
  BY <1>1 DEF Parts
<1> HIDE DEF g2
<1>3. Parts(h) /\ h.source = p
  BY <1>2 DEF Parts
<1>4. WithSource(g, p) = h
  BY Zenon DEF WithSource, h, g2, g1, w
<1> HIDE DEF h
<1>5. QED
  BY <1>3, <1>4

LEMMA PartEdited ==
  ASSUME NEW g, Parts(g), NEW v, NEW h \in WithPart(g, v)
  PROVE  Parts(h) /\ h.source = g.source
<1>1. CASE h = [g EXCEPT !.original = v]
  BY <1>1 DEF Parts
<1>2. CASE h = [g EXCEPT !.compiled = v]
  BY <1>2 DEF Parts
<1>3. CASE h = [g EXCEPT !.projection = v]
  BY <1>3 DEF Parts
<1>4. CASE h = [g EXCEPT !.edges = v]
  BY <1>4 DEF Parts
<1>5. CASE h = [g EXCEPT !.native = v]
  BY <1>5 DEF Parts
<1>6. CASE h = [g EXCEPT !.status = v]
  BY <1>6 DEF Parts
<1>7. CASE h = [g EXCEPT !.outcome = v]
  BY <1>7 DEF Parts
<1>8. CASE h = [g EXCEPT !.supported = v]
  BY <1>8 DEF Parts
<1>9. CASE h = [g EXCEPT !.typed = v]
  BY <1>9 DEF Parts
<1>10. QED
  BY <1>1, <1>2, <1>3, <1>4, <1>5, <1>6, <1>7, <1>8, <1>9, Zenon DEF WithPart

LEMMA CompilerEdits ==
  ASSUME CompilerInv, Edit
  PROVE  CompilerInv'
<1>1. /\ pc = "built" /\ edits' = edits + 1 /\ pc' = pc
      /\ UNCHANGED <<source, submitted, native, errors, compilation, compiled, sent, opinion, outcome, report>>
  BY DEF Edit, inputs
<1>2. Admitted' = Admitted /\ NotTried' = NotTried /\ Tried' = Tried /\ Sent' = Sent
  BY <1>1, StagesStand, SentStands
<1>3. edits' \in Nat /\ edits' # 0
  BY <1>1 DEF CompilerInv, CompilerStages
<1>4. CompilerStages'
  BY <1>1, <1>2, <1>3 DEF CompilerInv, CompilerStages
<1>5. Parts(graph) /\ graph.source \in Programs \cup {Unparsed} /\ report = None
  BY <1>1 DEF CompilerInv, CompilerGraph
<1>6. Parts(graph') /\ graph'.source \in Programs \cup {Unparsed}
  <2> DEFINE Ours(h) == Parts(h) /\ h.source \in Programs \cup {Unparsed}
             W(p) == WithSource(graph, p)
             E(v) == WithPart(graph, v)
  <2>1. ASSUME NEW p \in Programs PROVE Ours(W(p))
    BY <1>5, SourceEdited
  <2>2. ASSUME NEW v, NEW h \in E(v) PROVE Ours(h)
    BY <1>5, <2>2, PartEdited
  <2>3. (\E p \in Programs : graph' = W(p)) \/ (\E v : graph' \in E(v))
    <3>1. \/ \E p \in Programs :
               graph' \in {[graph EXCEPT !.source = p, !.original = p, !.width = p.width],
                           [graph EXCEPT !.original = p], [graph EXCEPT !.compiled = p],
                           [graph EXCEPT !.projection = Projection(p)]}
          \/ \E s \in Submissions : graph' = [graph EXCEPT !.edges = s]
          \/ \E n \in NativeSets  : graph' = [graph EXCEPT !.native = n]
          \/ \E s \in {"PASS", "BLOCKED"} : graph' = [graph EXCEPT !.status = s]
          \/ \E s \in {"PASS", "FAIL"}    : graph' = [graph EXCEPT !.outcome = s]
          \/ graph' = [graph EXCEPT !.supported = ~@]
          \/ graph' = [graph EXCEPT !.typed = Tail(@)]
      BY DEF Edit
    <3> USE DEF WithSource, WithPart
    <3>2. CASE \E p \in Programs : graph' \in {W(p), [graph EXCEPT !.original = p], [graph EXCEPT !.compiled = p],
                                               [graph EXCEPT !.projection = Projection(p)]}
      <4>1. PICK p \in Programs : graph' \in {W(p), [graph EXCEPT !.original = p], [graph EXCEPT !.compiled = p],
                                              [graph EXCEPT !.projection = Projection(p)]}
        BY <3>2
      <4>2. CASE graph' = W(p)
        BY <4>2
      <4>3. CASE graph' \in {[graph EXCEPT !.original = p], [graph EXCEPT !.compiled = p]}
        <5>1. graph' \in E(p)
          BY <4>3
        <5>2. QED
          BY <5>1
      <4>4. CASE graph' = [graph EXCEPT !.projection = Projection(p)]
        <5>1. graph' \in E(Projection(p))
          BY <4>4
        <5>2. QED
          BY <5>1
      <4>5. QED
        BY <4>1, <4>2, <4>3, <4>4
    <3>3. CASE \E s : graph' = [graph EXCEPT !.edges = s]
      BY <3>3
    <3>4. CASE \E s : graph' = [graph EXCEPT !.native = s]
      BY <3>4
    <3>5. CASE \E s : graph' = [graph EXCEPT !.status = s]
      BY <3>5
    <3>6. CASE \E s : graph' = [graph EXCEPT !.outcome = s]
      BY <3>6
    <3>7. CASE graph' = [graph EXCEPT !.supported = ~@]
      <4> DEFINE v == ~graph.supported
      <4>1. graph' = [graph EXCEPT !.supported = v]
        BY <3>7
      <4>2. graph' \in E(v)
        BY <4>1
      <4>3. QED
        BY <4>2
    <3>8. CASE graph' = [graph EXCEPT !.typed = Tail(@)]
      <4> DEFINE v == Tail(graph.typed)
      <4>1. graph' = [graph EXCEPT !.typed = v]
        BY <3>8
      <4> HIDE DEF v
      <4>2. graph' \in E(v)
        BY <4>1
      <4>3. QED
        BY <4>2
    <3>9. QED
      BY <3>1, <3>2, <3>3, <3>4, <3>5, <3>6, <3>7, <3>8
  <2> HIDE DEF Ours, E, W
  <2>4. Ours(graph')
    BY <2>1, <2>2, <2>3
  <2>5. QED
    BY <2>4 DEF Ours
<1>7. CompilerGraph'
  BY <1>1, <1>3, <1>5, <1>6, Zenon DEF CompilerGraph, Parts
<1>8. QED
  BY <1>4, <1>7 DEF CompilerInv

LEMMA CompilerValidates ==
  ASSUME CompilerInv, Validate
  PROVE  CompilerInv'
<1>1. /\ pc = "built" /\ pc' = "validated" /\ report' = Report(graph)
      /\ UNCHANGED <<source, submitted, native, errors, compilation, compiled, sent, opinion, outcome, graph, edits>>
  BY DEF Validate, Go, inputs
<1>2. Admitted' = Admitted /\ NotTried' = NotTried /\ Tried' = Tried /\ Sent' = Sent /\ GraphOf' = GraphOf
  BY <1>1, StagesStand, SentStands, GraphStands
<1>3. CompilerStages'
  BY <1>1, <1>2 DEF CompilerInv, CompilerStages
<1>4. /\ Parts(graph) /\ graph.source \in Programs \cup {Unparsed}
      /\ edits = 0 => graph = GraphOf
  BY <1>1 DEF CompilerInv, CompilerGraph
<1>5. CompilerGraph'
  <2>1. /\ Parts(graph)' = Parts(graph) /\ Report(graph)' = Report(graph)
    BY <1>1 DEF Parts, Report, Recompiles, Assessed, Inconsistent
  <2>2. QED
    BY <1>1, <1>2, <1>4, <2>1 DEF CompilerGraph
<1>6. QED
  BY <1>3, <1>5 DEF CompilerInv

LEMMA CompilerRests ==
  ASSUME CompilerInv, UNCHANGED vars
  PROVE  CompilerInv'
<1>1. UNCHANGED <<source, submitted, native, errors, compilation, compiled, sent, opinion, outcome, graph, edits, report, pc>>
  BY DEF vars, inputs
<1>2. Admitted' = Admitted /\ NotTried' = NotTried /\ Tried' = Tried /\ Sent' = Sent /\ GraphOf' = GraphOf
  BY <1>1, StagesStand, SentStands, GraphStands
<1>3. CompilerStages'
  BY <1>1, <1>2 DEF CompilerInv, CompilerStages
<1>4. Parts(graph)' = Parts(graph) /\ Report(graph)' = Report(graph)
  BY <1>1 DEF Parts, Report, Recompiles, Assessed, Inconsistent
<1>5. CompilerGraph'
  BY <1>1, <1>2, <1>4 DEF CompilerInv, CompilerGraph
<1>6. QED
  BY <1>3, <1>5 DEF CompilerInv

LEMMA CompilerSteps == CompilerInv /\ [Next]_vars => CompilerInv'
<1> SUFFICES ASSUME CompilerInv, [Next]_vars PROVE CompilerInv'
  OBVIOUS
<1>1. QED
  BY CompilerAdmits, CompilerCompiles, CompilerAssesses, CompilerBuilds, CompilerEdits, CompilerValidates,
     CompilerRests DEF Next, Over

LEMMA CompilerHolds == Spec => []CompilerInv
BY CompilerInit, CompilerSteps, PTL DEF Spec

\* A graph that is built and passes has been earned.
THEOREM CompilerClaimIsEarned == Spec => []ClaimIsEarned
<1>1. CompilerInv => ClaimIsEarned
  <2> SUFFICES ASSUME CompilerInv, pc = "built", edits = 0, graph.supported
               PROVE  /\ opinion = "PASS" /\ outcome = "PASS"
                      /\ sent = <<Projection(graph.source), Projection(graph.compiled)>>
                      /\ InCommonSubset(graph.source) /\ InCommonSubset(graph.compiled)
                      /\ SameProgram(graph.source, graph.compiled)
    BY DEF ClaimIsEarned
  <2>1. graph = GraphOf
    BY DEF CompilerInv, CompilerGraph
  <2>2. graph.source = source /\ graph.compiled = compiled /\ Supported(TraceStatus, outcome)
    BY <2>1, GraphOfParts
  <2>3. TraceStatus = "PASS" /\ outcome = "PASS"
    BY <2>2 DEF Supported
  <2>4. compilation # None /\ errors = {}
    BY <2>3, NeverPass DEF TraceStatus
  <2>5. opinion = "PASS" /\ sent = <<Projection(source), Projection(compiled)>>
    BY <2>3 DEF CompilerInv, CompilerStages, Sent
  <2>6. Tried
    BY <2>4 DEF CompilerInv, CompilerStages, NotTried
  <2>7. /\ Admitted = {} /\ Result.verdict = "compiled" /\ compiled = Again /\ AdmitNative(Again) = {}
    BY <2>4, <2>6 DEF Tried
  <2>8. source \in Programs /\ WellFormed(source) /\ UNION Coupled \subseteq Slots(source.width) /\ AdmitNative(source) = {}
    BY <2>7, AdmittedSource
  <2>9. InCommonSubset(source)
    BY <2>8, SourceFacts, AdmittedIsCommon
  <2>10. Again \in ProgramRecords /\ SameProgram(source, Again)
    BY <2>7, <2>8, CompiledCommon DEF Result, Again
  <2>11. InCommonSubset(Again)
    BY <2>7, <2>10, AdmittedIsCommon
  <2>12. QED
    BY <2>2, <2>3, <2>5, <2>7, <2>9, <2>10, <2>11
<1>2. QED
  BY <1>1, CompilerHolds, PTL

LEMMA OnFewerCouplings ==
  ASSUME NEW op, NEW couplings, NEW more, couplings \subseteq more, NEW gates, OnDevice(op, couplings, gates)
  PROVE  OnDevice(op, more, gates)
BY DEF OnDevice

\* Whatever was edited, a claim that validates is about a program and its compilation.
THEOREM CompilerClaimsStand == Spec => []ValidatedStillCompiles
<1>1. CompilerInv => ValidatedStillCompiles
  <2> SUFFICES ASSUME CompilerInv, report # None, report.status = "PASS", graph.supported
               PROVE  /\ graph.outcome = "PASS"
                      /\ InCommonSubset(graph.source) /\ SameProgram(graph.source, graph.compiled)
                      /\ graph.projection = Projection(graph.compiled)
                      /\ \A i \in DOMAIN graph.compiled.operations :
                           OnDevice(graph.compiled.operations[i], {ToSet(e) : e \in ToSet(graph.edges)}, graph.native)
    BY DEF ValidatedStillCompiles
  <2> DEFINE src == graph.source
             couplings == Edges(graph.edges, src.width)
             result == Compile(src, couplings, graph.native)
             again == WithOperations(src, result)
  <2>1. report = Report(graph) /\ pc = "validated"
    BY DEF CompilerInv, CompilerGraph
  <2>2. Inconsistent.status # "PASS"
    BY DEF Inconsistent
  <2>3. Assessed(graph).status = graph.outcome
    BY DEF Assessed
  <2>4. src # Unparsed /\ Recompiles(graph) /\ graph.outcome = "PASS"
    <3> HIDE DEF src
    <3>1. report # Inconsistent
      BY <2>2
    <3>2. graph.source # Unparsed /\ Recompiles(graph) /\ report = Assessed(graph)
      BY <2>1, <3>1 DEF Report
    <3>3. QED
      BY <2>3, <3>2 DEF src
  <2>5. src \in Programs /\ WellFormed(src)
    <3>1. src \in Programs \cup {Unparsed}
      BY <2>1 DEF CompilerInv, CompilerGraph
    <3>2. QED
      BY <2>4, <3>1, NoneIsOther
  <2>6. /\ result.verdict = "compiled" /\ graph.compiled = again /\ AdmitNative(again) = {}
        /\ graph.projection = Projection(again)
    BY <2>4 DEF Recompiles
  <2>7. /\ UNION couplings \subseteq Slots(src.width)
        /\ couplings \subseteq {ToSet(e) : e \in ToSet(graph.edges)}
    BY EdgesOnRegister
  <2> HIDE DEF src, couplings, result, again
  <2>8. /\ again \in ProgramRecords /\ SameProgram(src, again) /\ again.operations = result.operations
        /\ InCommonSubset(again) => InCommonSubset(src)
    BY <2>5, <2>6, <2>7, CompiledCommon DEF result, again
  <2>9. InCommonSubset(src)
    BY <2>6, <2>8, AdmittedIsCommon
  <2>10. \A i \in 1 .. Len(result.operations) : OnDevice(result.operations[i], couplings, graph.native)
    <3>1. result = Compile(src, couplings, graph.native) /\ result.verdict = "compiled"
      BY <2>6 DEF result
    <3>2. QED
      BY <2>5, <2>7, <3>1, CompileResult
  <2>11. DOMAIN again.operations = 1 .. Len(result.operations)
    <3>1. result \in Results
      BY <2>5, <2>7, CompileResult DEF result
    <3>2. result.operations \in Seq(Operations)
      BY <3>1, ResultFields
    <3>3. QED
      BY <2>8, <3>2
  <2>12. ASSUME NEW i \in DOMAIN again.operations
         PROVE  OnDevice(again.operations[i], {ToSet(e) : e \in ToSet(graph.edges)}, graph.native)
    <3>1. OnDevice(again.operations[i], couplings, graph.native)
      BY <2>8, <2>10, <2>11
    <3>2. QED
      BY <2>7, <3>1, OnFewerCouplings
  <2>13. QED
    BY <2>4, <2>6, <2>8, <2>9, <2>12 DEF src
<1>2. QED
  BY <1>1, CompilerHolds, PTL

\* Only the compiler's own trace is found to contradict a compilation.
LEMMA OtherCodes ==
  ASSUME NEW prog, NEW edgeList, NEW width
  PROVE  /\ \A e \in AdmitNative(prog) : e.code # "compiler_failure"
         /\ \A e \in EdgeErrors(edgeList, width) : e.code # "compiler_failure"
         /\ \A e \in Error(TRUE, "native_parse_error", "UNSUPPORTED") : e.code # "compiler_failure"
<1>1. \A c, s : /\ \A e \in Error(c, "noise_or_nonunitary_backend", s) : e.code # "compiler_failure"
                /\ \A e \in Error(c, "qubit_budget", s) : e.code # "compiler_failure"
                /\ \A e \in Error(c, "native_register_widths", s) : e.code # "compiler_failure"
                /\ \A e \in Error(c, "terminal_measurement", s) : e.code # "compiler_failure"
                /\ \A e \in Error(c, "gate_budget", s) : e.code # "compiler_failure"
  BY DEF Error
<1>2. \A op : \A e \in OperationErrors(op) : e.code # "compiler_failure"
  BY DEF Error, OperationErrors
<1>3. \A e \in UNION {OperationErrors(op) : op \in ToSet(Prefix(prog))} : e.code # "compiler_failure"
  BY <1>2
<1>4. \A e \in AdmitNative(prog) : e.code # "compiler_failure"
  BY <1>1, <1>3, Zenon DEF AdmitNative
<1>5. \A e \in EdgeErrors(edgeList, width) : e.code # "compiler_failure"
  <2>1. \A c, s : /\ \A e \in Error(c, "malformed_topology", s) : e.code # "compiler_failure"
                  /\ \A e \in Error(c, "duplicate_topology_edge", s) : e.code # "compiler_failure"
    BY DEF Error
  <2>2. QED
    BY <2>1, Zenon DEF EdgeErrors
<1>6. \A e \in Error(TRUE, "native_parse_error", "UNSUPPORTED") : e.code # "compiler_failure"
  BY DEF Error
<1>7. QED
  BY <1>4, <1>5, <1>6

LEMMA NoCompilerFailure ==
  ASSUME CompilerInv
  PROVE  \A e \in errors : e.code # "compiler_failure"
<1>1. \A e \in Admitted : e.code # "compiler_failure"
  BY OtherCodes DEF Admitted
<1>2. ASSUME Tried PROVE \A e \in errors : e.code # "compiler_failure"
  <2>1. WellFormed(source) /\ UNION Coupled \subseteq Slots(source.width)
    BY <1>2, AdmittedSource DEF Tried
  <2>2. \A e \in CompileErrors(source, Coupled, Result) : e.code # "compiler_failure"
    BY <2>1, CompileErrorFacts DEF Result
  <2>3. \A e \in AdmitNative(Again) : e.code # "compiler_failure"
    BY OtherCodes
  <2>4. QED
    BY <1>2, <2>2, <2>3 DEF Tried
<1>3. errors = {} \/ errors = Admitted \/ Tried
  BY DEF CompilerInv, CompilerStages, NotTried
<1>4. QED
  BY <1>1, <1>2, <1>3

\* The validator, which compiles once more, bears out a graph as it was built.
LEMMA BuiltIsAssessed ==
  ASSUME CompilerInv, report # None, edits = 0
  PROVE  report = IF source = Unparsed THEN Inconsistent ELSE Assessed(graph)
<1>1. pc = "validated" /\ report = Report(graph) /\ graph = GraphOf
  BY DEF CompilerInv, CompilerGraph
<1>2. /\ graph.source = source /\ graph.original = source
      /\ graph.edges = submitted /\ graph.native = native
      /\ graph.width = (IF source = Unparsed THEN 0 ELSE source.width)
      /\ graph.status = TraceStatus /\ graph.result = compilation
      /\ graph.typed = (IF compilation = None THEN <<>> ELSE compilation.trace)
      /\ graph.compiled = compiled
      /\ graph.projection = (IF compiled = None \/ errors # {} THEN None ELSE Projection(compiled))
      /\ graph.outcome = outcome /\ graph.supported = Supported(TraceStatus, outcome)
  BY <1>1, GraphOfParts
<1>3. NotTried \/ Tried
  BY <1>1 DEF CompilerInv, CompilerStages
<1>4. CASE source = Unparsed
  BY <1>1, <1>2, <1>4 DEF Report
<1>5. CASE source # Unparsed
  <2>1. source \in Programs /\ WellFormed(source)
    BY <1>5, NoneIsOther DEF CompilerInv, CompilerStages
  <2>2. Report(graph) = IF EdgeErrors(submitted, source.width) # {} \/ TraceStatus # "PASS"
                        THEN IF graph.supported THEN Inconsistent ELSE Assessed(graph)
                        ELSE IF Recompiles(graph) /\ graph.supported = (outcome = "PASS") THEN Assessed(graph)
                        ELSE Inconsistent
    <3> HIDE DEF Inconsistent, Assessed, Recompiles, EdgeErrors, TraceStatus
    <3>1. QED
      BY <1>2, <1>5 DEF Report
  <2>3. CASE EdgeErrors(submitted, source.width) # {} \/ TraceStatus # "PASS"
    <3>1. ASSUME graph.supported PROVE FALSE
      <4>1. TraceStatus = "PASS"
        BY <1>2, <3>1 DEF Supported
      <4>2. errors = {}
        BY <4>1, NeverPass DEF TraceStatus
      <4>3. Admitted = {}
        BY <1>3, <4>2 DEF NotTried, Tried
      <4>4. EdgeErrors(submitted, source.width) = {}
        BY <4>3, AdmittedSource
      <4>5. QED
        BY <2>3, <4>1, <4>4
    <3>2. QED
      BY <1>1, <1>5, <2>2, <2>3, <3>1
  <2>4. CASE ~(EdgeErrors(submitted, source.width) # {} \/ TraceStatus # "PASS")
    <3>1. TraceStatus = "PASS" /\ compilation # None /\ errors = {}
      BY <2>4, NeverPass DEF TraceStatus
    <3>2. Tried
      BY <1>3, <3>1 DEF NotTried
    <3>3. /\ Admitted = {} /\ Result.verdict = "compiled" /\ compilation = Result /\ compiled = Again
          /\ AdmitNative(Again) = {}
      BY <3>1, <3>2 DEF Tried
    <3>4. UNION Coupled \subseteq Slots(source.width)
      BY <3>3, AdmittedSource
    <3>5. TypedTraceAgrees(source, Coupled, Result)
      BY <2>1, <3>3, <3>4, CompileResult DEF Result
    <3>6. Again \in ProgramRecords
      BY <2>1, <3>3, <3>4, CompiledCommon DEF Result, Again
    <3>7. compiled # None
      BY <3>3, <3>6, NoneIsOther
    <3>8. /\ graph.result = Result /\ graph.typed = Result.trace /\ graph.compiled = Again
          /\ graph.projection = Projection(Again)
      BY <1>2, <3>1, <3>3, <3>7
    <3>9. Recompiles(graph)
      <4>1. Edges(graph.edges, graph.source.width) = Coupled
        BY <1>2 DEF Coupled
      <4>2. Compile(graph.source, Coupled, graph.native) = Result
        BY <1>2 DEF Result
      <4>3. WithOperations(graph.source, Result) = Again
        BY <1>2 DEF Again
      <4> HIDE DEF Coupled, Result, Again
      <4>4. QED
        BY <1>2, <3>3, <3>5, <3>8, <4>1, <4>2, <4>3 DEF Recompiles
    <3>10. graph.supported = (outcome = "PASS")
      BY <1>2, <3>1, Zenon DEF Supported
    <3>11. QED
      BY <1>1, <1>5, <2>2, <2>4, <3>9, <3>10
  <2>5. QED
    BY <2>3, <2>4
<1>6. QED
  BY <1>4, <1>5

\* Builder and validator agree on every graph as it was built.
THEOREM CompilerGraphsValidate == Spec => []BuiltGraphsValidate
<1>1. CompilerInv => BuiltGraphsValidate
  BY NoCompilerFailure, BuiltIsAssessed DEF BuiltGraphsValidate
<1>2. QED
  BY <1>1, CompilerHolds, PTL

LEMMA CompilerStepsCheck ==
  ASSUME CompilerInv, [Next]_vars
  PROVE  [Check!Next]_<<opinion, outcome>>
<1>1. CASE AssessErrors
  <2>1. outcome = None /\ outcome' = PriorityStatus /\ opinion' = opinion
    BY <1>1 DEF AssessErrors, CompilerInv, CompilerStages
  <2>2. QED
    BY <2>1, NeverPass DEF Check!Next, Check!Conclude, Fallbacks
<1>2. CASE WorkerAnswers \/ Evaluate
  BY <1>2 DEF WorkerAnswers, Evaluate, Check!Next
<1>3. CASE ~(AssessErrors \/ WorkerAnswers \/ Evaluate)
  <2>1. UNCHANGED <<opinion, outcome>>
    BY <1>3 DEF Next, Admit, CompileSource, NothingToCompile, SendProjections, EvaluateRaises, BuildGraph, Edit,
                Validate, Over, vars
  <2>2. QED
    BY <2>1
<1>4. QED
  BY <1>1, <1>2, <1>3

\* However a compilation ends, its check is an isolated one: the workflow gives at
\* most one outcome, and passes only what a worker of its own passed.
THEOREM CompilerChecksOnce == Spec => Check!Spec
<1>1. Init => Check!Init
  BY DEF Init
<1>2. CompilerInv /\ [Next]_vars => [Check!Next]_<<opinion, outcome>>
  BY CompilerStepsCheck
<1>3. QED
  BY <1>1, <1>2, CompilerHolds, PTL DEF Spec, Check!Spec

\* Gates first, measurements after: what the split of a circuit at n is.
Splits(ops, n) ==
  /\ n \in 0 .. Len(ops)
  /\ \A i \in 1 .. n : ops[i].gate \in Executable /\ ~ops[i].when
  /\ \A i \in n + 1 .. Len(ops) : ops[i].gate = "measure"

LEMMA GatesAreNotMeasures == ASSUME NEW op, op.gate \in Executable PROVE op.gate # "measure" /\ op.gate # "barrier" /\ op.gate # "FULL"
BY DEF Executable, TwoQubit

\* The parts of a circuit that splits.
LEMMA SplitParts ==
  ASSUME NEW S, NEW ops \in Seq(S), NEW n, Splits(ops, n)
  PROVE  /\ Measurements(ops) = SubSeq(ops, n + 1, Len(ops))
         /\ Chosen(ops, {i \in DOMAIN ops : ops[i].gate \in Executable /\ ~ops[i].when}) = SubSeq(ops, 1, n)
<1>1. n \in Nat /\ n <= Len(ops) /\ Len(ops) \in Nat /\ DOMAIN ops = 1 .. Len(ops)
  BY DEF Splits
<1>2. \A i \in 1 .. Len(ops) : ops[i].gate = "measure" <=> n < i /\ i <= Len(ops)
  <2>1. ASSUME NEW i \in 1 .. Len(ops), i <= n PROVE ops[i].gate # "measure"
    <3>1. ops[i].gate \in Executable
      BY <1>1, <2>1 DEF Splits
    <3>2. QED
      BY <3>1, GatesAreNotMeasures
  <2>2. ASSUME NEW i \in 1 .. Len(ops), n < i PROVE ops[i].gate = "measure"
    BY <1>1, <2>2 DEF Splits
  <2>3. QED
    BY <1>1, <2>1, <2>2
<1> DEFINE ms == {i \in DOMAIN ops : IsMeasure(ops[i])}
           gs == {i \in DOMAIN ops : ops[i].gate \in Executable /\ ~ops[i].when}
<1>3. \A i \in 1 .. Len(ops) : i \in ms <=> n < i /\ i <= Len(ops)
  BY <1>1, <1>2 DEF IsMeasure
<1>4. \A i \in 1 .. Len(ops) : i \in gs <=> 0 < i /\ i <= n
  <2>1. ASSUME NEW i \in 1 .. Len(ops), i <= n PROVE i \in gs
    <3>1. ops[i].gate \in Executable /\ ~ops[i].when
      BY <1>1, <2>1 DEF Splits
    <3>2. QED
      BY <1>1, <3>1
  <2>2. ASSUME NEW i \in 1 .. Len(ops), n < i PROVE i \notin gs
    <3>1. ops[i].gate = "measure"
      BY <1>1, <1>2, <2>2
    <3>2. ops[i].gate \notin Executable
      BY <3>1, GatesAreNotMeasures
    <3>3. QED
      BY <3>2
  <2>3. QED
    BY <1>1, <2>1, <2>2
<1> HIDE DEF ms, gs
<1>5. Chosen(ops, ms) = SubSeq(ops, n + 1, Len(ops))
  <2> DEFINE N == Len(ops)
  <2>1. N \in Nat /\ n \in Nat /\ n <= N /\ N <= Len(ops) /\ \A i \in 1 .. Len(ops) : i \in ms <=> n < i /\ i <= N
    BY <1>1, <1>3
  <2> HIDE DEF N
  <2>2. Chosen(ops, ms) = SubSeq(ops, n + 1, N)
    BY <2>1, ChosenRange
  <2>3. QED
    BY <2>2 DEF N
<1>6. Chosen(ops, gs) = SubSeq(ops, 1, n)
  <2>1. 0 \in Nat /\ 0 <= n /\ 0 + 1 = 1
    BY <1>1
  <2>2. Chosen(ops, gs) = SubSeq(ops, 0 + 1, n)
    BY <1>1, <1>4, <2>1, ChosenRange
  <2>3. QED
    BY <2>1, <2>2
<1>7. Measurements(ops) = Chosen(ops, ms)
  BY DEF Measurements, ms
<1>8. QED
  BY <1>5, <1>6, <1>7 DEF gs

\* What is taken off a circuit that splits, and what is left.
LEMMA SplitFacts ==
  ASSUME NEW circuit, NEW S, circuit.operations \in Seq(S), NEW n, Splits(circuit.operations, n)
  PROVE  /\ Gates(circuit) = [i \in 1 .. n |-> <<circuit.operations[i].gate, circuit.operations[i].qubits>>]
         /\ Len(Gates(circuit)) = n
         /\ Measured(circuit) =
              [i \in 1 .. Len(circuit.operations) - n |->
                 <<circuit.operations[n + i].qubits[1], circuit.operations[n + i].bit>>]
<1> DEFINE ops == circuit.operations
           N == Len(ops)
           gs == SubSeq(ops, 1, n)
           ms == SubSeq(ops, n + 1, N)
<1>1. n \in Nat /\ n <= N /\ N \in Nat /\ ops \in Seq(S)
  BY DEF Splits
<1>2. Gates(circuit) = [i \in DOMAIN gs |-> <<gs[i].gate, gs[i].qubits>>]
  <2>1. Chosen(ops, {i \in DOMAIN ops : ops[i].gate \in Executable /\ ~ops[i].when}) = gs
    BY <1>1, SplitParts
  <2> HIDE DEF gs, ops
  <2>2. QED
    BY <2>1, Zenon DEF Gates, ops
<1>3. Measured(circuit) = [i \in DOMAIN ms |-> <<ms[i].qubits[1], ms[i].bit>>]
  <2>1. Measurements(ops) = ms
    BY <1>1, SplitParts
  <2> HIDE DEF ms, ops
  <2>2. QED
    BY <2>1, Zenon DEF Measured, ops
<1>4. DOMAIN gs = 1 .. n /\ \A i \in 1 .. n : gs[i] = ops[i]
  BY <1>1
<1>5. DOMAIN ms = 1 .. N - n /\ \A i \in 1 .. N - n : ms[i] = ops[n + i]
  BY <1>1
<1> HIDE DEF gs, ms
<1>6. Gates(circuit) = [i \in 1 .. n |-> <<ops[i].gate, ops[i].qubits>>]
  BY <1>2, <1>4
<1>7. Len(Gates(circuit)) = n
  BY <1>1, <1>6
<1>8. Measured(circuit) = [i \in 1 .. N - n |-> <<ops[n + i].qubits[1], ops[n + i].bit>>]
  BY <1>3, <1>5
<1>9. QED
  BY <1>6, <1>7, <1>8

\* The measurements are the identity's when each is of its qubit, into its bit.
LEMMA MeasuredInOrder ==
  ASSUME NEW circuit, WellFormedExternal(circuit), NEW n, Splits(circuit.operations, n)
  PROVE  Measured(circuit) = Identity(circuit.width) <=>
           /\ n = Len(circuit.operations) - circuit.width
           /\ \A i \in 1 .. circuit.width :
                circuit.operations[n + i].qubits = <<i - 1>> /\ circuit.operations[n + i].bit = i - 1
<1> DEFINE ops == circuit.operations
           N == Len(ops)
           w == circuit.width
           q(i) == ops[n + i].qubits[1]
           b(i) == ops[n + i].bit
<1>1. ops \in Seq(ExternalOperations) /\ w \in Nat \ {0} /\ N \in Nat /\ n \in Nat /\ n <= N
  BY DEF WellFormedExternal, Splits
<1>2. Measured(circuit) = [i \in 1 .. N - n |-> <<q(i), b(i)>>]
  BY <1>1, SplitFacts
<1>3. Identity(w) = [i \in 1 .. w |-> <<i - 1, i - 1>>]
  BY DEF Identity
<1>4. ASSUME NEW i \in 1 .. N - n PROVE ops[n + i].qubits = <<i - 1>> <=> q(i) = i - 1
  <2>1. n + i \in DOMAIN ops /\ n + i \in n + 1 .. N
    BY <1>1
  <2>2. ops[n + i].gate = "measure"
    BY <2>1 DEF Splits
  <2>3. Len(ops[n + i].qubits) = 1
    BY <2>1, <2>2 DEF WellFormedExternal
  <2>4. ops[n + i] \in ExternalOperations
    BY <1>1, <2>1, ElementOfSeq
  <2>5. ops[n + i].qubits \in Seq(Nat)
    BY <2>4 DEF ExternalOperations
  <2> DEFINE u == ops[n + i].qubits
  <2> HIDE DEF ops
  <2>6. u = <<i - 1>> <=> u[1] = i - 1
    <3> HIDE DEF u
    <3>1. u \in Seq(Nat) /\ Len(u) = 1
      BY <2>3, <2>5 DEF u, ops
    <3>2. u = <<u[1]>>
      BY <3>1
    <3>3. QED
      BY <3>2
  <2>7. QED
    BY <2>6
<1>5. ASSUME NEW i \in 1 .. w, n = N - w PROVE i \in 1 .. N - n
  BY <1>1, <1>5
<1> HIDE DEF q, b, ops, N, w
<1>6. [i \in 1 .. N - n |-> <<q(i), b(i)>>] = [i \in 1 .. w |-> <<i - 1, i - 1>>]
        <=> n = N - w /\ \A i \in 1 .. w : q(i) = i - 1 /\ b(i) = i - 1
  <2> DEFINE f == [i \in 1 .. N - n |-> <<q(i), b(i)>>]
             g == [i \in 1 .. w |-> <<i - 1, i - 1>>]
  <2>1. DOMAIN f = 1 .. N - n /\ DOMAIN g = 1 .. w /\ N - n \in Nat
    BY <1>1
  <2>2. ASSUME f = g PROVE n = N - w
    <3>1. 1 .. N - n = 1 .. w
      BY <2>1, <2>2, Zenon
    <3>2. QED
      BY <1>1, <3>1
  <2>3. ASSUME n = N - w PROVE f = g <=> \A i \in 1 .. w : q(i) = i - 1 /\ b(i) = i - 1
    <3>1. N - n = w
      BY <1>1, <2>3
    <3>2. f = [i \in 1 .. w |-> <<q(i), b(i)>>]
      BY <3>1
    <3>3. QED
      BY <3>2
  <2>4. QED
    BY <2>2, <2>3
<1>7. (\A i \in 1 .. w : q(i) = i - 1 /\ b(i) = i - 1) /\ n = N - w
        <=> n = N - w /\ \A i \in 1 .. w : ops[n + i].qubits = <<i - 1>> /\ ops[n + i].bit = i - 1
  BY <1>4, <1>5 DEF b
<1>8. QED
  BY <1>2, <1>3, <1>6, <1>7 DEF ops, N, w

LEMMA NothingWrongWith ==
  ASSUME NEW ops, NEW i
  PROVE  GateErrors(ops, i) = {} <=>
           /\ \A k \in 1 .. i - 1 : ops[k].gate # "measure"
           /\ ~ops[i].when /\ ops[i].gate \in Executable
<1> DEFINE E1 == Error(\E k \in 1 .. i - 1 : IsMeasure(ops[k]), "nonterminal_measurement", "UNSUPPORTED")
           E2 == IF ops[i].when THEN Error(TRUE, "dynamic_control", "UNSUPPORTED")
                 ELSE IF ops[i].gate = "barrier" THEN Error(TRUE, "barrier", "UNSUPPORTED")
                 ELSE Error(ops[i].gate \notin Executable, "unsupported_gate", "UNSUPPORTED")
<1>1. GateErrors(ops, i) = E1 \cup E2
  BY Zenon DEF GateErrors
<1>2. E1 = {} <=> \A k \in 1 .. i - 1 : ops[k].gate # "measure"
  BY DEF Error, IsMeasure
<1>3. E2 = {} <=> ~ops[i].when /\ ops[i].gate \in Executable
  <2>1. CASE ops[i].when
    BY <2>1 DEF Error
  <2>2. CASE ~ops[i].when /\ ops[i].gate = "barrier"
    <3>1. ops[i].gate \notin Executable
      BY <2>2, GatesAreNotMeasures
    <3>2. QED
      BY <2>2, <3>1 DEF Error
  <2>3. CASE ~ops[i].when /\ ops[i].gate # "barrier"
    BY <2>3 DEF Error
  <2>4. QED
    BY <2>1, <2>2, <2>3
<1> HIDE DEF E1, E2
<1>4. QED
  BY <1>1, <1>2, <1>3

LEMMA ExternalErrors ==
  ASSUME NEW circuit
  PROVE  AdmitExternal(circuit) = {} <=>
           /\ circuit.single /\ circuit.qelib1
           /\ ~(circuit.width > MaxQubits) /\ circuit.bits = circuit.width
           /\ \A i \in DOMAIN circuit.operations :
                circuit.operations[i].gate = "measure" \/ GateErrors(circuit.operations, i) = {}
           /\ ~(Len(Gates(circuit)) > MaxGates)
           /\ Measured(circuit) = Identity(circuit.width)
<1> DEFINE E1 == Error(circuit.width > MaxQubits, "qubit_budget", "BLOCKED")
           E2 == Error(circuit.bits # circuit.width, "external_register_widths", "UNSUPPORTED")
           E3 == Error(~circuit.qelib1, "include_contract", "UNSUPPORTED")
           E4 == UNION {GateErrors(circuit.operations, i) :
                          i \in {k \in DOMAIN circuit.operations : ~IsMeasure(circuit.operations[k])}}
           E5 == Error(Len(Gates(circuit)) > MaxGates, "gate_budget", "BLOCKED")
           E6 == Error(Measured(circuit) # Identity(circuit.width),
                              "terminal_measurement_mapping", "UNSUPPORTED")
<1>1. AdmitExternal(circuit) = IF ~circuit.single THEN Error(TRUE, "register_count", "UNSUPPORTED")
                                      ELSE E1 \cup E2 \cup E3 \cup E4 \cup E5 \cup E6
  BY Zenon DEF AdmitExternal
<1>2. E1 = {} <=> ~(circuit.width > MaxQubits)
  BY DEF Error
<1>3. E2 = {} <=> circuit.bits = circuit.width
  BY DEF Error
<1>4. E3 = {} <=> circuit.qelib1
  BY DEF Error
<1>5. E4 = {} <=> \A i \in DOMAIN circuit.operations :
                    circuit.operations[i].gate = "measure" \/ GateErrors(circuit.operations, i) = {}
  BY Zenon DEF IsMeasure
<1>6. E5 = {} <=> ~(Len(Gates(circuit)) > MaxGates)
  BY DEF Error
<1>7. E6 = {} <=> Measured(circuit) = Identity(circuit.width)
  BY DEF Error
<1>8. Error(TRUE, "register_count", "UNSUPPORTED") # {}
  BY DEF Error
<1> HIDE DEF E1, E2, E3, E4, E5, E6
<1>9. AdmitExternal(circuit) = {} <=>
        circuit.single /\ E1 = {} /\ E2 = {} /\ E3 = {} /\ E4 = {} /\ E5 = {} /\ E6 = {}
  BY <1>1, <1>8
<1>10. QED
  BY <1>2, <1>3, <1>4, <1>5, <1>6, <1>7, <1>9, Zenon

\* An admitted circuit splits at its first measurement.
LEMMA AdmittedSplits ==
  ASSUME NEW circuit, WellFormedExternal(circuit),
         \A i \in DOMAIN circuit.operations :
           circuit.operations[i].gate = "measure" \/ GateErrors(circuit.operations, i) = {}
  PROVE  \E n \in Nat : Splits(circuit.operations, n)
<1> DEFINE ops == circuit.operations
           N == Len(ops)
           M == {i \in 1 .. N : ops[i].gate = "measure"}
<1>1. N \in Nat /\ DOMAIN ops = 1 .. N
  BY DEF WellFormedExternal
<1>2. M # {} /\ M \in SUBSET Nat
  BY <1>1 DEF WellFormedExternal
<1> HIDE DEF M
<1>3. PICK m \in M : \A i \in M : m <= i
  BY <1>2, LeastNumber
<1>4. m \in 1 .. N /\ ops[m].gate = "measure"
  BY <1>3 DEF M
<1>5. \A i \in 1 .. N : ops[i].gate = "measure" => m <= i
  BY <1>3 DEF M
<1> DEFINE n == m - 1
<1>6. ASSUME NEW i \in 1 .. n PROVE ops[i].gate \in Executable /\ ~ops[i].when
  <2>1. i \in 1 .. N /\ ~(m <= i)
    BY <1>1, <1>4, <1>6
  <2>2. GateErrors(ops, i) = {}
    BY <1>1, <1>5, <2>1
  <2>3. QED
    BY <2>2, NothingWrongWith
<1>7. ASSUME NEW i \in n + 1 .. N PROVE ops[i].gate = "measure"
  <2>1. i \in 1 .. N /\ m <= i
    BY <1>1, <1>4, <1>7
  <2>2. CASE i = m
    BY <1>4, <2>2
  <2>3. CASE i # m
    <3>1. m \in 1 .. i - 1
      BY <1>4, <2>1, <2>3
    <3>2. GateErrors(ops, i) # {}
      BY <1>4, <3>1, NothingWrongWith
    <3>3. QED
      BY <1>1, <2>1, <3>2
  <2>4. QED
    BY <2>2, <2>3
<1>8. n \in Nat /\ n \in 0 .. N
  BY <1>1, <1>4
<1> HIDE DEF n, N, ops
<1>9. Splits(ops, n)
  BY <1>6, <1>7, <1>8 DEF Splits, N
<1>10. QED
  BY <1>8, <1>9 DEF ops

\* A circuit in the declared subset, which splits where its measurements begin.
InOrder(circuit, n) ==
  /\ circuit.single /\ circuit.qelib1 /\ circuit.bits = circuit.width /\ circuit.width <= MaxQubits
  /\ Splits(circuit.operations, n) /\ n <= MaxGates
  /\ n = Len(circuit.operations) - circuit.width
  /\ \A i \in 1 .. circuit.width :
       circuit.operations[n + i].qubits = <<i - 1>> /\ circuit.operations[n + i].bit = i - 1

LEMMA SubsetInOrder ==
  ASSUME NEW circuit, WellFormedExternal(circuit)
  PROVE  ExternalInSubset(circuit) <=> \E n \in Nat : InOrder(circuit, n)
<1> DEFINE ops == circuit.operations
           N == Len(ops)
           w == circuit.width
<1>1. N \in Nat /\ w \in Nat \ {0} /\ MaxGates \in Nat
  BY BudgetAssumption DEF WellFormedExternal
<1>2. ASSUME ExternalInSubset(circuit) PROVE \E n \in Nat : InOrder(circuit, n)
  <2> DEFINE n == N - w
  <2>1. /\ circuit.single /\ circuit.qelib1 /\ circuit.bits = w /\ w <= MaxQubits
        /\ n \in 0 .. MaxGates
        /\ \A i \in 1 .. n : ops[i].gate \in Executable /\ ~ops[i].when
        /\ \A i \in 1 .. w : ops[n + i].gate = "measure" /\ ops[n + i].qubits = <<i - 1>> /\ ops[n + i].bit = i - 1
    BY <1>2 DEF ExternalInSubset
  <2>2. n \in Nat /\ n <= MaxGates /\ n \in 0 .. N
    BY <1>1, <2>1
  <2>3. ASSUME NEW i \in n + 1 .. N PROVE ops[i].gate = "measure"
    <3>0. n = N - w
      OBVIOUS
    <3> HIDE DEF n, N, w
    <3>1. i - n \in 1 .. w /\ n + (i - n) = i
      BY <1>1, <2>2, <2>3, <3>0
    <3>2. QED
      BY <2>1, <3>1
  <2> HIDE DEF n, N
  <2>4. Splits(ops, n)
    BY <2>1, <2>2, <2>3 DEF Splits, N
  <2>5. InOrder(circuit, n)
    BY <2>1, <2>2, <2>4 DEF InOrder, n, N
  <2>6. QED
    BY <2>2, <2>5
<1>3. ASSUME NEW n \in Nat, InOrder(circuit, n) PROVE ExternalInSubset(circuit)
  <2>1. n = N - w /\ n \in 0 .. MaxGates /\ \A i \in 1 .. n : ops[i].gate \in Executable /\ ~ops[i].when
    BY <1>1, <1>3 DEF InOrder, Splits
  <2>2. ASSUME NEW i \in 1 .. w PROVE ops[n + i].gate = "measure"
    <3>1. n + i \in n + 1 .. N
      BY <1>1, <2>1, <2>2
    <3>2. QED
      BY <1>3, <3>1 DEF InOrder, Splits
  <2> HIDE DEF ops, w, N
  <2>3. QED
    BY <1>3, <2>1, <2>2 DEF ExternalInSubset, InOrder, N, ops, w
<1>4. QED
  BY <1>2, <1>3

\* An external circuit is admitted exactly when it is in the declared subset.
LEMMA ExternalAdmittedIsSubset ==
  ASSUME NEW circuit, WellFormedExternal(circuit)
  PROVE  /\ AdmitExternal(circuit) = {} <=> \E n \in Nat : InOrder(circuit, n)
         /\ AdmitExternal(circuit) = {} => Measured(circuit) = Identity(circuit.width)
<1> DEFINE ops == circuit.operations
           Fine == \A i \in DOMAIN ops : ops[i].gate = "measure" \/ GateErrors(ops, i) = {}
<1>1. /\ circuit.width \in Nat \ {0} /\ MaxQubits \in Nat /\ MaxGates \in Nat
      /\ ops \in Seq(ExternalOperations)
  BY BudgetAssumption DEF WellFormedExternal
<1>2. AdmitExternal(circuit) = {} <=>
           /\ circuit.single /\ circuit.qelib1
           /\ ~(circuit.width > MaxQubits) /\ circuit.bits = circuit.width
           /\ Fine
           /\ ~(Len(Gates(circuit)) > MaxGates)
           /\ Measured(circuit) = Identity(circuit.width)
  BY ExternalErrors
<1>3. ASSUME AdmitExternal(circuit) = {} PROVE \E n \in Nat : InOrder(circuit, n)
  <2>1. Fine
    BY <1>2, <1>3
  <2>2. PICK n \in Nat : Splits(ops, n)
    BY <2>1, AdmittedSplits
  <2>3. Len(Gates(circuit)) = n
    BY <1>1, <2>2, SplitFacts
  <2>4. n <= MaxGates
    BY <1>1, <1>2, <1>3, <2>3
  <2>5. /\ n = Len(ops) - circuit.width
        /\ \A i \in 1 .. circuit.width : ops[n + i].qubits = <<i - 1>> /\ ops[n + i].bit = i - 1
    BY <1>2, <1>3, <2>2, MeasuredInOrder
  <2>6. InOrder(circuit, n)
    BY <1>1, <1>2, <1>3, <2>2, <2>4, <2>5 DEF InOrder
  <2>7. QED
    BY <2>6
<1>4. ASSUME NEW n \in Nat, InOrder(circuit, n) PROVE AdmitExternal(circuit) = {}
  <2>1. Splits(ops, n) /\ n <= MaxGates
    BY <1>4 DEF InOrder
  <2>2. Len(Gates(circuit)) = n
    BY <1>1, <2>1, SplitFacts
  <2>3. Measured(circuit) = Identity(circuit.width)
    BY <1>4, <2>1, MeasuredInOrder DEF InOrder
  <2>4. ASSUME NEW i \in DOMAIN ops, ops[i].gate # "measure" PROVE GateErrors(ops, i) = {}
    <3>1. n \in 0 .. Len(ops) /\ i \in 1 .. Len(ops) /\ Len(ops) \in Nat
      BY <1>1, <2>1 DEF Splits
    <3>2. i \in 1 .. n
      <4>1. i \notin n + 1 .. Len(ops)
        BY <2>1, <2>4 DEF Splits
      <4>2. QED
        BY <3>1, <4>1
    <3>3. ASSUME NEW k \in 1 .. n PROVE ops[k].gate \in Executable /\ ~ops[k].when /\ ops[k].gate # "measure"
      BY <2>1, GatesAreNotMeasures DEF Splits
    <3>4. \A k \in 1 .. i - 1 : k \in 1 .. n
      BY <3>1, <3>2
    <3>5. QED
      BY <3>2, <3>3, <3>4, NothingWrongWith
  <2>5. Fine
    BY <2>4
  <2>6. ~(circuit.width > MaxQubits) /\ ~(Len(Gates(circuit)) > MaxGates)
    BY <1>1, <1>4, <2>1, <2>2 DEF InOrder
  <2>7. QED
    BY <1>2, <1>4, <2>3, <2>5, <2>6 DEF InOrder
<1>5. QED
  BY <1>2, <1>3, <1>4

\* A gate as it is spelled.
Plain(op) == [gate |-> op.gate, qubits |-> op.qubits, when |-> op.when, bit |-> 0]

LEMMA ThenOne ==
  ASSUME NEW S, NEW g \in Seq(S), NEW x \in S, NEW m, m = Len(g) + 1, NEW h, h = g \o <<x>>
  PROVE  h \in Seq(S) /\ Len(h) = m /\ (\A i \in 1 .. Len(g) : h[i] = g[i]) /\ h[m] = x
OBVIOUS

LEMMA OneLonger ==
  ASSUME NEW S, NEW f \in Seq(S), NEW n \in Nat, NEW m, m = n + 1, Len(f) = m
  PROVE  [i \in 1 .. n |-> f[i]] \o <<f[m]>> = f
<1> DEFINE g == [i \in 1 .. n |-> f[i]]
           x == f[m]
           h == g \o <<x>>
<1>1. x \in S /\ \A i \in 1 .. n : f[i] \in S
  OBVIOUS
<1>2. g \in Seq(S) /\ Len(g) = n /\ \A i \in 1 .. n : g[i] = f[i]
  BY <1>1
<1> HIDE DEF g, x
<1>3. h \in Seq(S) /\ Len(h) = m /\ (\A i \in 1 .. n : h[i] = g[i]) /\ h[m] = x
  BY <1>1, <1>2, ThenOne
<1> HIDE DEF h
<1>4. \A i \in 1 .. m : i \in 1 .. n \/ i = m
  OBVIOUS
<1>5. \A i \in 1 .. m : h[i] = f[i]
  BY <1>2, <1>3, <1>4 DEF x
<1>6. h = f
  BY <1>3, <1>5, SeqEqual
<1>7. QED
  BY <1>6 DEF h, g, x

\* Gates are spelled one by one.
LEMMA SpelledGates ==
  ASSUME NEW width, NEW S, NEW s \in Seq(S), \A i \in 1 .. Len(s) : s[i].gate \in Executable
  PROVE  WithMeasurements(s, width) = [i \in 1 .. Len(s) |-> Plain(s[i])]
<1> DEFINE c(n) == SubSeq(s, 1, n)
           g(n) == [i \in 1 .. n |-> Plain(s[i])]
           P == {n \in Nat : n <= Len(s) => WithMeasurements(c(n), width) = g(n)}
<1>1. 0 \in P
  <2>1. c(0) = <<>> /\ g(0) = <<>>
    OBVIOUS
  <2>2. <<>> \in Seq({0}) /\ 0 \in {0}
    OBVIOUS
  <2>3. WithMeasurements(<<>>, width) = <<>>
    BY <2>2, WithMeasurementsEquations
  <2>4. QED
    BY <2>1, <2>3
<1>2. ASSUME NEW n \in Nat, n \in P PROVE n + 1 \in P
  <2> DEFINE m == n + 1
             x == s[m]
  <2>1. SUFFICES ASSUME m <= Len(s) PROVE WithMeasurements(c(m), width) = g(m)
    OBVIOUS
  <2>2. c(n) \in Seq(S) /\ x \in S /\ c(m) = Append(c(n), x)
    BY <2>1
  <2>3. x.gate \in Executable
    BY <2>1
  <2>4. WithMeasurements(c(n), width) = g(n)
    BY <1>2, <2>1
  <2>5. Spelled(x, width) = <<Plain(x)>>
    <3>1. x.gate # "FULL" /\ x.gate # "measure"
      BY <2>3, GatesAreNotMeasures
    <3>2. QED
      BY <3>1 DEF Spelled, Plain
  <2> HIDE DEF c, P, x
  <2>6. WithMeasurements(Append(c(n), x), width) = WithMeasurements(c(n), width) \o Spelled(x, width)
    BY <2>2, WithMeasurementsEquations
  <2>7. g(n) \o <<Plain(x)>> = g(m)
    <3> DEFINE f == g(m)
               T == {Plain(y) : y \in S}
    <3>1. (\A i \in 1 .. m : f[i] = Plain(s[i])) /\ \A i \in 1 .. m : Plain(s[i]) \in T
      BY <2>1
    <3> HIDE DEF T
    <3>2. f \in Seq(T) /\ Len(f) = m /\ g(n) = [i \in 1 .. n |-> f[i]] /\ f[m] = Plain(x)
      BY <3>1 DEF x
    <3> HIDE DEF f, g
    <3>3. [i \in 1 .. n |-> f[i]] \o <<f[m]>> = f
      BY <3>2, OneLonger
    <3>4. QED
      BY <3>2, <3>3 DEF f
  <2>8. QED
    BY <2>2, <2>4, <2>5, <2>6, <2>7
<1> HIDE DEF P
<1>3. Nat \subseteq P
  BY <1>1, <1>2, Induction
<1>4. WithMeasurements(c(Len(s)), width) = g(Len(s))
  BY <1>3 DEF P
<1>5. c(Len(s)) = s
  OBVIOUS
<1>6. QED
  BY <1>4, <1>5

\* Measurements are spelled as they are.
LEMMA SpelledMeasures ==
  ASSUME NEW width, NEW S, NEW s \in Seq(S), NEW t \in Seq(S), WithMeasurements(s, width) \in Seq(S),
         \A i \in 1 .. Len(t) : t[i].gate = "measure"
  PROVE  WithMeasurements(s \o t, width) = WithMeasurements(s, width) \o t
<1> DEFINE c(n) == SubSeq(t, 1, n)
           u == WithMeasurements(s, width)
           P == {n \in Nat : n <= Len(t) => WithMeasurements(s \o c(n), width) = u \o c(n)}
<1>0. u \in Seq(S)
  OBVIOUS
<1> HIDE DEF u
<1>1. 0 \in P
  <2>1. c(0) = <<>> /\ s \o <<>> = s /\ u \o <<>> = u
    BY <1>0, ConcatEmptySeq
  <2>2. QED
    BY <2>1 DEF u
<1>2. ASSUME NEW n \in Nat, n \in P PROVE n + 1 \in P
  <2> DEFINE m == n + 1
             x == t[m]
             d == s \o c(n)
  <2>1. SUFFICES ASSUME m <= Len(t) PROVE WithMeasurements(s \o c(m), width) = u \o c(m)
    OBVIOUS
  <2>2. c(n) \in Seq(S) /\ x \in S /\ c(m) = Append(c(n), x)
    BY <2>1
  <2>3. x.gate = "measure"
    BY <2>1
  <2>4. WithMeasurements(d, width) = u \o c(n)
    BY <1>2, <2>1
  <2>5. Spelled(x, width) = <<x>>
    BY <2>3 DEF Spelled
  <2> HIDE DEF c, P, x
  <2>6. d \in Seq(S) /\ s \o Append(c(n), x) = Append(d, x)
    BY <2>2
  <2> HIDE DEF d
  <2>7. WithMeasurements(Append(d, x), width) = WithMeasurements(d, width) \o Spelled(x, width)
    BY <2>2, <2>6, WithMeasurementsEquations
  <2>8. (u \o c(n)) \o <<x>> = u \o Append(c(n), x)
    <3> DEFINE e == c(n)
    <3>1. e \in Seq(S) /\ x \in S
      BY <2>2
    <3> HIDE DEF e
    <3>2. (u \o e) \o <<x>> = u \o Append(e, x)
      <4> DEFINE l == (u \o e) \o <<x>>
                 r == u \o Append(e, x)
      <4>1. l \in Seq(S) /\ Len(l) = Len(u) + Len(e) + 1
        BY <1>0, <3>1
      <4>2. r \in Seq(S) /\ Len(r) = Len(u) + Len(e) + 1
        BY <1>0, <3>1
      <4>3. ASSUME NEW i \in 1 .. Len(u) + Len(e) + 1 PROVE l[i] = r[i]
        BY <1>0, <3>1, <4>3
      <4> HIDE DEF l, r
      <4>4. l = r
        BY <4>1, <4>2, <4>3, SeqEqual
      <4>5. QED
        BY <4>4 DEF l, r
    <3>3. QED
      BY <3>2 DEF e
  <2>9. QED
    BY <2>2, <2>4, <2>5, <2>6, <2>7, <2>8
<1> HIDE DEF P
<1>3. Nat \subseteq P
  BY <1>1, <1>2, Induction
<1>4. WithMeasurements(s \o c(Len(t)), width) = u \o c(Len(t))
  BY <1>3 DEF P
<1>5. c(Len(t)) = t
  OBVIOUS
<1>6. QED
  BY <1>4, <1>5 DEF u

\* The measurements of gates and then measurements.
LEMMA MeasurementsLast ==
  ASSUME NEW S, NEW a \in Seq(S), NEW b \in Seq(S),
         \A i \in 1 .. Len(a) : a[i].gate \in Executable /\ ~a[i].when,
         \A i \in 1 .. Len(b) : b[i].gate = "measure"
  PROVE  Measurements(a \o b) = b
<1> DEFINE c == a \o b
           n == Len(a)
<1>1. c \in Seq(S) /\ Len(c) = n + Len(b) /\ n \in Nat /\ Len(b) \in Nat
  OBVIOUS
<1>2. \A i \in 1 .. n : c[i] = a[i]
  OBVIOUS
<1>3. \A i \in n + 1 .. Len(c) : c[i] = b[i - n] /\ i - n \in 1 .. Len(b)
  OBVIOUS
<1>4. SubSeq(c, n + 1, Len(c)) = b
  <2> DEFINE d == SubSeq(c, n + 1, Len(c))
  <2>1. d \in Seq(S) /\ Len(d) = Len(b) /\ \A i \in 1 .. Len(b) : d[i] = b[i]
    OBVIOUS
  <2> HIDE DEF d, c, n
  <2>2. d = b
    BY <2>1, SeqEqual
  <2>3. QED
    BY <2>2 DEF d
<1> HIDE DEF c, n
<1>5. \A i \in 1 .. n : c[i].gate \in Executable /\ ~c[i].when
  BY <1>2 DEF n
<1>6. \A i \in n + 1 .. Len(c) : c[i].gate = "measure"
  BY <1>3
<1>7. Splits(c, n)
  <2>1. n \in 0 .. Len(c)
    BY <1>1
  <2>2. QED
    BY <1>5, <1>6, <2>1 DEF Splits
<1>8. Measurements(c) = SubSeq(c, n + 1, Len(c))
  BY <1>1, <1>7, SplitParts
<1>9. QED
  BY <1>4, <1>8 DEF c

\* What a projection does is what its gates do.
LEMMA UnitaryIs ==
  ASSUME NEW circuit, NEW S, NEW a \in Seq(S), \A i \in 1 .. Len(a) : a[i].when = FALSE,
         circuit.gates = [i \in 1 .. Len(a) |-> <<a[i].gate, a[i].qubits>>]
  PROVE  Unitary(circuit) = After(circuit.width, Untouched(circuit.width), a)
<1> DEFINE w == circuit.width
           gs == circuit.gates
           G(i) == [gate |-> gs[i][1], qubits |-> gs[i][2], when |-> FALSE]
           b == [i \in DOMAIN gs |-> G(i)]
           T == {G(i) : i \in 1 .. Len(a)}
<1>1. Unitary(circuit) = Meaning(w, b)
  BY Zenon DEF Unitary
<1>2. DOMAIN gs = 1 .. Len(a)
  OBVIOUS
<1>3. \A i \in 1 .. Len(a) : gs[i][1] = a[i].gate /\ gs[i][2] = a[i].qubits
  OBVIOUS
<1> HIDE DEF gs
<1>4. \A i \in 1 .. Len(a) : G(i) \in T
  OBVIOUS
<1>5. \A i \in 1 .. Len(a) : G(i).gate = a[i].gate /\ G(i).qubits = a[i].qubits /\ G(i).when = a[i].when
  BY <1>3
<1> HIDE DEF G, T
<1>6. b \in Seq(T) /\ Len(b) = Len(a) /\ \A i \in 1 .. Len(a) : b[i] = G(i)
  BY <1>2, <1>4
<1> HIDE DEF b
<1>7. \A i \in 1 .. Len(a) : a[i].gate = b[i].gate /\ a[i].qubits = b[i].qubits /\ a[i].when = b[i].when
  BY <1>5, <1>6
<1>8. After(w, Untouched(w), a) = After(w, Untouched(w), b)
  <2> DEFINE met == Untouched(w)
  <2>1. Len(a) = Len(b)
    BY <1>6
  <2> HIDE DEF met, w
  <2>2. \A now : After(w, now, a) = After(w, now, b)
    <3>1. b \in Seq(T)
      BY <1>6
    <3> HIDE DEF b
    <3>2. QED
      BY <1>7, <2>1, <3>1, AfterSame
  <2>3. QED
    BY <2>2 DEF met
<1>9. QED
  BY <1>1, <1>8 DEF Meaning

\* A circuit in full: its gates, and each qubit measured into its own bit.
Spelling(full, gates, w, a, b) ==
  /\ a \in Seq(ExternalOperations) /\ b \in Seq(ExternalOperations)
  /\ full = a \o b
  /\ \A i \in 1 .. Len(a) : a[i].gate \in Executable /\ a[i].when = FALSE
  /\ gates = [i \in 1 .. Len(a) |-> <<a[i].gate, a[i].qubits>>]
  /\ Len(b) = w
  /\ \A i \in 1 .. w :
       b[i].gate = "measure" /\ b[i].qubits = <<i - 1>> /\ b[i].when = FALSE /\ b[i].bit = i - 1

LEMMA PlainGate ==
  ASSUME NEW op, op.gate \in Executable, op.qubits \in Seq(Nat), op.when \in BOOLEAN, ~op.when
  PROVE  /\ Plain(op) \in ExternalOperations
         /\ Plain(op).gate = op.gate /\ Plain(op).qubits = op.qubits /\ Plain(op).when = FALSE
<1>1. op.gate \in ExternalKinds
  BY DEF ExternalKinds
<1>2. op.when = FALSE
  OBVIOUS
<1>3. QED
  BY <1>1, <1>2 DEF Plain, ExternalOperations

\* Gates, spelled.
LEMMA PlainGates ==
  ASSUME NEW width, NEW S, NEW s \in Seq(S),
         \A i \in 1 .. Len(s) : /\ s[i].gate \in Executable /\ s[i].qubits \in Seq(Nat)
                                /\ s[i].when \in BOOLEAN /\ ~s[i].when,
         NEW a, a = WithMeasurements(s, width)
  PROVE  /\ a \in Seq(ExternalOperations) /\ Len(a) = Len(s)
         /\ \A i \in 1 .. Len(s) :
              /\ a[i].gate = s[i].gate /\ a[i].qubits = s[i].qubits /\ a[i].when = FALSE
              /\ a[i].gate \in Executable
<1>1. a = [i \in 1 .. Len(s) |-> Plain(s[i])]
  BY SpelledGates
<1>2. ASSUME NEW i \in 1 .. Len(s)
      PROVE  /\ Plain(s[i]) \in ExternalOperations
             /\ Plain(s[i]).gate = s[i].gate /\ Plain(s[i]).qubits = s[i].qubits /\ Plain(s[i]).when = FALSE
  BY PlainGate
<1>3. a \in Seq(ExternalOperations) /\ Len(a) = Len(s) /\ \A i \in 1 .. Len(s) : a[i] = Plain(s[i])
  <2> DEFINE n == Len(s)
             P(i) == Plain(s[i])
             S1 == ExternalOperations
  <2>1. n \in Nat /\ a = [i \in 1 .. n |-> P(i)]
    BY <1>1
  <2>3. \A i \in 1 .. n : P(i) \in S1
    BY <1>2
  <2> HIDE DEF n, P, S1
  <2>2. a \in Seq(S1) /\ Len(a) = n /\ \A i \in 1 .. n : a[i] = P(i)
    BY <2>1, <2>3
  <2>4. QED
    BY <2>2 DEF n, P, S1
<1>4. QED
  BY <1>2, <1>3

LEMMA NativeSpelled ==
  ASSUME NEW prog \in ProgramRecords, InCommonSubset(prog)
  PROVE  \E a, b : Spelling(WithMeasurements(prog.operations, prog.width),
                            Projection(prog).gates, prog.width, a, b)
<1> DEFINE ops == prog.operations
           N == Len(ops)
           n == N - 1
           w == prog.width
           pre == Prefix(prog)
           last == ops[N]
           a == WithMeasurements(pre, w)
           Record(i) == [gate |-> "measure", qubits |-> <<i - 1>>, when |-> FALSE, bit |-> i - 1]
           b == [i \in 1 .. w |-> Record(i)]
<1>1. ops \in Seq(Operations) /\ N \in Nat \ {0} /\ w \in Nat \ {0} /\ DOMAIN ops = 1 .. N
  <2>1. N \in 1 .. MaxGates + 1
    BY DEF InCommonSubset
  <2>2. QED
    BY <2>1 DEF ProgramRecords
<1>2. ops # <<>>
  BY <1>1
<1>3. /\ pre \in Seq(Operations) /\ Len(pre) = n
      /\ \A i \in 1 .. n : pre[i] = ops[i]
  BY <1>1, <1>2, PrefixFacts
<1>4. \A i \in 1 .. n : ops[i].gate \in Executable /\ ~ops[i].when
  BY <1>1 DEF InCommonSubset
<1>5. last.gate = "FULL" /\ last \in Operations
  <2>1. N \in 1 .. N
    BY <1>1
  <2>2. last.gate = "FULL"
    BY <1>1, <2>1 DEF InCommonSubset
  <2>3. QED
    BY <1>1, <2>1, <2>2, ElementOfSeq
<1>6. ops = Append(pre, last)
  <2> DEFINE c == Append(pre, last)
  <2>1. c \in Seq(Operations) /\ Len(c) = N /\ \A i \in 1 .. N : c[i] = ops[i]
    BY <1>1, <1>3, <1>5
  <2> HIDE DEF c
  <2>2. c = ops
    BY <1>1, <2>1, SeqEqual
  <2>3. QED
    BY <2>2 DEF c
<1>7. Projection(prog).gates = [i \in DOMAIN pre |-> <<pre[i].gate, pre[i].qubits>>]
  BY DEF Projection
<1> HIDE DEF pre, last
<1>8. WithMeasurements(Append(pre, last), w) = a \o Spelled(last, w)
  BY <1>3, <1>5, WithMeasurementsEquations
<1>9. Spelled(last, w) = b
  BY <1>5 DEF Spelled
<1>10. ASSUME NEW i \in 1 .. Len(pre)
       PROVE  pre[i].gate \in Executable /\ pre[i].qubits \in Seq(Nat) /\ pre[i].when \in BOOLEAN /\ ~pre[i].when
  <2>1. pre[i] \in Operations
    BY <1>3, ElementOfSeq
  <2>2. pre[i].qubits \in Seq(Nat) /\ pre[i].when \in BOOLEAN
    BY <2>1, OperationFields
  <2>3. QED
    BY <1>3, <1>4, <2>2
<1>11. /\ a \in Seq(ExternalOperations) /\ Len(a) = Len(pre)
       /\ \A i \in 1 .. Len(pre) :
            /\ a[i].gate = pre[i].gate /\ a[i].qubits = pre[i].qubits /\ a[i].when = FALSE
            /\ a[i].gate \in Executable
  BY <1>3, <1>10, PlainGates
<1>12. ASSUME NEW i \in 1 .. w
       PROVE  /\ Record(i) \in ExternalOperations
              /\ Record(i).gate = "measure" /\ Record(i).qubits = <<i - 1>> /\ Record(i).when = FALSE
              /\ Record(i).bit = i - 1
  <2>1. i - 1 \in Nat
    BY <1>1
  <2>2. <<i - 1>> \in Seq(Nat)
    BY <2>1
  <2>3. QED
    BY <2>1, <2>2 DEF ExternalOperations, ExternalKinds
<1> HIDE DEF Record, a
<1>13. b \in Seq(ExternalOperations) /\ Len(b) = w /\ \A i \in 1 .. w : b[i] = Record(i)
  <2> DEFINE S1 == ExternalOperations
  <2>1. w \in Nat /\ \A i \in 1 .. w : Record(i) \in S1
    BY <1>1, <1>12
  <2> HIDE DEF w, S1
  <2>2. b \in Seq(S1) /\ Len(b) = w /\ \A i \in 1 .. w : b[i] = Record(i)
    BY <2>1
  <2>3. QED
    BY <2>2 DEF S1
<1> HIDE DEF b, w, ops, N, n
<1>14. DOMAIN pre = 1 .. Len(a)
  BY <1>3, <1>11
<1>15. Projection(prog).gates = [i \in 1 .. Len(a) |-> <<a[i].gate, a[i].qubits>>]
  BY <1>7, <1>11, <1>14
<1>16. Spelling(WithMeasurements(ops, w), Projection(prog).gates, w, a, b)
  BY <1>6, <1>8, <1>9, <1>11, <1>12, <1>13, <1>15 DEF Spelling
<1>17. QED
  BY <1>16 DEF ops, w

LEMMA TheRest ==
  ASSUME NEW S, NEW s \in Seq(S), NEW n \in Nat, NEW m \in Nat, Len(s) = n + m
  PROVE  /\ SubSeq(s, n + 1, Len(s)) \in Seq(S) /\ Len(SubSeq(s, n + 1, Len(s))) = m
         /\ \A i \in 1 .. m : SubSeq(s, n + 1, Len(s))[i] = s[n + i]
OBVIOUS

\* A sequence is its first elements and the rest.
LEMMA TwoParts ==
  ASSUME NEW S, NEW s \in Seq(S), NEW n \in Nat, n <= Len(s)
  PROVE  s = SubSeq(s, 1, n) \o SubSeq(s, n + 1, Len(s))
<1> DEFINE N == Len(s)
           m == N - n
           c == SubSeq(s, 1, n)
           b == SubSeq(s, n + 1, N)
           d == c \o b
<1>1. N \in Nat /\ m \in Nat /\ N = n + m
  OBVIOUS
<1>2. c \in Seq(S) /\ Len(c) = n /\ \A i \in 1 .. n : c[i] = s[i]
  OBVIOUS
<1>3. b \in Seq(S) /\ Len(b) = m /\ \A i \in 1 .. m : b[i] = s[n + i]
  BY <1>1, TheRest
<1> HIDE DEF N, m, c, b
<1>4. d \in Seq(S) /\ Len(d) = N
  <2>1. d \in Seq(S)
    BY <1>2, <1>3
  <2>2. Len(d) = Len(c) + Len(b)
    BY <1>2, <1>3
  <2>3. QED
    BY <1>1, <1>2, <1>3, <2>1, <2>2
<1>5. ASSUME NEW i \in 1 .. n PROVE d[i] = s[i]
  BY <1>1, <1>2, <1>3, <1>5
<1>6. ASSUME NEW i \in 1 .. m PROVE d[n + i] = s[n + i]
  <2>1. d[n + i] = b[i]
    BY <1>2, <1>3, <1>1
  <2>2. QED
    BY <1>3, <2>1
<1> HIDE DEF d
<1>7. ASSUME NEW i \in 1 .. N PROVE d[i] = s[i]
  <2>1. CASE i <= n
    BY <1>5, <2>1
  <2>2. CASE ~(i <= n)
    <3>1. i - n \in 1 .. m /\ n + (i - n) = i
      BY <1>1, <2>2
    <3>2. QED
      BY <1>6, <3>1
  <2>3. QED
    BY <2>1, <2>2
<1>8. d = s
  BY <1>4, <1>7, SeqEqual DEF N
<1>9. QED
  BY <1>8 DEF d, c, b, N

LEMMA ExternalSpelled ==
  ASSUME NEW circuit, WellFormedExternal(circuit), NEW n \in Nat, InOrder(circuit, n)
  PROVE  \E a, b : Spelling(WithMeasurements(circuit.operations, circuit.width),
                            ExternalProjection(circuit).gates, circuit.width, a, b)
<1> DEFINE ops == circuit.operations
           N == Len(ops)
           w == circuit.width
           S == ExternalOperations
           c == SubSeq(ops, 1, n)
           b == SubSeq(ops, n + 1, N)
           a == WithMeasurements(c, w)
<1>1. ops \in Seq(S) /\ N \in Nat /\ w \in Nat \ {0} /\ n = N - w /\ n <= N /\ DOMAIN ops = 1 .. N /\ Splits(ops, n)
  BY DEF WellFormedExternal, InOrder, Splits
<1>2. \A i \in 1 .. n : ops[i].gate \in Executable /\ ~ops[i].when
  BY <1>1 DEF Splits
<1>3. c \in Seq(S) /\ Len(c) = n /\ \A i \in 1 .. n : c[i] = ops[i]
  BY <1>1
<1>4. b \in Seq(S) /\ Len(b) = w /\ \A i \in 1 .. w : b[i] = ops[n + i]
  <2> HIDE DEF ops, w, S, N
  <2>1. ops \in Seq(S) /\ w \in Nat /\ Len(ops) = n + w
    BY <1>1 DEF N
  <2> DEFINE t == SubSeq(ops, n + 1, Len(ops))
  <2>2. t \in Seq(S) /\ Len(t) = w /\ \A i \in 1 .. w : t[i] = ops[n + i]
    BY <2>1, TheRest
  <2>3. QED
    BY <2>2 DEF b, N
<1>5. ops = c \o b
  <2> DEFINE d == c \o b
  <2> HIDE DEF S, ops, w, N, c, b
  <2>1. n <= Len(ops) /\ ops \in Seq(S)
    BY <1>1 DEF N
  <2>2. QED
    BY <2>1, TwoParts DEF c, b, N
<1>6. ASSUME NEW i \in 1 .. w
      PROVE  b[i].gate = "measure" /\ b[i].qubits = <<i - 1>> /\ b[i].when = FALSE /\ b[i].bit = i - 1
  <2>1. n + i \in n + 1 .. N /\ n + i \in DOMAIN ops
    BY <1>1, <1>6
  <2>2. ops[n + i].gate = "measure"
    BY <1>1, <2>1 DEF Splits
  <2>3. ops[n + i] \in S
    BY <1>1, <2>1, ElementOfSeq
  <2>4. ops[n + i].when \in BOOLEAN
    BY <2>3 DEF ExternalOperations
  <2>5. ~ops[n + i].when
    BY <2>1, <2>2 DEF WellFormedExternal
  <2>6. ops[n + i].qubits = <<i - 1>> /\ ops[n + i].bit = i - 1
    BY DEF InOrder
  <2> HIDE DEF b, ops
  <2>7. QED
    BY <1>4, <2>2, <2>4, <2>5, <2>6
<1>7. ExternalProjection(circuit).gates = [i \in 1 .. n |-> <<ops[i].gate, ops[i].qubits>>]
  <2>1. Gates(circuit) = [i \in 1 .. n |-> <<ops[i].gate, ops[i].qubits>>]
    BY <1>1, SplitFacts
  <2>2. QED
    BY <2>1 DEF ExternalProjection
<1> HIDE DEF c, b
<1>8. ASSUME NEW i \in 1 .. Len(c)
      PROVE  c[i].gate \in Executable /\ c[i].qubits \in Seq(Nat) /\ c[i].when \in BOOLEAN /\ ~c[i].when
  <2>1. c[i] \in S
    BY <1>3, ElementOfSeq
  <2>2. c[i].qubits \in Seq(Nat) /\ c[i].when \in BOOLEAN
    BY <2>1 DEF ExternalOperations
  <2>3. QED
    BY <1>2, <1>3, <2>2
<1>9. /\ a \in Seq(S) /\ Len(a) = Len(c)
      /\ \A i \in 1 .. Len(c) :
            /\ a[i].gate = c[i].gate /\ a[i].qubits = c[i].qubits /\ a[i].when = FALSE
            /\ a[i].gate \in Executable
  BY <1>3, <1>8, PlainGates
<1>10. WithMeasurements(c \o b, w) = a \o b
  <2>1. \A i \in 1 .. Len(b) : b[i].gate = "measure"
    BY <1>4, <1>6
  <2> HIDE DEF S, w
  <2>2. QED
    BY <1>3, <1>4, <1>9, <2>1, SpelledMeasures
<1> HIDE DEF a, w, ops, N
<1>11. ExternalProjection(circuit).gates = [i \in 1 .. Len(a) |-> <<a[i].gate, a[i].qubits>>]
  BY <1>3, <1>7, <1>9
<1>12. Spelling(WithMeasurements(ops, w), ExternalProjection(circuit).gates, w, a, b)
  BY <1>4, <1>5, <1>6, <1>9, <1>10, <1>11 DEF Spelling
<1>13. QED
  BY <1>12 DEF ops, w

\* Circuits in full whose gates do the same do the same, measurements and all.
LEMMA SpellingsAgree ==
  ASSUME NEW left, NEW right, NEW p, NEW q, p.width = q.width,
         NEW a, NEW b, Spelling(left, p.gates, p.width, a, b),
         NEW c, NEW d, Spelling(right, q.gates, p.width, c, d),
         Unitary(p) = Unitary(q)
  PROVE  /\ Meaning(p.width, left) = Meaning(p.width, right)
         /\ BitsOf(Measurements(left)) = BitsOf(Measurements(right))
<1> DEFINE S == ExternalOperations
           w == p.width
           met == Untouched(w)
<1>1. /\ a \in Seq(S) /\ b \in Seq(S) /\ left = a \o b /\ Len(b) = w
      /\ \A i \in 1 .. Len(a) : a[i].gate \in Executable /\ a[i].when = FALSE
      /\ p.gates = [i \in 1 .. Len(a) |-> <<a[i].gate, a[i].qubits>>]
  BY DEF Spelling
<1>2. /\ c \in Seq(S) /\ d \in Seq(S) /\ right = c \o d /\ Len(d) = w
      /\ \A i \in 1 .. Len(c) : c[i].gate \in Executable /\ c[i].when = FALSE
      /\ q.gates = [i \in 1 .. Len(c) |-> <<c[i].gate, c[i].qubits>>]
  BY DEF Spelling
<1>3. \A i \in 1 .. w : /\ b[i].gate = "measure" /\ d[i].gate = "measure" /\ b[i].qubits = d[i].qubits
                        /\ b[i].when = d[i].when /\ b[i].bit = d[i].bit
  BY DEF Spelling
<1> HIDE DEF S
<1>4. Unitary(p) = After(w, met, a)
  BY <1>1, UnitaryIs
<1>5. Unitary(q) = After(q.width, Untouched(q.width), c)
  BY <1>2, UnitaryIs
<1>6. After(w, met, a) = After(w, met, c)
  BY <1>4, <1>5
<1> HIDE DEF met, w
<1>7. After(w, met, a \o b) = After(w, met, c \o d)
  <2>1. /\ Len(b) = Len(d)
        /\ \A i \in 1 .. Len(b) : b[i].gate = d[i].gate /\ b[i].qubits = d[i].qubits /\ b[i].when = d[i].when
    BY <1>1, <1>2, <1>3
  <2>2. a \in Seq(S) /\ b \in Seq(S) /\ c \in Seq(S) /\ d \in Seq(S)
    BY <1>1, <1>2
  <2>3. After(w, met, a \o b) = After(w, After(w, met, a), b) /\ After(w, met, c \o d) = After(w, After(w, met, c), d)
    BY <2>2, AfterConcat
  <2>4. \A now : After(w, now, b) = After(w, now, d)
    BY <2>1, <2>2, AfterSame
  <2>5. QED
    BY <1>6, <2>3, <2>4
<1>8. Measurements(left) = b
  <2>1. /\ \A i \in 1 .. Len(a) : a[i].gate \in Executable /\ ~a[i].when
        /\ \A i \in 1 .. Len(b) : b[i].gate = "measure"
    BY <1>1, <1>3
  <2>2. QED
    BY <1>1, <2>1, MeasurementsLast
<1>9. Measurements(right) = d
  <2>1. /\ \A i \in 1 .. Len(c) : c[i].gate \in Executable /\ ~c[i].when
        /\ \A i \in 1 .. Len(d) : d[i].gate = "measure"
    BY <1>2, <1>3
  <2>2. QED
    BY <1>2, <2>1, MeasurementsLast
<1>10. BitsOf(b) = BitsOf(d)
  <2>1. DOMAIN b = 1 .. w /\ DOMAIN d = 1 .. w
    BY <1>1, <1>2
  <2>2. QED
    BY <1>3, <2>1 DEF BitsOf
<1>11. Meaning(w, left) = Meaning(w, right)
  BY <1>1, <1>2, <1>7 DEF met, Meaning
<1>12. QED
  BY <1>8, <1>9, <1>10, <1>11 DEF w

\* What a worker is given is a projection.
LEMMA SpellingProjects ==
  ASSUME NEW full, NEW p, NEW a, NEW b, p = [width |-> p.width, gates |-> p.gates], p.width \in Nat,
         Spelling(full, p.gates, p.width, a, b)
  PROVE  p \in Projections
<1> DEFINE g == p.gates
           T == Executable \X Seq(Nat)
           n == Len(a)
<1>1. /\ a \in Seq(ExternalOperations) /\ \A i \in 1 .. n : a[i].gate \in Executable
      /\ g = [i \in 1 .. n |-> <<a[i].gate, a[i].qubits>>] /\ n \in Nat
  BY DEF Spelling
<1>2. ASSUME NEW i \in 1 .. n PROVE <<a[i].gate, a[i].qubits>> \in T
  <2>1. a[i] \in ExternalOperations
    BY <1>1, ElementOfSeq
  <2>2. a[i].qubits \in Seq(Nat)
    BY <2>1 DEF ExternalOperations
  <2>3. QED
    BY <1>1, <2>2
<1> HIDE DEF T, n, g
<1>3. g \in Seq(T)
  BY <1>1, <1>2
<1>4. QED
  BY <1>3 DEF Projections, g, T

\* What is found of the two sources, and what is built of it.
NativeAdmitted ==
  [native   |-> IF nativeSource = Unparsed THEN Error(TRUE, "native_parse_error", "UNSUPPORTED")
                ELSE AdmitNative(nativeSource),
   external |-> IF externalSource = Unparsed THEN Error(TRUE, "external_parse_error", "UNSUPPORTED")
                ELSE AdmitExternal(externalSource),
   pair     |-> AdmitPair]

NativeSent ==
  AllErrors = {} /\ sent = <<Projection(nativeSource), ExternalProjection(externalSource)>>

NativeGraph ==
  [represents |-> [native |-> nativeSource # Unparsed, external |-> externalSource # Unparsed],
   projections |-> [role \in {"native", "external"} |-> ProjectionStatus(role)],
   execution |-> execution, status |-> outcome, supported |-> outcome = "PASS"]

\* The inductive invariant.
NativeStages ==
  /\ nativeSource \in Natives \cup {Unparsed} /\ externalSource \in Externals \cup {Unparsed}
  /\ pc = "admit" => errors = None
  /\ pc # "admit" => errors = NativeAdmitted
  /\ pc \in {"admit", "execute", "assess"} => sent = None /\ opinion = None /\ outcome = None
  /\ pc = "evaluate" => NativeSent /\ outcome = None
  /\ pc \in {"build", "built"} =>
       /\ AllErrors = {} => NativeSent
       /\ AllErrors # {} => sent = None /\ outcome # "PASS"
  /\ outcome = "PASS" => opinion = "PASS" /\ NativeSent
  /\ opinion = "PASS" =>
       sent[1].width = sent[2].width /\ Unitary(sent[1]) = Unitary(sent[2])

NativeInv == NativeStages /\ (graph # None => pc = "built" /\ graph = NativeGraph)

-----------------------------------------------------------------------------
LEMMA NativeStands ==
  ASSUME UNCHANGED <<nativeSource, externalSource, errors>>
  PROVE  /\ NativeAdmitted' = NativeAdmitted /\ AllErrors' = AllErrors
         /\ sent' = sent => NativeSent' = NativeSent
<1>1. nativeSource' = nativeSource /\ externalSource' = externalSource /\ errors' = errors
  OBVIOUS
<1>2. AllErrors' = AllErrors
  BY <1>1 DEF AllErrors
<1>3. AdmitPair' = AdmitPair
  BY <1>1, Zenon DEF AdmitPair
<1>4. NativeAdmitted' = NativeAdmitted
  BY <1>1, <1>3, Zenon DEF NativeAdmitted
<1>5. sent' = sent => NativeSent' = NativeSent
  BY <1>1, <1>2, Zenon DEF NativeSent
<1>6. QED
  BY <1>2, <1>4, <1>5

LEMMA NativeNone ==
  /\ None # "PASS" /\ None \notin Projections \X Projections
  /\ Unparsed \notin Natives /\ Unparsed \notin Externals
  /\ \A prog \in Natives : prog \in ProgramRecords
  /\ \A circuit \in Externals : WellFormedExternal(circuit)
BY NativeExternalAssumption DEF Statuses, WellFormed

LEMMA NativeNeverPass == \A found : WorstOf(found) \in {"BLOCKED", "UNSUPPORTED"}
BY DEF WorstOf

LEMMA NativeInit ==
  ASSUME ComparisonInit
  PROVE  NativeInv
BY NativeNone DEF ComparisonInit, Check!Init, NativeInv, NativeStages

LEMMA NativeAdmits ==
  ASSUME NativeInv, AdmitSources
  PROVE  NativeInv'
<1>1. /\ pc = "admit" /\ pc' = "execute" /\ errors' = NativeAdmitted
      /\ UNCHANGED <<nativeSource, externalSource, seeded, execution, sent, opinion, outcome, graph>>
  BY DEF AdmitSources, Advance, sources, NativeAdmitted
<1>2. NativeAdmitted' = NativeAdmitted
  <2>1. nativeSource' = nativeSource /\ externalSource' = externalSource
    BY <1>1
  <2>2. AdmitPair' = AdmitPair
    BY <2>1, Zenon DEF AdmitPair
  <2>3. QED
    BY <2>1, <2>2, Zenon DEF NativeAdmitted
<1>3. outcome' # "PASS" /\ opinion' # "PASS"
  BY <1>1, NativeNone DEF NativeInv, NativeStages
<1>4. QED
  BY <1>1, <1>2, <1>3 DEF NativeInv, NativeStages

LEMMA NativeAssesses ==
  ASSUME NativeInv,
         ExecuteNative \/ SkipExecution \/ AssessAdmission \/ SendPrefixes
           \/ BackendAnswers \/ Compare \/ CompareRaises
  PROVE  NativeInv'
<1>1. UNCHANGED <<nativeSource, externalSource, errors, graph>>
  BY DEF ExecuteNative, SkipExecution, AssessAdmission, SendPrefixes,
         BackendAnswers, Compare, CompareRaises, Advance, sources
<1>2. /\ NativeAdmitted' = NativeAdmitted /\ AllErrors' = AllErrors
      /\ sent' = sent => NativeSent' = NativeSent
  BY <1>1, NativeStands
<1>3. graph' # None => pc' = "built" /\ (graph = NativeGraph)'
  <2>1. pc # "built" /\ pc # "admit"
    BY DEF ExecuteNative, SkipExecution, AssessAdmission, SendPrefixes,
         BackendAnswers, Compare, CompareRaises
  <2>2. QED
    BY <1>1, <2>1 DEF NativeInv
<1>4. CASE ExecuteNative \/ SkipExecution
  <2>1. pc = "execute" /\ pc' \in {"assess", "raised"} /\ UNCHANGED <<sent, opinion, outcome>>
    BY <1>4 DEF ExecuteNative, SkipExecution, Advance
  <2>2. NativeStages'
    BY <1>1, <1>2, <2>1, NativeNone DEF NativeInv, NativeStages
  <2>3. QED
    BY <1>3, <2>2 DEF NativeInv
<1>5. CASE AssessAdmission
  <2>1. /\ pc = "assess" /\ pc' = "build" /\ AllErrors # {} /\ outcome' = WorstOf(AllErrors)
        /\ UNCHANGED <<sent, opinion>>
    BY <1>5 DEF AssessAdmission, Advance
  <2>2. outcome' # "PASS"
    BY <2>1, NativeNeverPass
  <2>3. NativeStages'
    BY <1>1, <1>2, <2>1, <2>2, NativeNone DEF NativeInv, NativeStages
  <2>4. QED
    BY <1>3, <2>3 DEF NativeInv
<1>6. CASE SendPrefixes
  <2>1. /\ pc = "assess" /\ pc' = "evaluate" /\ AllErrors = {}
        /\ sent' = <<Projection(nativeSource), ExternalProjection(externalSource)>>
        /\ UNCHANGED <<opinion, outcome>>
    BY <1>6 DEF SendPrefixes, Advance
  <2>2. NativeSent'
    <3>1. nativeSource' = nativeSource /\ externalSource' = externalSource
      BY <1>1
    <3>2. QED
      BY <1>2, <2>1, <3>1, Zenon DEF NativeSent
  <2>3. outcome' # "PASS" /\ opinion' # "PASS"
    BY <2>1, NativeNone DEF NativeInv, NativeStages
  <2>4. NativeStages'
    BY <1>1, <1>2, <2>1, <2>2, <2>3 DEF NativeInv, NativeStages
  <2>5. QED
    BY <1>3, <2>4 DEF NativeInv
<1>7. CASE BackendAnswers
  <2>1. /\ pc = "evaluate" /\ pc' = pc /\ UNCHANGED <<sent, outcome>>
        /\ opinion' = "PASS" => sent[1].width = sent[2].width /\ Unitary(sent[1]) = Unitary(sent[2])
    BY <1>7 DEF BackendAnswers, SameUnitary, Check!FormOpinion
  <2>2. NativeSent' /\ outcome' = None
    BY <1>2, <2>1 DEF NativeInv, NativeStages
  <2>3. (opinion = "PASS" =>
           sent[1].width = sent[2].width /\ Unitary(sent[1]) = Unitary(sent[2]))'
    <3>1. sent' = sent
      BY <2>1
    <3>2. QED
      BY <2>1, <3>1, Zenon
  <2>4. NativeStages'
    BY <1>1, <1>2, <2>1, <2>2, <2>3, NativeNone DEF NativeInv, NativeStages
  <2>5. QED
    BY <1>3, <2>4 DEF NativeInv
<1>8. CASE Compare \/ CompareRaises
  <2>1. /\ pc = "evaluate" /\ pc' \in {"build", "raised"} /\ UNCHANGED <<sent, opinion>>
        /\ outcome' \in {"BLOCKED", "UNSUPPORTED", "NOT_ASSESSED", outcome} \cup ({opinion} \ {None})
    BY <1>8 DEF Compare, CompareRaises, Check!Conclude, Fallbacks, Advance
  <2>2. NativeSent' /\ AllErrors' = {}
    BY <1>2, <2>1 DEF NativeInv, NativeStages, NativeSent
  <2>3. outcome' = "PASS" => opinion' = "PASS"
    BY <2>1, NativeNone DEF NativeInv, NativeStages
  <2>4. (opinion = "PASS" =>
           sent[1].width = sent[2].width /\ Unitary(sent[1]) = Unitary(sent[2]))'
    <3>1. sent' = sent /\ opinion' = opinion
      BY <2>1
    <3>2. QED
      BY <3>1 DEF NativeInv, NativeStages
  <2>5. NativeStages'
    BY <1>1, <1>2, <2>1, <2>2, <2>3, <2>4 DEF NativeInv, NativeStages
  <2>6. QED
    BY <1>3, <2>5 DEF NativeInv
<1>9. QED
  BY <1>4, <1>5, <1>6, <1>7, <1>8

LEMMA NativeEnds ==
  ASSUME NativeInv, BuildClaim \/ UNCHANGED comparisonVars
  PROVE  NativeInv'
<1>1. UNCHANGED <<nativeSource, externalSource, errors, execution, sent, opinion, outcome>>
  BY DEF BuildClaim, comparisonVars, Advance, sources
<1>2. /\ NativeAdmitted' = NativeAdmitted /\ AllErrors' = AllErrors
      /\ NativeSent' = NativeSent
  BY <1>1, NativeStands
<1>3. NativeGraph' = NativeGraph
  <2>1. \A role : ProjectionStatus(role)' = ProjectionStatus(role)
    BY <1>1 DEF ProjectionStatus, WorstOf
  <2>2. QED
    BY <1>1, <2>1 DEF NativeGraph
<1>4. (opinion = "PASS" =>
         sent[1].width = sent[2].width /\ Unitary(sent[1]) = Unitary(sent[2]))'
  <2>1. sent' = sent /\ opinion' = opinion
    BY <1>1
  <2>2. QED
    BY <2>1 DEF NativeInv, NativeStages
<1>5. CASE BuildClaim
  <2>1. pc = "build" /\ pc' = "built" /\ graph' = NativeGraph
    BY <1>5, Zenon DEF BuildClaim, Advance, NativeGraph
  <2>2. NativeStages'
    BY <1>1, <1>2, <1>4, <2>1 DEF NativeInv, NativeStages
  <2>3. QED
    BY <1>3, <2>1, <2>2 DEF NativeInv
<1>6. CASE UNCHANGED comparisonVars
  <2>1. pc' = pc /\ graph' = graph
    BY <1>6 DEF comparisonVars
  <2>2. NativeStages'
    BY <1>1, <1>2, <1>4, <2>1 DEF NativeInv, NativeStages
  <2>3. QED
    BY <1>3, <2>1, <2>2 DEF NativeInv
<1>7. QED
  BY <1>5, <1>6

LEMMA NativeHolds == ComparisonSpec => []NativeInv
<1>1. ComparisonInit => NativeInv
  BY NativeInit
<1>2. NativeInv /\ [ComparisonNext]_(comparisonVars) => NativeInv'
  BY NativeAdmits, NativeAssesses, NativeEnds DEF ComparisonNext, ComparisonOver
<1>3. QED
  BY <1>1, <1>2, PTL DEF ComparisonSpec

\* Both sources admitted, and as a pair: both parse, and are in their subsets.
LEMMA NativeAdmission ==
  ASSUME NativeInv, errors = NativeAdmitted
  PROVE  AllErrors = {} <=>
           /\ nativeSource # Unparsed /\ externalSource # Unparsed
           /\ InCommonSubset(nativeSource) /\ ExternalInSubset(externalSource) /\ nativeSource.width = externalSource.width
<1> DEFINE E1 == errors.native
           E2 == errors.external
           E3 == errors.pair
<1>1. AllErrors = {} <=> E1 = {} /\ E2 = {} /\ E3 = {}
  BY DEF AllErrors
<1>2. /\ E1 = (IF nativeSource = Unparsed THEN Error(TRUE, "native_parse_error", "UNSUPPORTED")
               ELSE AdmitNative(nativeSource))
      /\ E2 = (IF externalSource = Unparsed THEN Error(TRUE, "external_parse_error", "UNSUPPORTED")
               ELSE AdmitExternal(externalSource))
      /\ E3 = AdmitPair
  BY DEF NativeAdmitted
<1>3. /\ Error(TRUE, "native_parse_error", "UNSUPPORTED") # {}
      /\ Error(TRUE, "external_parse_error", "UNSUPPORTED") # {}
  BY DEF Error
<1> HIDE DEF E1, E2, E3
<1>4. CASE nativeSource = Unparsed
  BY <1>1, <1>2, <1>3, <1>4
<1>5. CASE externalSource = Unparsed
  BY <1>1, <1>2, <1>3, <1>5
<1>6. CASE nativeSource # Unparsed /\ externalSource # Unparsed
  <2>1. nativeSource \in ProgramRecords /\ WellFormedExternal(externalSource)
    BY <1>6, NativeNone DEF NativeInv, NativeStages
  <2>2. E1 = {} <=> InCommonSubset(nativeSource)
    BY <1>2, <1>6, <2>1, AdmittedIsCommon
  <2>3. E2 = {} <=> ExternalInSubset(externalSource)
    BY <1>2, <1>6, <2>1, ExternalAdmittedIsSubset, SubsetInOrder
  <2>4. E2 = {} => Measured(externalSource) = Identity(externalSource.width)
    BY <1>2, <1>6, <2>1, ExternalAdmittedIsSubset
  <2>5. E3 = {} <=>
          /\ ~(~externalSource.single \/ nativeSource.width # externalSource.width)
          /\ ~(~externalSource.single \/ nativeSource.bits # externalSource.bits)
          /\ ~(~externalSource.single \/ Identity(nativeSource.width) # Measured(externalSource))
    <3> DEFINE P1 == Error(~externalSource.single \/ nativeSource.width # externalSource.width,
                                  "quantum_width_mismatch", "UNSUPPORTED")
               P2 == Error(~externalSource.single \/ nativeSource.bits # externalSource.bits,
                                  "classical_width_mismatch", "UNSUPPORTED")
               P3 == Error(~externalSource.single \/ Identity(nativeSource.width) # Measured(externalSource),
                                  "measurement_mapping_mismatch", "UNSUPPORTED")
    <3>1. AdmitPair = P1 \cup P2 \cup P3
      BY <1>6, Zenon DEF AdmitPair
    <3>2. P1 = {} <=> ~(~externalSource.single \/ nativeSource.width # externalSource.width)
      BY DEF Error
    <3>3. P2 = {} <=> ~(~externalSource.single \/ nativeSource.bits # externalSource.bits)
      BY DEF Error
    <3>4. P3 = {} <=> ~(~externalSource.single \/ Identity(nativeSource.width) # Measured(externalSource))
      BY DEF Error
    <3> HIDE DEF P1, P2, P3
    <3>5. E3 = {} <=> P1 = {} /\ P2 = {} /\ P3 = {}
      BY <1>2, <3>1
    <3>6. QED
      BY <3>2, <3>3, <3>4, <3>5, Zenon
  <2>6. ASSUME E1 = {}, E2 = {} PROVE E3 = {} <=> nativeSource.width = externalSource.width
    <3>1. nativeSource.bits = nativeSource.width /\ externalSource.bits = externalSource.width /\ externalSource.single
      BY <2>2, <2>3, <2>6 DEF InCommonSubset, ExternalInSubset
    <3>2. Measured(externalSource) = Identity(externalSource.width)
      BY <2>4, <2>6
    <3>3. QED
      BY <2>5, <3>1, <3>2
  <2>7. QED
    BY <1>1, <1>6, <2>2, <2>3, <2>6
<1>7. QED
  BY <1>4, <1>5, <1>6

\* A worker is given two projections, of circuits in their subsets.
LEMMA NativeSentFacts ==
  ASSUME NativeInv, errors = NativeAdmitted, NativeSent
  PROVE  /\ sent # None /\ nativeSource.width = externalSource.width
         /\ nativeSource # Unparsed /\ externalSource # Unparsed
         /\ Unitary(sent[1]) = Unitary(sent[2]) =>
              LET left  == WithMeasurements(nativeSource.operations, nativeSource.width)
                  right == WithMeasurements(externalSource.operations, externalSource.width)
              IN  /\ Meaning(nativeSource.width, left) = Meaning(externalSource.width, right)
                  /\ BitsOf(Measurements(left)) = BitsOf(Measurements(right))
<1> DEFINE p == Projection(nativeSource)
           q == ExternalProjection(externalSource)
           left  == WithMeasurements(nativeSource.operations, nativeSource.width)
           right == WithMeasurements(externalSource.operations, externalSource.width)
<1>1. /\ nativeSource # Unparsed /\ externalSource # Unparsed
      /\ InCommonSubset(nativeSource) /\ ExternalInSubset(externalSource) /\ nativeSource.width = externalSource.width
  BY NativeAdmission DEF NativeSent
<1>2. nativeSource \in ProgramRecords /\ WellFormedExternal(externalSource)
  BY <1>1, NativeNone DEF NativeInv, NativeStages
<1>3. sent = <<p, q>>
  BY DEF NativeSent
<1>4. p = [width |-> p.width, gates |-> p.gates] /\ p.width = nativeSource.width
  BY DEF Projection
<1>5. q = [width |-> q.width, gates |-> q.gates] /\ q.width = externalSource.width
  BY DEF ExternalProjection
<1>6. p.width \in Nat /\ q.width \in Nat
  BY <1>2, <1>4, <1>5 DEF ProgramRecords, WellFormedExternal
<1>7. PICK n \in Nat : InOrder(externalSource, n)
  BY <1>1, <1>2, SubsetInOrder
<1>8. \E a, b : Spelling(left, p.gates, nativeSource.width, a, b)
  BY <1>1, <1>2, NativeSpelled
<1>9. \E c, d : Spelling(right, q.gates, externalSource.width, c, d)
  BY <1>2, <1>7, ExternalSpelled
<1> HIDE DEF p, q, left, right
<1>10. PICK a, b : Spelling(left, p.gates, p.width, a, b)
  BY <1>4, <1>8
<1>11. PICK c, d : Spelling(right, q.gates, q.width, c, d)
  BY <1>5, <1>9
<1>12. p \in Projections
  BY <1>4, <1>6, <1>10, SpellingProjects
<1>13. q \in Projections
  BY <1>5, <1>6, <1>11, SpellingProjects
<1>14. sent # None
  BY <1>3, <1>12, <1>13, NativeNone
<1>15. ASSUME Unitary(p) = Unitary(q)
       PROVE  /\ Meaning(nativeSource.width, left) = Meaning(externalSource.width, right)
              /\ BitsOf(Measurements(left)) = BitsOf(Measurements(right))
  <2>1. p.width = q.width /\ Spelling(right, q.gates, p.width, c, d)
    BY <1>1, <1>4, <1>5, <1>11
  <2>2. Meaning(p.width, left) = Meaning(p.width, right)
    BY <1>10, <1>15, <2>1, SpellingsAgree
  <2>3. BitsOf(Measurements(left)) = BitsOf(Measurements(right))
    BY <1>10, <1>15, <2>1, SpellingsAgree
  <2>4. QED
    BY <1>1, <1>4, <2>2, <2>3
<1>16. QED
  BY <1>1, <1>3, <1>14, <1>15 DEF left, right

\* Admission, rule by rule and as a pair, amounts to the declared subset, and the
\* projections that look evaluated are those a worker was given.
THEOREM NativeAdmissionIsTheSubset == ComparisonSpec => []AdmissionIsTheSubset
<1>1. NativeInv => AdmissionIsTheSubset
  <2> SUFFICES ASSUME NativeInv, errors # None
               PROVE  /\ AllErrors = {} <=> /\ nativeSource # Unparsed /\ externalSource # Unparsed
                                                   /\ InCommonSubset(nativeSource)
                                                   /\ ExternalInSubset(externalSource)
                                                   /\ nativeSource.width = externalSource.width
                      /\ graph # None => ((\A role \in {"native", "external"} : graph.projections[role] = "PASS")
                                            <=> sent # None)
    BY DEF AdmissionIsTheSubset
  <2>1. errors = NativeAdmitted
    BY DEF NativeInv, NativeStages
  <2>2. AllErrors = {} <=> /\ nativeSource # Unparsed /\ externalSource # Unparsed
                                  /\ InCommonSubset(nativeSource)
                                  /\ ExternalInSubset(externalSource)
                                  /\ nativeSource.width = externalSource.width
    BY <2>1, NativeAdmission
  <2>3. ASSUME graph # None
        PROVE  (\A role \in {"native", "external"} : graph.projections[role] = "PASS") <=> sent # None
    <3>1. pc = "built" /\ graph = NativeGraph
      BY <2>3 DEF NativeInv
    <3>2. \A role \in {"native", "external"} : graph.projections[role] = ProjectionStatus(role)
      BY <3>1 DEF NativeGraph
    <3>3. \A role : ProjectionStatus(role) = "PASS" <=> errors[role] = {} /\ errors.pair = {}
      <4>1. \A role : ProjectionStatus(role) = "PASS" <=> errors[role] \cup errors.pair = {}
        BY NativeNeverPass, Zenon DEF ProjectionStatus
      <4>2. QED
        BY <4>1
    <3>4. (\A role \in {"native", "external"} : graph.projections[role] = "PASS") <=> AllErrors = {}
      BY <3>2, <3>3 DEF AllErrors
    <3>5. AllErrors = {} => sent # None
      BY <2>1, <3>1, NativeSentFacts DEF NativeInv, NativeStages
    <3>6. AllErrors # {} => sent = None
      BY <3>1 DEF NativeInv, NativeStages
    <3>7. QED
      BY <3>4, <3>5, <3>6
  <2>4. QED
    BY <2>2, <2>3
<1>2. QED
  BY <1>1, NativeHolds, PTL

\* A supported claim is about circuits that are the same in full.
THEOREM NativeClaimHolds == ComparisonSpec => []ClaimHoldsInFull
<1>1. NativeInv => ClaimHoldsInFull
  <2> DEFINE left  == WithMeasurements(nativeSource.operations, nativeSource.width)
             right == WithMeasurements(externalSource.operations, externalSource.width)
  <2> SUFFICES ASSUME NativeInv, graph # None, graph.supported
               PROVE  /\ opinion = "PASS" /\ nativeSource.width = externalSource.width
                      /\ Meaning(nativeSource.width, left) = Meaning(externalSource.width, right)
                      /\ BitsOf(Measurements(left)) = BitsOf(Measurements(right))
                      /\ graph.represents.native /\ graph.represents.external
    BY Zenon DEF ClaimHoldsInFull
  <2>1. pc = "built" /\ graph = NativeGraph
    BY DEF NativeInv
  <2>2. outcome = "PASS"
    BY <2>1 DEF NativeGraph
  <2>3. opinion = "PASS" /\ NativeSent /\ errors = NativeAdmitted
    BY <2>1, <2>2 DEF NativeInv, NativeStages
  <2>4. Unitary(sent[1]) = Unitary(sent[2])
    BY <2>3 DEF NativeInv, NativeStages
  <2>5. /\ nativeSource.width = externalSource.width /\ nativeSource # Unparsed /\ externalSource # Unparsed
        /\ Meaning(nativeSource.width, left) = Meaning(externalSource.width, right)
        /\ BitsOf(Measurements(left)) = BitsOf(Measurements(right))
    BY <2>3, <2>4, NativeSentFacts
  <2>6. graph.represents.native /\ graph.represents.external
    BY <2>1, <2>5 DEF NativeGraph
  <2>7. QED
    BY <2>3, <2>5, <2>6
<1>2. QED
  BY <1>1, NativeHolds, PTL

\* However a comparison ends, its check is an isolated one.
THEOREM NativeChecksOnce == ComparisonSpec => Check!Spec
<1>1. ComparisonInit => Check!Init
  BY DEF ComparisonInit
<1>2. NativeInv /\ [ComparisonNext]_(comparisonVars) => [Check!Next]_<<opinion, outcome>>
  <2> SUFFICES ASSUME NativeInv, [ComparisonNext]_(comparisonVars) PROVE [Check!Next]_<<opinion, outcome>>
    OBVIOUS
  <2>1. CASE AssessAdmission
    <3>1. outcome = None /\ outcome' = WorstOf(AllErrors) /\ opinion' = opinion
      BY <2>1 DEF AssessAdmission, NativeInv, NativeStages
    <3>2. QED
      BY <3>1, NativeNeverPass DEF Check!Next, Check!Conclude, Fallbacks
  <2>2. CASE BackendAnswers \/ Compare
    BY <2>2 DEF BackendAnswers, Compare, Check!Next
  <2>3. CASE ~(AssessAdmission \/ BackendAnswers \/ Compare)
    <3>1. UNCHANGED <<opinion, outcome>>
      BY <2>3 DEF ComparisonNext, AdmitSources, ExecuteNative, SkipExecution, SendPrefixes,
                  CompareRaises, BuildClaim, ComparisonOver, comparisonVars
    <3>2. QED
      BY <3>1
  <2>4. QED
    BY <2>1, <2>2, <2>3
<1>3. QED
  BY <1>1, <1>2, NativeHolds, PTL DEF ComparisonSpec, Check!Spec

-----------------------------------------------------------------------------
(* The comparison of two external circuits.                                *)

WasCaptured(role) == captured[role] \in Bytes
BothCaptured == \A role \in Roles : WasCaptured(role)

\* The control point says what has been done.
PairStages ==
  /\ pc \in {"capture_right", "parse", "evaluate", "build", "write", "done"} => WasCaptured("left")
  /\ pc \in {"parse", "evaluate", "build", "write", "done"} => WasCaptured("right")
  /\ pc \notin {"start", "refused"} => SafeOutput
  /\ pc \in {"start", "capture_left", "capture_right", "parse"} =>
       seen = NoBytes /\ opinion = None
  /\ pc \in {"start", "capture_left", "capture_right", "parse", "evaluate"} =>
       outcome = None /\ graph = None
  /\ pc = "evaluate" => snapshots = captured /\ BothParse(captured)
  /\ pc = "build" => outcome \in Statuses
  /\ pc = "write" => graph # None

\* The worker has read nothing but copies of what was captured, its opinion is of
\* both of them, and only it passes them.
OfTheCapture ==
  /\ \A role \in Roles : seen[role] # None => seen[role] = captured[role]
  /\ opinion = "PASS" =>
       /\ \A role \in Roles : seen[role] # None
       /\ <<captured.left, captured.right>> \in Equivalent
       /\ BothParse(captured)
  /\ outcome = "PASS" => opinion = "PASS"
  /\ graph # None => BothCaptured /\ graph = PairGraphOf(captured, outcome)

\* The inductive invariant.
PairInv == TypeOK /\ PairStages /\ OfTheCapture

-----------------------------------------------------------------------------
LEMMA RoleSet == Roles = {"left", "right"} /\ "left" \in Roles /\ "right" \in Roles
BY DEF Roles

LEMMA NoBytesAreNone == None \notin Bytes /\ None \notin Statuses /\ None \notin Graphs /\ None # "PASS"
BY NoneAssumption DEF Statuses

\* A complete graph has the type of one.
LEMMA PairGraphType ==
  ASSUME NEW raw \in [Roles -> Bytes], NEW status \in Statuses
  PROVE  PairGraphOf(raw, status) \in Graphs
BY DEF PairGraphOf, Graphs

LEMMA PairInitInv == PairInit => PairInv
<1> SUFFICES ASSUME PairInit PROVE PairInv
  OBVIOUS
<1>1. NoBytes \in [Roles -> Bytes \cup {None}] /\ \A role \in Roles : NoBytes[role] = None
  BY DEF NoBytes
<1>2. TypeOK
  BY <1>1 DEF PairInit, Check!Init, TypeOK
<1>3. PairStages
  BY DEF PairInit, Check!Init, PairStages
<1>4. OfTheCapture
  BY <1>1, NoBytesAreNone DEF PairInit, Check!Init, OfTheCapture
<1>5. QED
  BY <1>2, <1>3, <1>4 DEF PairInv

-----------------------------------------------------------------------------
(* One step at a time.                                                     *)

LEMMA CaptureInv ==
  ASSUME PairInv, NEW role \in Roles, NEW from, NEW next,
         \/ role = "left" /\ from = "capture_left" /\ next = "capture_right"
         \/ role = "right" /\ from = "capture_right" /\ next = "parse",
         Capture(role, from, next)
  PROVE  PairInv'
<1>1. /\ pc = from /\ seen = NoBytes /\ opinion = None /\ outcome = None /\ graph = None
      /\ UNCHANGED <<request, disk, snapshots, seen, opinion, outcome, graph>>
  BY DEF Capture, Proceed, PairInv, PairStages
<1>2. CASE /\ disk[request.file[role]] \in Bytes
           /\ captured' = [captured EXCEPT ![role] = disk[request.file[role]]] /\ pc' = next
  <2>1. /\ captured' \in [Roles -> Bytes \cup {None}] /\ captured'[role] \in Bytes
        /\ \A other \in Roles \ {role} : captured'[other] = captured[other]
    BY <1>2 DEF PairInv, TypeOK
  <2>2. TypeOK'
    BY <1>1, <1>2, <2>1 DEF PairInv, TypeOK
  <2>3. PairStages'
    BY <1>1, <1>2, <2>1, RoleSet DEF PairInv, PairStages, WasCaptured, SafeOutput, Inputs
  <2>4. OfTheCapture'
    BY <1>1, NoBytesAreNone DEF PairInv, OfTheCapture, NoBytes
  <2>5. QED
    BY <2>2, <2>3, <2>4 DEF PairInv
<1>3. CASE UNCHANGED captured /\ pc' = "refused"
  <2>1. TypeOK'
    BY <1>1, <1>3 DEF PairInv, TypeOK
  <2>2. PairStages' /\ OfTheCapture'
    BY <1>1, <1>3, NoBytesAreNone DEF PairInv, PairStages, OfTheCapture, NoBytes
  <2>3. QED
    BY <2>1, <2>2 DEF PairInv
<1>4. QED
  BY <1>2, <1>3 DEF Capture, Proceed

LEMMA WorkerReadsInv ==
  ASSUME PairInv, NEW role \in Roles, WorkerReads(role)
  PROVE  PairInv'
<1>1. /\ pc = "evaluate" /\ seen[role] = None /\ snapshots = captured
      /\ seen' = [seen EXCEPT ![role] = captured[role]]
      /\ UNCHANGED <<request, disk, captured, snapshots, opinion, outcome, graph, pc>>
  BY DEF WorkerReads, WorkerInput, PairInv, PairStages
<1>2. /\ seen' \in [Roles -> Bytes \cup {None}] /\ seen'[role] = captured[role]
      /\ \A other \in Roles \ {role} : seen'[other] = seen[other]
  BY <1>1 DEF PairInv, TypeOK
<1>3. TypeOK'
  BY <1>1, <1>2 DEF PairInv, TypeOK
<1>4. PairStages'
  BY <1>1 DEF PairInv, PairStages, WasCaptured, SafeOutput, Inputs, BothParse
<1>5. OfTheCapture'
  BY <1>1, <1>2 DEF PairInv, OfTheCapture, BothCaptured, WasCaptured, BothParse
<1>6. QED
  BY <1>3, <1>4, <1>5 DEF PairInv

LEMMA WorkerJudgesInv ==
  ASSUME PairInv, WorkerJudges
  PROVE  PairInv'
<1>1. /\ pc = "evaluate" /\ BothParse(captured) /\ outcome = None /\ graph = None
      /\ \A role \in Roles : seen[role] # None
      /\ opinion' \in Statuses
      /\ opinion' = "PASS" => <<seen.left, seen.right>> \in Equivalent
      /\ UNCHANGED <<request, disk, captured, snapshots, seen, outcome, graph, pc>>
  BY DEF WorkerJudges, Check!FormOpinion, PairInv, PairStages
<1>2. seen.left = captured.left /\ seen.right = captured.right
  BY <1>1, RoleSet DEF PairInv, OfTheCapture
<1>3. TypeOK'
  BY <1>1 DEF PairInv, TypeOK
<1>4. PairStages'
  BY <1>1 DEF PairInv, PairStages, WasCaptured, SafeOutput, Inputs, BothParse
<1>5. OfTheCapture'
  BY <1>1, <1>2, NoBytesAreNone DEF PairInv, OfTheCapture, BothParse
<1>6. QED
  BY <1>3, <1>4, <1>5 DEF PairInv

LEMMA EvaluatePairInv ==
  ASSUME PairInv, EvaluatePair \/ EvaluatePairRaises
  PROVE  PairInv'
<1>1. /\ pc = "evaluate" /\ graph = None /\ outcome = None /\ snapshots' = NoBytes
      /\ \/ pc' = "build" /\ outcome' \in Fallbacks \cup ({opinion} \ {None})
         \/ pc' = "refused" /\ outcome' = outcome
      /\ UNCHANGED <<request, disk, captured, seen, opinion, graph>>
  BY DEF EvaluatePair, EvaluatePairRaises, Check!Conclude, Fallbacks, Proceed, PairInv, PairStages
<1>2. outcome' \in Statuses \cup {None} /\ (pc' = "build" => outcome' \in Statuses)
  BY <1>1 DEF PairInv, TypeOK, Fallbacks, Statuses
<1>3. outcome' = "PASS" => opinion = "PASS"
  BY <1>1, NoBytesAreNone DEF Fallbacks
<1>4. NoBytes \in [Roles -> Bytes \cup {None}]
  BY DEF NoBytes
<1>5. TypeOK'
  BY <1>1, <1>2, <1>4 DEF PairInv, TypeOK
<1>6. PairStages'
  BY <1>1, <1>2 DEF PairInv, PairStages, WasCaptured, SafeOutput, Inputs
<1>7. OfTheCapture'
  BY <1>1, <1>3 DEF PairInv, OfTheCapture, BothParse
<1>8. QED
  BY <1>5, <1>6, <1>7 DEF PairInv

LEMMA BuildPairGraphInv ==
  ASSUME PairInv, BuildPairGraph
  PROVE  PairInv'
<1>1. /\ pc = "build" /\ BothCaptured /\ outcome \in Statuses /\ SafeOutput
      /\ graph' = PairGraphOf(captured, outcome) /\ pc' = "write"
      /\ UNCHANGED <<request, disk, captured, snapshots, seen, opinion, outcome>>
  BY RoleSet DEF BuildPairGraph, Proceed, PairInv, PairStages, BothCaptured
<1>2. captured \in [Roles -> Bytes]
  BY <1>1 DEF PairInv, TypeOK, BothCaptured, WasCaptured
<1>3. graph' \in Graphs /\ graph' # None
  BY <1>1, <1>2, PairGraphType, NoBytesAreNone
<1>4. TypeOK'
  BY <1>1, <1>3 DEF PairInv, TypeOK
<1>5. PairStages'
  BY <1>1, <1>3 DEF PairInv, PairStages, WasCaptured, SafeOutput, Inputs
<1>6. OfTheCapture'
  BY <1>1, <1>3 DEF PairInv, OfTheCapture, BothCaptured, WasCaptured, BothParse, PairGraphOf
<1>7. QED
  BY <1>4, <1>5, <1>6 DEF PairInv

LEMMA PairOtherSteps ==
  ASSUME PairInv, CheckOutput \/ AssessUnsupported \/ WriteSnapshots \/ WriteOutput \/ EditFile
  PROVE  PairInv'
<1>1. CASE CheckOutput
  <2>1. /\ pc = "start"
        /\ \/ pc' = "capture_left" /\ SafeOutput
           \/ pc' = "refused"
        /\ UNCHANGED <<request, disk, captured, snapshots, seen, opinion, outcome, graph>>
    BY <1>1 DEF CheckOutput, Proceed
  <2>2. QED
    BY <2>1 DEF PairInv, TypeOK, PairStages, OfTheCapture, WasCaptured, SafeOutput, Inputs, BothParse, BothCaptured, PairGraphOf
<1>2. CASE AssessUnsupported
  <2>1. /\ pc = "parse" /\ outcome' = "UNSUPPORTED" /\ pc' = "build"
        /\ UNCHANGED <<request, disk, captured, snapshots, seen, opinion, graph>>
    BY <1>2 DEF AssessUnsupported, Proceed
  <2>2. TypeOK'
    BY <2>1 DEF PairInv, TypeOK, Statuses
  <2>3. PairStages' /\ OfTheCapture'
    BY <2>1 DEF PairInv, PairStages, OfTheCapture, WasCaptured, SafeOutput, Inputs, BothParse, Statuses
  <2>4. QED
    BY <2>2, <2>3 DEF PairInv
<1>3. CASE WriteSnapshots
  <2>1. /\ pc = "parse" /\ BothParse(captured) /\ snapshots' = captured /\ pc' = "evaluate"
        /\ UNCHANGED <<request, disk, captured, seen, opinion, outcome, graph>>
    BY <1>3 DEF WriteSnapshots, Proceed
  <2>2. TypeOK'
    BY <2>1 DEF PairInv, TypeOK
  <2>3. PairStages' /\ OfTheCapture'
    BY <2>1 DEF PairInv, PairStages, OfTheCapture, WasCaptured, SafeOutput, Inputs, BothParse, BothCaptured, PairGraphOf
  <2>4. QED
    BY <2>2, <2>3 DEF PairInv
<1>4. CASE WriteOutput
  <2>1. /\ pc = "write" /\ pc' \in {"done", "refused"}
        /\ disk' \in [Files -> Bytes \cup {Missing, Evidence, Torn}]
        /\ UNCHANGED <<request, captured, snapshots, seen, opinion, outcome, graph>>
    BY <1>4 DEF WriteOutput, Proceed, PairInv, TypeOK
  <2>2. TypeOK'
    BY <2>1 DEF PairInv, TypeOK
  <2>3. PairStages' /\ OfTheCapture'
    BY <2>1 DEF PairInv, PairStages, OfTheCapture, WasCaptured, SafeOutput, Inputs, BothParse, BothCaptured, PairGraphOf
  <2>4. QED
    BY <2>2, <2>3 DEF PairInv
<1>5. CASE EditFile
  <2>1. /\ disk' \in [Files -> Bytes \cup {Missing, Evidence, Torn}]
        /\ UNCHANGED <<request, captured, snapshots, seen, opinion, outcome, graph, pc>>
    BY <1>5 DEF EditFile, PairInv, TypeOK
  <2>2. TypeOK'
    BY <2>1 DEF PairInv, TypeOK
  <2>3. PairStages' /\ OfTheCapture'
    BY <2>1 DEF PairInv, PairStages, OfTheCapture, WasCaptured, SafeOutput, Inputs, BothParse, BothCaptured, PairGraphOf
  <2>4. QED
    BY <2>2, <2>3 DEF PairInv
<1>6. QED
  BY <1>1, <1>2, <1>3, <1>4, <1>5

LEMMA PairNextInv == PairInv /\ [PairNext]_pairVars => PairInv'
<1> SUFFICES ASSUME PairInv, [PairNext]_pairVars PROVE PairInv'
  OBVIOUS
<1>1. CASE Capture("left", "capture_left", "capture_right") \/ Capture("right", "capture_right", "parse")
  BY <1>1, CaptureInv, RoleSet
<1>2. CASE EvaluatePair \/ EvaluatePairRaises
  BY <1>2, EvaluatePairInv
<1>3. CASE BuildPairGraph
  BY <1>3, BuildPairGraphInv
<1>4. CASE Worker
  BY <1>4, WorkerReadsInv, WorkerJudgesInv DEF Worker
<1>5. CASE CheckOutput \/ AssessUnsupported \/ WriteSnapshots \/ WriteOutput \/ EditFile
  BY <1>5, PairOtherSteps
<1>6. CASE UNCHANGED pairVars
  BY <1>6 DEF pairVars, PairInv, TypeOK, PairStages, OfTheCapture, WasCaptured, SafeOutput, Inputs, BothParse, BothCaptured, PairGraphOf
<1>7. QED
  BY <1>1, <1>2, <1>3, <1>4, <1>5, <1>6 DEF PairNext, Workflow, PairOver

LEMMA PairHolds == PairSpec => []PairInv
BY PairInitInv, PairNextInv, PTL DEF PairSpec

-----------------------------------------------------------------------------
(* Theorems.                                                               *)

\* Every variable has its type.
THEOREM PairTypeCorrect == PairSpec => []TypeOK
<1>1. PairInv => TypeOK
  BY DEF PairInv
<1>2. QED
  BY <1>1, PairHolds, PTL

\* Recovery under a reference returns the one source that has it, or nothing.
LEMMA RecoveredIsCaptured ==
  ASSUME NEW g, g.sources = captured, NEW role \in Roles
  PROVE  Recovered(g, RefOf(role)) \in {captured[role], None}
<1> DEFINE matches == {other \in Roles : RefOf(other) = RefOf(role)}
<1>1. IsFiniteSet(matches) /\ role \in matches
  <2>1. IsFiniteSet(Roles)
    <3>1. IsFiniteSet({"left"}) /\ IsFiniteSet({"right"})
      BY FS_Singleton
    <3>2. IsFiniteSet({"left"} \cup {"right"})
      BY <3>1, FS_Union
    <3>3. QED
      BY <3>2, RoleSet
  <2>2. QED
    BY <2>1, FS_Subset
<1>2. CASE Cardinality(matches) = 1
  <2>1. matches = {role}
    BY <1>1, <1>2, FS_Singleton
  <2>2. (CHOOSE other \in matches : TRUE) = role
    BY <2>1
  <2>3. QED
    BY <1>2, <2>2 DEF Recovered
<1>3. CASE Cardinality(matches) # 1
  BY <1>3 DEF Recovered
<1>4. QED
  BY <1>2, <1>3

\* A supported claim is about the very bytes that were captured and recovered.
THEOREM ClaimsAreAboutTheCapture == PairSpec => []ClaimIsAboutTheCapture
<1>1. PairInv => ClaimIsAboutTheCapture
  <2> SUFFICES ASSUME PairInv, graph # None
               PROVE  /\ graph.claim # "unsupported" \/ graph.assesses = "validated" \/ graph.status = "PASS" =>
                           /\ opinion = "PASS"
                           /\ graph.sources = captured /\ seen = captured
                           /\ <<captured.left, captured.right>> \in Equivalent
                           /\ \A role \in Roles : graph.represents[role] = "validated"
                      /\ \A ref \in References, role \in Roles :
                           RefOf(role) = ref => Recovered(graph, ref) \in {captured[role], None}
    BY DEF ClaimIsAboutTheCapture
  <2>1. graph = PairGraphOf(captured, outcome) /\ BothCaptured
    BY DEF PairInv, OfTheCapture
  <2>2. /\ graph.sources = captured /\ graph.status = outcome
        /\ graph.claim # "unsupported" => outcome = "PASS"
        /\ graph.assesses = "validated" => outcome = "PASS"
        /\ graph.represents =
             [role \in Roles |-> IF captured[role] \in Importable THEN "validated" ELSE "failed"]
    BY <2>1 DEF PairGraphOf
  <2>3. ASSUME outcome = "PASS"
        PROVE  /\ opinion = "PASS" /\ seen = captured
               /\ <<captured.left, captured.right>> \in Equivalent
               /\ \A role \in Roles : graph.represents[role] = "validated"
    <3>1. opinion = "PASS" /\ \A role \in Roles : seen[role] = captured[role]
      BY <2>3 DEF PairInv, OfTheCapture
    <3>2. seen = captured
      BY <3>1 DEF PairInv, TypeOK
    <3>3. QED
      BY <2>2, <3>1, <3>2 DEF PairInv, OfTheCapture, BothParse
  <2>4. \A role \in Roles : Recovered(graph, RefOf(role)) \in {captured[role], None}
    BY <2>2, RecoveredIsCaptured
  <2>5. QED
    BY <2>2, <2>3, <2>4
<1>2. QED
  BY <1>1, PairHolds, PTL

\* The workflow never changes a circuit file, nor the output before its graph is complete.
THEOREM WorkflowSparesInputs == PairSpec => InputsSurvive
<1>1. PairInv /\ [PairNext]_pairVars =>
        [pc' # pc => /\ \A f \in Inputs : disk'[f] = disk[f]
                     /\ disk' # disk => graph # None]_pairVars
  <2> SUFFICES ASSUME PairInv, PairNext, pc' # pc
               PROVE  /\ \A f \in Inputs : disk'[f] = disk[f]
                      /\ disk' # disk => graph # None
    BY DEF pairVars
  <2>1. CASE WriteOutput
    <3>1. /\ SafeOutput /\ graph # None /\ disk \in [Files -> Bytes \cup {Missing, Evidence, Torn}]
          /\ Inputs \subseteq Files
      BY <2>1 DEF WriteOutput, PairInv, PairStages, TypeOK, Inputs, Requests, Files, Roles
    <3>2. QED
      BY <2>1, <3>1 DEF WriteOutput, SafeOutput
  <2>2. CASE ~WriteOutput
    <3>1. UNCHANGED disk
      BY <2>2 DEF PairNext, Workflow, Worker, PairOver, pairVars, CheckOutput, Capture, AssessUnsupported,
           WriteSnapshots, EvaluatePair, EvaluatePairRaises, BuildPairGraph, WorkerReads, WorkerJudges, EditFile
    <3>2. QED
      BY <3>1
  <2>3. QED
    BY <2>1, <2>2
<1>2. QED
  BY <1>1, PairHolds, PTL DEF PairSpec, InputsSurvive

\* Seen from the assessment, a run of the workflow is an IsolatedCheck: one outcome, the
\* worker's opinion or a fallback.
THEOREM PairChecksOnce == PairSpec => Check!Spec
<1>1. PairInit => Check!Init
  BY DEF PairInit
<1>2. PairInv /\ [PairNext]_pairVars => [Check!Next]_<<opinion, outcome>>
  <2> SUFFICES ASSUME PairInv, [PairNext]_pairVars, <<opinion, outcome>>' # <<opinion, outcome>>
               PROVE  Check!Next
    OBVIOUS
  <2>1. CASE WorkerJudges
    BY <2>1 DEF WorkerJudges, Check!Next
  <2>2. CASE EvaluatePair
    BY <2>2 DEF EvaluatePair, Check!Next
  <2>3. CASE AssessUnsupported
    BY <2>3 DEF AssessUnsupported, PairInv, PairStages, Check!Next, Check!Conclude, Fallbacks
  <2>4. QED
    BY <2>1, <2>2, <2>3 DEF PairNext, Workflow, Worker, PairOver, pairVars, CheckOutput, Capture,
         WriteSnapshots, EvaluatePairRaises, BuildPairGraph, WriteOutput, WorkerReads, EditFile
<1>3. QED
  BY <1>1, <1>2, PairHolds, PTL DEF PairSpec, Check!Spec

-----------------------------------------------------------------------------
(* The search.                                                             *)

\* The lexicographic order of paths neither of which begins with the other.
Before(p, q) ==
  \E k \in 1 .. Len(q) : k <= Len(p) /\ p[k] < q[k] /\ \A i \in 1 .. k - 1 : p[i] = q[i]

LEMMA BeforeAsymmetric ==
  ASSUME NEW p \in Seq(Nat), NEW q \in Seq(Nat), Before(p, q)
  PROVE  ~Before(q, p)
<1>1. PICK k \in 1 .. Len(q) : k <= Len(p) /\ p[k] < q[k] /\ \A i \in 1 .. k - 1 : p[i] = q[i]
  BY DEF Before
<1>2. SUFFICES ASSUME Before(q, p) PROVE FALSE
  OBVIOUS
<1>3. PICK j \in 1 .. Len(p) : j <= Len(q) /\ q[j] < p[j] /\ \A i \in 1 .. j - 1 : q[i] = p[i]
  BY <1>2 DEF Before
<1>4. k \in Nat /\ j \in Nat /\ k >= 1 /\ j >= 1
  BY <1>1, <1>3
<1>5. p[k] \in Nat /\ q[k] \in Nat /\ p[j] \in Nat /\ q[j] \in Nat
  <2>1. k \in 1 .. Len(p) /\ j \in 1 .. Len(q)
    BY <1>1, <1>3, <1>4
  <2> QED
    BY <1>1, <1>3, <2>1, ElementOfSeq
<1>6. CASE k < j
  <2>1. k \in 1 .. j - 1
    BY <1>4, <1>6
  <2> QED
    BY <1>1, <1>3, <1>5, <2>1
<1>7. CASE j < k
  <2>1. j \in 1 .. k - 1
    BY <1>4, <1>7
  <2> QED
    BY <1>1, <1>3, <1>5, <2>1
<1> QED
  BY <1>1, <1>3, <1>4, <1>5, <1>6, <1>7

LEMMA BeforeTransitive ==
  ASSUME NEW p \in Seq(Nat), NEW q \in Seq(Nat), NEW r \in Seq(Nat), Before(p, q), Before(q, r)
  PROVE  Before(p, r)
<1>1. PICK k \in 1 .. Len(q) : k <= Len(p) /\ p[k] < q[k] /\ \A i \in 1 .. k - 1 : p[i] = q[i]
  BY DEF Before
<1>2. PICK j \in 1 .. Len(r) : j <= Len(q) /\ q[j] < r[j] /\ \A i \in 1 .. j - 1 : q[i] = r[i]
  BY DEF Before
<1>3. k \in Nat /\ j \in Nat /\ k >= 1 /\ j >= 1 /\ Len(p) \in Nat /\ Len(q) \in Nat /\ Len(r) \in Nat
  BY <1>1, <1>2
<1>4. CASE k < j
  <2>1. k \in 1 .. j - 1 /\ k \in 1 .. Len(r)
    BY <1>2, <1>3, <1>4
  <2>2. p[k] < r[k]
    BY <1>1, <1>2, <2>1
  <2>3. \A i \in 1 .. k - 1 : p[i] = r[i]
    <3>1. \A i \in 1 .. k - 1 : i \in 1 .. j - 1
      BY <1>3, <1>4
    <3> QED
      BY <1>1, <1>2, <3>1
  <2> QED
    BY <1>1, <2>1, <2>2, <2>3 DEF Before
<1>5. CASE j <= k
  <2>1. j \in 1 .. Len(p) /\ j \in 1 .. Len(q)
    BY <1>1, <1>2, <1>3, <1>5
  <2>2. p[j] \in Nat /\ q[j] \in Nat /\ r[j] \in Nat
    BY <1>2, <2>1, ElementOfSeq
  <2>3. p[j] < r[j]
    <3>1. j = k \/ j \in 1 .. k - 1
      BY <1>3, <1>5
    <3>2. CASE j = k
      BY <1>1, <1>2, <2>2, <3>2
    <3>3. CASE j \in 1 .. k - 1
      <4>1. p[j] = q[j]
        BY <1>1, <3>3
      <4> QED
        BY <1>2, <2>2, <4>1
    <3> QED
      BY <3>1, <3>2, <3>3
  <2>4. \A i \in 1 .. j - 1 : p[i] = r[i]
    <3>1. \A i \in 1 .. j - 1 : i \in 1 .. k - 1
      BY <1>3, <1>5
    <3> QED
      BY <1>1, <1>2, <3>1
  <2>5. j <= Len(p)
    BY <2>1, <1>3
  <2> QED
    BY <1>2, <2>3, <2>4, <2>5 DEF Before
<1> QED
  BY <1>3, <1>4, <1>5

LEMMA AppendFacts ==
  ASSUME NEW p \in Seq(Nat), NEW x \in Nat, NEW n, n = Len(p), NEW pp, pp = Append(p, x)
  PROVE  /\ pp \in Seq(Nat) /\ n \in Nat /\ Len(pp) = n + 1 /\ pp[n + 1] = x /\ Last(pp) = x
         /\ \A i \in 1 .. n : pp[i] = p[i]
BY DEF Last

\* Before, of paths extended.
LEMMA BeforeLonger ==
  ASSUME NEW p \in Seq(Nat), NEW q \in Seq(Nat), Before(p, q), NEW x \in Nat
  PROVE  Before(Append(p, x), q) /\ Before(p, Append(q, x))
<1>1. PICK k \in 1 .. Len(q) : k <= Len(p) /\ p[k] < q[k] /\ \A i \in 1 .. k - 1 : p[i] = q[i]
  BY DEF Before
<1> DEFINE pp == Append(p, x)
<1> DEFINE qq == Append(q, x)
<1>2. Len(p) \in Nat /\ Len(pp) = Len(p) + 1 /\ \A i \in 1 .. Len(p) : pp[i] = p[i]
  BY AppendFacts
<1>3. Len(q) \in Nat /\ Len(qq) = Len(q) + 1 /\ \A i \in 1 .. Len(q) : qq[i] = q[i]
  BY AppendFacts
<1> HIDE DEF pp, qq
<1>4. k \in 1 .. Len(p) /\ k <= Len(pp) /\ k \in 1 .. Len(qq)
  BY <1>1, <1>2, <1>3
<1>5. \A i \in 1 .. k - 1 : i \in 1 .. Len(p) /\ i \in 1 .. Len(q)
  BY <1>1, <1>4, <1>2, <1>3
<1>6. Before(pp, q)
  <2>1. pp[k] < q[k]
    BY <1>1, <1>2, <1>4
  <2>2. \A i \in 1 .. k - 1 : pp[i] = q[i]
    BY <1>1, <1>2, <1>5
  <2> QED
    BY <1>1, <1>4, <2>1, <2>2 DEF Before
<1>7. Before(p, qq)
  <2>1. p[k] < qq[k]
    BY <1>1, <1>3
  <2>2. \A i \in 1 .. k - 1 : p[i] = qq[i]
    BY <1>1, <1>3, <1>5
  <2> QED
    BY <1>1, <1>4, <2>1, <2>2 DEF Before
<1> QED
  BY <1>6, <1>7 DEF pp, qq

LEMMA BeforeLast ==
  ASSUME NEW p \in Seq(Nat), NEW x \in Nat, NEW y \in Nat, x < y
  PROVE  Before(Append(p, x), Append(p, y))
<1> DEFINE n == Len(p)
<1> DEFINE pp == Append(p, x)
<1> DEFINE qq == Append(p, y)
<1>1. n \in Nat /\ Len(pp) = n + 1 /\ pp[n + 1] = x /\ \A i \in 1 .. n : pp[i] = p[i]
  BY AppendFacts
<1>2. Len(qq) = n + 1 /\ qq[n + 1] = y /\ \A i \in 1 .. n : qq[i] = p[i]
  BY AppendFacts
<1> HIDE DEF n, pp, qq
<1>3. n + 1 \in 1 .. Len(qq) /\ n + 1 <= Len(pp) /\ (n + 1) - 1 = n
  BY <1>1, <1>2
<1>4. pp[n + 1] < qq[n + 1] /\ \A i \in 1 .. (n + 1) - 1 : pp[i] = qq[i]
  BY <1>1, <1>2, <1>3
<1> QED
  BY <1>3, <1>4 DEF Before, pp, qq

\* A path in the coupling graph, from its start.
Leads(couplings, start, path) ==
  /\ path \in Seq(Nat) /\ Len(path) >= 1 /\ path[1] = start
  /\ Walk(couplings, path)

LEMMA LeadsOne ==
  ASSUME NEW couplings, NEW start \in Nat
  PROVE  Leads(couplings, start, <<start>>) /\ Len(<<start>>) = 1 /\ Last(<<start>>) = start
BY DEF Leads, Walk, Last

LEMMA LeadsLast ==
  ASSUME NEW couplings, NEW start, NEW path, Leads(couplings, start, path)
  PROVE  /\ path \in Seq(Nat) /\ Len(path) \in Nat \ {0} /\ path[1] = start
         /\ Last(path) = path[Len(path)] /\ Last(path) \in Nat
<1>1. path \in Seq(Nat) /\ Len(path) \in Nat \ {0} /\ path[1] = start
  BY DEF Leads
<1>2. Last(path) = path[Len(path)]
  BY <1>1 DEF Last
<1>3. Len(path) \in 1 .. Len(path)
  BY <1>1
<1> QED
  BY <1>1, <1>2, <1>3, ElementOfSeq

LEMMA LeadsOn ==
  ASSUME NEW couplings, NEW start, NEW path, Leads(couplings, start, path),
         NEW x \in Nat, x \in Neighbours(couplings, Last(path))
  PROVE  Leads(couplings, start, Append(path, x))
<1> DEFINE n == Len(path)
<1> DEFINE pp == Append(path, x)
<1>1. path \in Seq(Nat) /\ n \in Nat \ {0} /\ path[1] = start /\ Last(path) = path[n]
  BY LeadsLast
<1>2. pp \in Seq(Nat) /\ Len(pp) = n + 1 /\ pp[n + 1] = x /\ \A i \in 1 .. n : pp[i] = path[i]
  BY <1>1, AppendFacts
<1>3. \A i \in 1 .. n - 1 : path[i + 1] \in Neighbours(couplings, path[i])
  BY DEF Leads, Walk
<1> HIDE DEF n, pp
<1>4. ASSUME NEW i \in 1 .. Len(pp) - 1
      PROVE  pp[i + 1] \in Neighbours(couplings, pp[i])
  <2>1. i \in 1 .. n
    BY <1>1, <1>2
  <2>2. CASE i = n
    <3>1. pp[i] = Last(path) /\ pp[i + 1] = x
      BY <1>1, <1>2, <2>1, <2>2
    <3> QED
      BY <3>1
  <2>3. CASE i # n
    <3>1. i \in 1 .. n - 1 /\ i + 1 \in 1 .. n
      BY <1>1, <2>1, <2>3
    <3>2. pp[i] = path[i] /\ pp[i + 1] = path[i + 1]
      BY <1>2, <2>1, <3>1
    <3> QED
      BY <1>3, <3>1, <3>2
  <2> QED
    BY <2>2, <2>3
<1>5. pp[1] = start /\ Len(pp) >= 1
  <2>1. 1 \in 1 .. n
    BY <1>1
  <2> QED
    BY <1>1, <1>2, <2>1
<1>6. Leads(couplings, start, pp)
  BY <1>2, <1>4, <1>5 DEF Leads, Walk
<1> QED
  BY <1>6 DEF pp

\* The last coupling of a longer one.
LEMMA LeadsBack ==
  ASSUME NEW couplings, NEW start, NEW n \in Nat \ {0}, NEW path, Leads(couplings, start, path),
         Len(path) = n + 1
  PROVE  \E front : /\ Leads(couplings, start, front) /\ Len(front) = n
                    /\ path = Append(front, Last(path))
                    /\ Last(path) \in Neighbours(couplings, Last(front))
<1> DEFINE front == SubSeq(path, 1, n)
<1>1. path \in Seq(Nat) /\ path[1] = start /\ Last(path) = path[n + 1]
  BY LeadsLast
<1>2. \A i \in 1 .. Len(path) - 1 : path[i + 1] \in Neighbours(couplings, path[i])
  BY DEF Leads, Walk
<1>3. front \in Seq(Nat) /\ Len(front) = n /\ path = Append(front, path[n + 1])
  BY <1>1, LastSplit
<1>4. \A i \in 1 .. n : front[i] = path[i]
  BY <1>1, LastSplit
<1> HIDE DEF front
<1>5. Last(front) = path[n]
  <2>1. n \in 1 .. n
    OBVIOUS
  <2> QED
    BY <1>3, <1>4, <2>1 DEF Last
<1>6. \A i \in 1 .. Len(front) - 1 : front[i + 1] \in Neighbours(couplings, front[i])
  <2>1. ASSUME NEW i \in 1 .. Len(front) - 1
        PROVE  front[i + 1] \in Neighbours(couplings, front[i])
    <3>1. i \in 1 .. n /\ i + 1 \in 1 .. n /\ i \in 1 .. Len(path) - 1
      BY <1>3
    <3> QED
      BY <1>2, <1>4, <3>1
  <2> QED
    BY <2>1
<1>7. front[1] = start
  <2>1. 1 \in 1 .. n
    OBVIOUS
  <2> QED
    BY <1>1, <1>4, <2>1
<1>8. Leads(couplings, start, front)
  BY <1>3, <1>6, <1>7 DEF Leads, Walk
<1>9. path[n + 1] \in Neighbours(couplings, path[n])
  <2>1. n \in 1 .. Len(path) - 1
    OBVIOUS
  <2> QED
    BY <1>2, <2>1
<1>10. Len(front) = n /\ path = Append(front, Last(path)) /\ Last(path) \in Neighbours(couplings, Last(front))
  BY <1>1, <1>3, <1>5, <1>9
<1> QED
  BY <1>8, <1>10

\* How far a path can lead away.
LEMMA LeadsWithin ==
  ASSUME NEW couplings, NEW start, NEW path, Leads(couplings, start, path),
         NEW c, NEW i \in 1 .. Len(path), NEW k \in Nat, path[i] \in Ball(couplings, c, k),
         NEW j \in i .. Len(path)
  PROVE  path[j] \in Ball(couplings, c, k + (j - i))
<1> DEFINE P == {n \in Nat : i + n <= Len(path) => path[i + n] \in Ball(couplings, c, k + n)}
<1>1. 0 \in P
  OBVIOUS
<1>2. ASSUME NEW n \in Nat, n \in P
      PROVE  n + 1 \in P
  <2>1. SUFFICES ASSUME i + (n + 1) <= Len(path)
                 PROVE  path[i + (n + 1)] \in Ball(couplings, c, k + (n + 1))
    OBVIOUS
  <2>2. path[i + n] \in Ball(couplings, c, k + n)
    BY <1>2, <2>1
  <2>3. i + n \in 1 .. Len(path) - 1 /\ (i + n) + 1 = i + (n + 1) /\ k + n \in Nat /\ (k + n) + 1 = k + (n + 1)
    BY <2>1
  <2>4. path[(i + n) + 1] \in Neighbours(couplings, path[i + n])
    BY <2>3 DEF Leads, Walk
  <2> DEFINE m == k + n
  <2> DEFINE mm == k + (n + 1)
  <2> DEFINE x == path[i + (n + 1)]
  <2> DEFINE y == path[i + n]
  <2>5. m \in Nat /\ mm = m + 1 /\ x \in Neighbours(couplings, y) /\ y \in Ball(couplings, c, m)
    BY <2>2, <2>3, <2>4
  <2> HIDE DEF m, mm, x, y
  <2>6. x \in Ball(couplings, c, mm)
    BY <2>5, BallNext
  <2> QED
    BY <2>6 DEF x, mm
<1> HIDE DEF P
<1>3. Nat \subseteq P
  BY <1>1, <1>2, Induction
<1>4. j - i \in Nat /\ i + (j - i) = j
  OBVIOUS
<1>5. j - i \in P
  BY <1>3, <1>4
<1> QED
  BY <1>4, <1>5 DEF P

\* A shortest path, before every other one to its end.
Preferred(couplings, start, path) ==
  /\ Leads(couplings, start, path)
  /\ \A n \in Nat : n + 1 < Len(path) => Last(path) \notin Ball(couplings, start, n)
  /\ \A other : /\ Leads(couplings, start, other)
                /\ Len(other) = Len(path) /\ Last(other) = Last(path)
                => other = path \/ Before(path, other)

\* No shortest path is on a qubit twice, so none is longer than the device has qubits.
LEMMA PreferredIsShort ==
  ASSUME NEW width \in Nat, NEW couplings, UNION couplings \subseteq Slots(width),
         NEW start \in Slots(width), NEW path, Preferred(couplings, start, path)
  PROVE  Len(path) <= width
<1> DEFINE n == Len(path)
<1>1. Leads(couplings, start, path)
  BY DEF Preferred
<1>2. path \in Seq(Nat) /\ n \in Nat \ {0} /\ path[1] = start /\ Last(path) = path[n]
  BY <1>1, LeadsLast
<1>3. \A i \in 1 .. n : path[i] \in Slots(width)
  <2>1. ASSUME NEW i \in 1 .. n, i # 1
        PROVE  path[i] \in Slots(width)
    <3>1. i - 1 \in 1 .. Len(path) - 1 /\ (i - 1) + 1 = i
      BY <1>2, <2>1
    <3>2. path[i] \in Neighbours(couplings, path[i - 1])
      BY <1>1, <3>1 DEF Leads, Walk
    <3>3. path[i] \in UNION couplings
      BY <3>2 DEF Neighbours
    <3> QED
      BY <3>3
  <2> QED
    BY <1>2, <2>1
<1>4. ASSUME NEW i \in 1 .. n, NEW j \in 1 .. n, i < j, path[i] = path[j]
      PROVE  FALSE
  <2>1. 1 \in 1 .. Len(path) /\ i \in 1 .. Len(path) /\ 0 \in Nat /\ n \in j .. Len(path) /\ i \in Nat /\ j \in Nat
    BY <1>2
  <2>2. path[1] \in Ball(couplings, start, 0)
    BY <1>2, BallZero
  <2>3. path[i] \in Ball(couplings, start, 0 + (i - 1))
    BY <1>1, <2>1, <2>2, LeadsWithin
  <2> DEFINE k == i - 1
  <2>4. k \in Nat /\ 0 + (i - 1) = k /\ (k + (n - j)) + 1 < n /\ k + (n - j) \in Nat
    BY <1>2, <1>4, <2>1
  <2>5. path[j] \in Ball(couplings, start, k)
    BY <1>4, <2>3, <2>4
  <2> HIDE DEF k
  <2>6. path[n] \in Ball(couplings, start, k + (n - j))
    BY <1>1, <2>1, <2>4, <2>5, LeadsWithin
  <2>7. Last(path) \notin Ball(couplings, start, k + (n - j))
    BY <2>4 DEF Preferred
  <2> QED
    BY <1>2, <2>6, <2>7
<1>5. path \in [1 .. n -> Slots(width)]
  <2>1. path \in [1 .. n -> Nat]
    BY <1>2
  <2> QED
    BY <1>3, <2>1
<1>6. \A i, j \in 1 .. n : path[i] = path[j] => i = j
  <2>1. ASSUME NEW i \in 1 .. n, NEW j \in 1 .. n, path[i] = path[j], i # j
        PROVE  FALSE
    <3>1. i < j \/ j < i
      BY <1>2, <2>1
    <3> QED
      BY <1>4, <2>1, <3>1
  <2> QED
    BY <2>1
<1>7. path \in Injection(1 .. n, Slots(width))
  BY <1>5, <1>6 DEF Injection, IsInjective
<1>8. IsFiniteSet(Slots(width)) /\ Cardinality(Slots(width)) = width
  BY FS_Interval DEF Slots
<1>9. Cardinality(1 .. n) = n
  BY <1>2, FS_Interval
<1>10. Cardinality(1 .. n) <= Cardinality(Slots(width))
  BY <1>7, <1>8, FS_Injection
<1> QED
  BY <1>8, <1>9, <1>10

\* A route comes before every other path of its length.
LEMMA RouteIsLeast ==
  ASSUME NEW prog, prog.width \in Nat, NEW couplings, UNION couplings \subseteq Nat,
         NEW start \in Nat, NEW r, NEW path, NEW d, Shortest(prog, couplings, start, r, path, d),
         NEW other, Leads(couplings, start, other), Len(other) = d + 1, Last(other) = r
  PROVE  other = path \/ Before(path, other)
<1>1. d \in 0 .. prog.width /\ path \in Seq(Nat) /\ Len(path) = d + 1 /\ path[1] = start /\ path[d + 1] = r
  BY DEF Shortest
<1>2. \A i \in 1 .. d + 1 : Joined(prog, couplings, path[i], r) /\ Distance(prog, couplings, path[i], r) = d + 1 - i
  BY DEF Shortest
<1>3. \A i \in 1 .. d : \A x \in Closer(prog, couplings, path[i], r, d - i) : path[i + 1] <= x
  BY DEF Shortest
<1>4. other \in Seq(Nat) /\ other[1] = start /\ other[d + 1] = r
  BY LeadsLast
<1>5. d \in Nat
  BY <1>1
<1> DEFINE P == {i \in Nat : i \in 1 .. d + 1 /\ other[i] # path[i]}
<1>6. SUFFICES ASSUME other # path PROVE Before(path, other)
  OBVIOUS
<1>7. P # {}
  <2>1. SUFFICES ASSUME P = {} PROVE FALSE
    OBVIOUS
  <2>2. \A i \in 1 .. Len(other) : other[i] = path[i]
    BY <1>5, <2>1
  <2> QED
    BY <1>1, <1>4, <1>6, <2>2, SeqEqual
<1>8. PICK k \in P : \A i \in P : k <= i
  BY <1>7, LeastNumber
<1>9. k \in 1 .. d + 1 /\ other[k] # path[k] /\ k # 1
  BY <1>1, <1>4, <1>8
<1>10. \A i \in 1 .. k - 1 : path[i] = other[i]
  BY <1>5, <1>8, <1>9
<1> HIDE DEF P
<1> DEFINE j == k - 1
<1> DEFINE x == other[k]
<1> DEFINE y == path[j]
<1>11. j \in 1 .. d /\ j + 1 = k /\ j \in 1 .. Len(other) - 1 /\ j \in 1 .. k - 1 /\ j \in 1 .. d + 1
  BY <1>5, <1>9
<1>12. x \in Neighbours(couplings, y)
  <2>1. other[j + 1] \in Neighbours(couplings, other[j])
    BY <1>11 DEF Leads, Walk
  <2> QED
    BY <1>10, <1>11, <2>1
<1>13. r \in Ball(couplings, x, d - j)
  <2>1. x \in Ball(couplings, x, 0)
    BY BallZero
  <2>2. k \in 1 .. Len(other) /\ d + 1 \in k .. Len(other) /\ 0 + ((d + 1) - k) = d - j /\ 0 \in Nat
    BY <1>4, <1>5, <1>9
  <2>3. other[d + 1] \in Ball(couplings, x, 0 + ((d + 1) - k))
    BY <2>1, <2>2, LeadsWithin
  <2> QED
    BY <1>4, <2>2, <2>3
<1> DEFINE e == d - j
<1>14. e \in Nat /\ e <= prog.width /\ d + 1 - j = e + 1 /\ e = d - j
  BY <1>1, <1>5, <1>11
<1>15. Joined(prog, couplings, y, r) /\ Distance(prog, couplings, y, r) = e + 1
  BY <1>2, <1>11, <1>14
<1>16. x \in Nat /\ path[k] \in Nat
  <2>1. k \in 1 .. Len(other) /\ k \in 1 .. Len(path)
    BY <1>1, <1>9
  <2>2. x \in Nat
    BY <1>4, <2>1, ElementOfSeq
  <2>3. path[k] \in Nat
    BY <1>1, <2>1, ElementOfSeq
  <2> QED
    BY <2>2, <2>3
<1>17. r \in Ball(couplings, x, e)
  BY <1>13
<1> HIDE DEF x, y, e, j
<1>18. Joined(prog, couplings, x, r)
  BY <1>14, <1>17, BallGrows DEF Joined
<1> DEFINE dx == Distance(prog, couplings, x, r)
<1>19. dx \in Nat /\ r \in Ball(couplings, x, dx) /\ dx <= e
  <2>1. dx \in 0 .. prog.width /\ r \in Ball(couplings, x, dx)
    BY <1>18, DistanceIsLeast
  <2>2. dx <= e
    BY <1>14, <1>17, <1>18, DistanceIsLeast
  <2> QED
    BY <2>1, <2>2
<1>20. e <= dx
  <2> HIDE DEF dx
  <2> DEFINE m == dx + 1
  <2>1. m \in Nat /\ m = dx + 1
    BY <1>19
  <2> HIDE DEF m
  <2>2. r \in Ball(couplings, y, m)
    BY <1>12, <1>19, <2>1, BallFirst
  <2>3. Distance(prog, couplings, y, r) <= m
    BY <1>15, <2>1, <2>2, DistanceIsLeast
  <2> QED
    BY <1>14, <1>15, <1>19, <2>1, <2>3
<1>21. x \in Closer(prog, couplings, y, r, e)
  BY <1>12, <1>14, <1>18, <1>19, <1>20 DEF Closer
<1>22. path[k] <= x
  BY <1>3, <1>11, <1>14, <1>21 DEF y
<1>23. path[k] < other[k]
  BY <1>9, <1>16, <1>22 DEF x
<1>24. k \in 1 .. Len(other) /\ k <= Len(path)
  BY <1>1, <1>9
<1> QED
  BY <1>10, <1>23, <1>24 DEF Before

\* A preferred path is the route to its end.
LEMMA PreferredIsRoute ==
  ASSUME NEW prog, prog.width \in Nat, NEW couplings, UNION couplings \subseteq Slots(prog.width),
         NEW start \in Slots(prog.width), NEW path, Preferred(couplings, start, path)
  PROVE  /\ Joined(prog, couplings, start, Last(path))
         /\ path = Route(prog, couplings, start, Last(path))
<1> DEFINE n == Len(path)
<1> DEFINE r == Last(path)
<1> DEFINE d == Distance(prog, couplings, start, r)
<1> DEFINE route == Route(prog, couplings, start, r)
<1>1. Leads(couplings, start, path)
  BY DEF Preferred
<1>2. path \in Seq(Nat) /\ n \in Nat \ {0} /\ path[1] = start /\ r = path[n]
  BY <1>1, LeadsLast
<1>3. n <= prog.width
  BY PreferredIsShort
<1>4. start \in Nat /\ UNION couplings \subseteq Nat
  BY SlotsNat
<1> DEFINE m == n - 1
<1>5. m \in Nat /\ n = m + 1 /\ m <= prog.width /\ 0 + (n - 1) = m
  BY <1>2, <1>3
<1>6. r \in Ball(couplings, start, m)
  <2>1. path[1] \in Ball(couplings, start, 0) /\ 1 \in 1 .. Len(path) /\ n \in 1 .. Len(path) /\ 0 \in Nat
    BY <1>2, BallZero
  <2>2. path[n] \in Ball(couplings, start, 0 + (n - 1))
    BY <1>1, <2>1, LeadsWithin
  <2> QED
    BY <1>2, <1>5, <2>2
<1> HIDE DEF m, n, r
<1>7. Joined(prog, couplings, start, r)
  BY <1>5, <1>6, BallGrows DEF Joined
<1>8. d \in Nat /\ r \in Ball(couplings, start, d) /\ d <= m
  <2>1. d \in 0 .. prog.width /\ r \in Ball(couplings, start, d)
    BY <1>7, DistanceIsLeast
  <2>2. d <= m
    BY <1>5, <1>6, <1>7, DistanceIsLeast
  <2> QED
    BY <2>1, <2>2
<1>9. ~(d + 1 < n)
  BY <1>8 DEF Preferred, n, r
<1>10. n = d + 1
  BY <1>5, <1>8, <1>9
<1>11. Shortest(prog, couplings, start, r, route, d)
  BY <1>4, <1>7, RouteCorrect
<1> HIDE DEF d, route
<1>12. Leads(couplings, start, route) /\ Len(route) = n /\ Last(route) = r
  <2>1. route \in Seq(Nat) /\ Len(route) = n /\ route[1] = start /\ route[d + 1] = r /\ Walk(couplings, route)
    BY <1>10, <1>11 DEF Shortest
  <2>2. Last(route) = r
    BY <1>10, <2>1 DEF Last
  <2> QED
    BY <1>2, <2>1, <2>2 DEF Leads
<1>13. route = path \/ Before(path, route)
  BY <1>12 DEF Preferred, n, r
<1>14. path = route \/ Before(route, path)
  <2>1. Len(path) = d + 1 /\ Last(path) = r
    BY <1>10 DEF n, r
  <2> QED
    BY <1>1, <1>4, <1>11, <2>1, RouteIsLeast
<1>15. route \in Seq(Nat)
  BY <1>12 DEF Leads
<1>16. path = route
  BY <1>2, <1>13, <1>14, <1>15, BeforeAsymmetric
<1> QED
  BY <1>7, <1>16 DEF route, r

\* Sorted lists a finite set of numbers in order.
LEMMA SortedFacts ==
  ASSUME NEW S \in SUBSET Nat, IsFiniteSet(S), NEW s, s = Sorted(S), NEW n, n = Cardinality(S)
  PROVE  /\ s \in Seq(Nat) /\ n \in Nat /\ Len(s) = n /\ DOMAIN s = 1 .. n
         /\ \A i \in 1 .. n : s[i] \in S
         /\ \A x \in S : \E i \in 1 .. n : s[i] = x
         /\ \A i, j \in 1 .. n : i < j => s[i] < s[j]
<1> DEFINE Below(x) == {y \in S : y < x}
<1> DEFINE rank == [x \in S |-> Cardinality(Below(x))]
<1>1. n \in Nat
  BY FS_CardinalityType
<1>2. ASSUME NEW x \in S
      PROVE  /\ IsFiniteSet(Below(x)) /\ rank[x] \in Nat
             /\ IsFiniteSet(Below(x) \cup {x}) /\ Cardinality(Below(x) \cup {x}) = rank[x] + 1
  <2>1. Below(x) \in SUBSET S /\ x \notin Below(x)
    OBVIOUS
  <2>2. IsFiniteSet(Below(x))
    BY <2>1, FS_Subset
  <2>3. rank[x] = Cardinality(Below(x))
    OBVIOUS
  <2> HIDE DEF Below, rank
  <2>4. IsFiniteSet(Below(x) \cup {x}) /\ Cardinality(Below(x) \cup {x}) = rank[x] + 1
    BY <2>1, <2>2, <2>3, FS_AddElement
  <2>5. rank[x] \in Nat
    BY <2>2, <2>3, FS_CardinalityType
  <2> QED
    BY <2>2, <2>4, <2>5
<1>3. ASSUME NEW x \in S, NEW T, IsFiniteSet(T), Below(x) \cup {x} \subseteq T
      PROVE  rank[x] + 1 <= Cardinality(T)
  <2> DEFINE U == Below(x) \cup {x}
  <2>1. U \in SUBSET T /\ Cardinality(U) = rank[x] + 1
    BY <1>2, <1>3
  <2> HIDE DEF U, rank
  <2>2. Cardinality(U) <= Cardinality(T)
    BY <1>3, <2>1, FS_Subset
  <2> QED
    BY <2>1, <2>2
<1>4. ASSUME NEW x \in S, NEW y \in S, x < y
      PROVE  rank[x] < rank[y]
  <2>1. Below(x) \cup {x} \subseteq Below(y)
    <3>1. ASSUME NEW z \in S, z < x
          PROVE  z < y
      <4>1. x \in Nat /\ y \in Nat /\ z \in Nat
        OBVIOUS
      <4> QED
        BY <1>4, <3>1, <4>1
    <3> QED
      BY <1>4, <3>1
  <2>2. IsFiniteSet(Below(y)) /\ rank[y] = Cardinality(Below(y)) /\ rank[x] \in Nat /\ rank[y] \in Nat
    BY <1>2
  <2> HIDE DEF Below, rank
  <2>3. rank[x] + 1 <= Cardinality(Below(y))
    BY <1>3, <2>1, <2>2
  <2> QED
    BY <2>2, <2>3
<1>5. ASSUME NEW x \in S
      PROVE  rank[x] \in 0 .. n - 1
  <2>1. Below(x) \cup {x} \subseteq S
    OBVIOUS
  <2>2. rank[x] + 1 <= n /\ rank[x] \in Nat
    BY <1>2, <1>3, <2>1
  <2> HIDE DEF Below, rank
  <2> QED
    BY <1>1, <2>2
<1>6. \A x, y \in S : rank[x] = rank[y] => x = y
  <2>1. ASSUME NEW x \in S, NEW y \in S, rank[x] = rank[y], x # y
        PROVE  FALSE
    <3>1. x \in Nat /\ y \in Nat /\ rank[x] \in Nat /\ rank[y] \in Nat
      BY <1>2
    <3>2. x < y \/ y < x
      BY <2>1, <3>1
    <3> QED
      BY <1>4, <2>1, <3>1, <3>2
  <2> QED
    BY <2>1
<1>7. rank \in [S -> 0 .. n - 1]
  BY <1>5
<1>8. \A x \in S : rank[x] = Cardinality({y \in S : y < x})
  OBVIOUS
<1> HIDE DEF Below, rank
<1>9. rank \in Injection(S, 0 .. n - 1)
  BY <1>6, <1>7 DEF Injection, IsInjective
<1>10. IsFiniteSet(0 .. n - 1) /\ Cardinality(0 .. n - 1) = n
  <2>1. 0 \in Int /\ n - 1 \in Int
    BY <1>1
  <2> DEFINE m == n - 1
  <2>2. m \in Int /\ (IF 0 > m THEN 0 ELSE m - 0 + 1) = n
    BY <1>1
  <2> HIDE DEF m
  <2>3. IsFiniteSet(0 .. m) /\ Cardinality(0 .. m) = (IF 0 > m THEN 0 ELSE m - 0 + 1)
    BY <2>1, <2>2, FS_Interval
  <2> QED
    BY <2>2, <2>3 DEF m
<1>11. rank \in Surjection(S, 0 .. n - 1)
  BY <1>9, <1>10, FS_Injection
<1>12. \A i \in 1 .. n : \E x \in S : rank[x] = i - 1
  <2>1. ASSUME NEW i \in 1 .. n
        PROVE  \E x \in S : rank[x] = i - 1
    <3>1. i - 1 \in 0 .. n - 1
      BY <1>1
    <3> QED
      BY <1>11, <3>1 DEF Surjection
  <2> QED
    BY <2>1
<1>13. ASSUME NEW i \in 1 .. n
       PROVE  s[i] \in S /\ rank[s[i]] = i - 1
  <2>1. s[i] = CHOOSE x \in S : Cardinality({y \in S : y < x}) = i - 1
    BY <1>13 DEF Sorted
  <2>2. \E x \in S : Cardinality({y \in S : y < x}) = i - 1
    BY <1>8, <1>12
  <2>3. s[i] \in S /\ Cardinality({y \in S : y < s[i]}) = i - 1
    BY <2>1, <2>2
  <2> QED
    BY <1>8, <2>3
<1>14. s \in Seq(Nat) /\ Len(s) = n /\ DOMAIN s = 1 .. n
  <2> DEFINE v(i) == CHOOSE x \in S : Cardinality({y \in S : y < x}) = i - 1
  <2>1. s = [i \in 1 .. n |-> v(i)]
    BY DEF Sorted
  <2>2. \A i \in 1 .. n : v(i) \in Nat
    <3>1. \A i \in 1 .. n : s[i] = v(i) /\ s[i] \in Nat
      BY <1>13, <2>1
    <3> QED
      BY <3>1
  <2> HIDE DEF v
  <2> QED
    BY <1>1, <2>1, <2>2
<1>15. \A x \in S : \E i \in 1 .. n : s[i] = x
  <2>1. ASSUME NEW x \in S
        PROVE  \E i \in 1 .. n : s[i] = x
    <3> DEFINE i == rank[x] + 1
    <3>1. i \in 1 .. n /\ i - 1 = rank[x]
      BY <1>1, <1>5
    <3>2. rank[s[i]] = rank[x] /\ s[i] \in S
      BY <1>13, <3>1
    <3>3. s[i] = x
      BY <1>6, <3>2
    <3> QED
      BY <3>1, <3>3
  <2> QED
    BY <2>1
<1>16. \A i, j \in 1 .. n : i < j => s[i] < s[j]
  <2>1. ASSUME NEW i \in 1 .. n, NEW j \in 1 .. n, i < j
        PROVE  s[i] < s[j]
    <3> DEFINE x == s[i]
    <3> DEFINE y == s[j]
    <3>1. x \in S /\ y \in S /\ rank[x] = i - 1 /\ rank[y] = j - 1 /\ x \in Nat /\ y \in Nat
      BY <1>13
    <3> HIDE DEF x, y
    <3>2. rank[x] < rank[y]
      BY <2>1, <3>1
    <3>3. x # y
      BY <2>1, <3>1
    <3>4. ~(y < x)
      <4>1. SUFFICES ASSUME y < x PROVE FALSE
        OBVIOUS
      <4>2. rank[y] < rank[x]
        BY <1>4, <3>1, <4>1
      <4> QED
        BY <2>1, <3>1, <4>2
    <3>5. x < y
      BY <3>1, <3>3, <3>4
    <3> QED
      BY <3>5 DEF x, y
  <2> QED
    BY <2>1
<1>17. \A i \in 1 .. n : s[i] \in S
  BY <1>13
<1> QED
  BY <1>1, <1>14, <1>15, <1>16, <1>17

\* The paths of a queue: each a preferred one, in order of their lengths, those of one
\* length in order; and the longer ones before the shorter, which they do not continue.
InTurn(p, q) ==
  /\ Len(p) <= Len(q)
  /\ Len(p) = Len(q) => Before(p, q)
  /\ Len(p) < Len(q) => Before(q, p)

Queued(couplings, start, paths) ==
  /\ paths \in Seq(Seq(Nat))
  /\ \A i \in 1 .. Len(paths) : Preferred(couplings, start, paths[i])
  /\ \A i, j \in 1 .. Len(paths) :
       i < j => InTurn(paths[i], paths[j]) /\ Len(paths[j]) <= Len(paths[1]) + 1

\* What the search has seen: every qubit that the queue leads to, and around every other
\* one all of its neighbours; so everything nearer than the queue.
Reached(couplings, start, goal, paths, known) ==
  /\ start \in known
  /\ \A i \in 1 .. Len(paths) : Last(paths[i]) \in known
  /\ \A x \in known : \/ \E i \in 1 .. Len(paths) : Last(paths[i]) = x
                     \/ (x # goal /\ Neighbours(couplings, x) \subseteq known)
  /\ paths # <<>> => \A n \in Nat : n < Len(paths[1]) => Ball(couplings, start, n) \subseteq known

LEMMA SearchStarts ==
  ASSUME NEW couplings, NEW start \in Nat, NEW goal
  PROVE  Queued(couplings, start, <<<<start>>>>) /\ Reached(couplings, start, goal, <<<<start>>>>, {start})
<1> DEFINE p == <<start>>
<1> DEFINE paths == <<p>>
<1>1. Leads(couplings, start, p) /\ Len(p) = 1 /\ Last(p) = start /\ p \in Seq(Nat)
  BY LeadsOne
<1>2. Preferred(couplings, start, p)
  <2>1. ASSUME NEW other, Leads(couplings, start, other), Len(other) = Len(p), Last(other) = Last(p)
        PROVE  other = p
    <3>1. other \in Seq(Nat) /\ Len(other) = 1 /\ other[1] = start
      BY <1>1, <2>1 DEF Leads
    <3>2. other = <<other[1]>>
      BY <3>1
    <3> QED
      BY <3>1, <3>2
  <2>2. \A n \in Nat : ~(n + 1 < Len(p))
    BY <1>1
  <2> HIDE DEF p
  <2> QED
    BY <1>1, <2>1, <2>2 DEF Preferred
<1> HIDE DEF p
<1>3. paths \in Seq(Seq(Nat)) /\ Len(paths) = 1 /\ paths[1] = p /\ \A i \in 1 .. Len(paths) : i = 1
  BY <1>1
<1> HIDE DEF paths
<1>4. Queued(couplings, start, paths)
  <2>1. \A i, j \in 1 .. Len(paths) : ~(i < j)
    BY <1>3
  <2> QED
    BY <1>2, <1>3, <2>1 DEF Queued
<1>5. \A n \in Nat : n < Len(paths[1]) => Ball(couplings, start, n) \subseteq {start}
  <2>1. ASSUME NEW n \in Nat, n < Len(paths[1])
        PROVE  Ball(couplings, start, n) \subseteq {start}
    <3>1. Len(paths[1]) = 1
      BY <1>1, <1>3
    <3>2. n = 0
      BY <2>1, <3>1
    <3> QED
      BY <3>2, BallZero
  <2> QED
    BY <2>1
<1>6. Last(paths[1]) = start /\ 1 \in 1 .. Len(paths)
  BY <1>1, <1>3
<1>7. Reached(couplings, start, goal, paths, {start})
  <2>1. \A i \in 1 .. Len(paths) : Last(paths[i]) \in {start}
    BY <1>3, <1>6
  <2>2. \A x \in {start} : \E i \in 1 .. Len(paths) : Last(paths[i]) = x
    BY <1>6
  <2> QED
    BY <1>5, <2>1, <2>2 DEF Reached
<1> QED
  BY <1>4, <1>7 DEF paths, p

\* A search that ends without the goal has seen all that is joined to its start.
LEMMA SearchEnds ==
  ASSUME NEW prog, prog.width \in Nat, NEW couplings, NEW start, NEW goal, NEW known,
         Reached(couplings, start, goal, <<>>, known)
  PROVE  ~Joined(prog, couplings, start, goal)
<1>1. start \in known /\ \A x \in known : x # goal /\ Neighbours(couplings, x) \subseteq known
  <2>1. Len(<<>>) = 0 /\ \A i \in 1 .. Len(<<>>) : FALSE
    OBVIOUS
  <2> QED
    BY <2>1 DEF Reached
<1> DEFINE P == {n \in Nat : Ball(couplings, start, n) \subseteq known}
<1>2. 0 \in P
  BY <1>1, BallZero
<1>3. ASSUME NEW n \in Nat, n \in P
      PROVE  n + 1 \in P
  <2> DEFINE m == n + 1
  <2>1. m \in Nat /\ m = n + 1
    OBVIOUS
  <2> HIDE DEF m
  <2>2. ASSUME NEW x \in Ball(couplings, start, m)
        PROVE  x \in known
    <3>1. \/ x \in Ball(couplings, start, n)
          \/ \E r \in Ball(couplings, start, n) : x \in Neighbours(couplings, r)
      BY <2>1, <2>2, BallNext
    <3> QED
      BY <1>1, <1>3, <3>1
  <2>3. m \in P
    BY <2>1, <2>2
  <2> QED
    BY <2>1, <2>3
<1> HIDE DEF P
<1>4. Nat \subseteq P
  BY <1>2, <1>3, Induction
<1>5. Ball(couplings, start, prog.width) \subseteq known
  BY <1>4 DEF P
<1> QED
  BY <1>1, <1>5 DEF Joined

LEMMA AppendEnds ==
  ASSUME NEW p \in Seq(Nat), NEW x \in Nat
  PROVE  Append(p, x) \in Seq(Nat) /\ Len(Append(p, x)) = Len(p) + 1 /\ Last(Append(p, x)) = x
BY DEF Last

\* A path that the search extends to a qubit it had not seen is a preferred one.
LEMMA SearchExtends ==
  ASSUME NEW couplings, UNION couplings \subseteq Nat, NEW start \in Nat, NEW goal, NEW paths, NEW known,
         Queued(couplings, start, paths), Reached(couplings, start, goal, paths, known), paths # <<>>,
         NEW path, path = paths[1], NEW x \in Neighbours(couplings, Last(path)), x \notin known
  PROVE  Preferred(couplings, start, Append(path, x))
<1> DEFINE l == Len(path)
<1> DEFINE pp == Append(path, x)
<1>1. paths \in Seq(Seq(Nat)) /\ 1 \in 1 .. Len(paths)
  BY DEF Queued
<1>2. Preferred(couplings, start, path)
  BY <1>1 DEF Queued
<1>3. Leads(couplings, start, path)
  BY <1>2 DEF Preferred
<1>4. path \in Seq(Nat) /\ l \in Nat \ {0} /\ path[1] = start /\ Last(path) = path[l] /\ Last(path) \in Nat
  BY <1>3, LeadsLast
<1>5. x \in Nat
  BY DEF Neighbours
<1>6. Leads(couplings, start, pp)
  BY <1>3, <1>5, LeadsOn
<1>7. pp \in Seq(Nat) /\ Len(pp) = l + 1 /\ Last(pp) = x
  <2>1. l = Len(path) /\ pp = Append(path, x)
    OBVIOUS
  <2> HIDE DEF l, pp
  <2> QED
    BY <1>4, <1>5, <2>1, AppendEnds
<1>8. \A n \in Nat : n < l => Ball(couplings, start, n) \subseteq known
  BY DEF Reached
<1> HIDE DEF pp, l
<1>9. \A n \in Nat : n + 1 < Len(pp) => Last(pp) \notin Ball(couplings, start, n)
  <2>1. ASSUME NEW n \in Nat, n + 1 < Len(pp)
        PROVE  x \notin Ball(couplings, start, n)
    <3>1. n < l
      BY <1>4, <1>7, <2>1
    <3> QED
      BY <1>8, <3>1
  <2> QED
    BY <1>7, <2>1
<1>10. ASSUME NEW other, Leads(couplings, start, other), Len(other) = Len(pp), Last(other) = Last(pp)
       PROVE  other = pp \/ Before(pp, other)
  <2>1. Len(other) = l + 1 /\ Last(other) = x
    BY <1>7, <1>10
  <2>2. PICK front : /\ Leads(couplings, start, front) /\ Len(front) = l
                     /\ other = Append(front, x) /\ x \in Neighbours(couplings, Last(front))
    BY <1>4, <1>10, <2>1, LeadsBack
  <2>3. front \in Seq(Nat) /\ Last(front) = front[l] /\ front[1] = start
    BY <2>2, LeadsLast
  <2> DEFINE w == Last(front)
  <2> DEFINE k == l - 1
  <2>4. k \in Nat /\ k < l /\ k + 1 = l
    BY <1>4
  <2>5. w \in Ball(couplings, start, k)
    <3>1. 1 \in 1 .. Len(front) /\ l \in 1 .. Len(front) /\ 0 \in Nat /\ 0 + (l - 1) = k
      BY <1>4, <2>2
    <3>2. front[1] \in Ball(couplings, start, 0)
      BY <2>3, BallZero
    <3>3. front[l] \in Ball(couplings, start, 0 + (l - 1))
      BY <2>2, <3>1, <3>2, LeadsWithin
    <3> QED
      BY <2>3, <3>1, <3>3
  <2>6. w \in known
    BY <1>8, <2>4, <2>5
  <2>7. ~(Neighbours(couplings, w) \subseteq known)
    BY <2>2
  <2> HIDE DEF w, k
  <2>8. PICK i \in 1 .. Len(paths) : Last(paths[i]) = w
    BY <2>6, <2>7 DEF Reached
  <2> DEFINE queued == paths[i]
  <2>9. Preferred(couplings, start, queued) /\ Last(queued) = w
    BY <2>8 DEF Queued
  <2>10. queued = path \/ InTurn(path, queued)
    <3>1. i = 1 \/ 1 < i
      BY <1>1, <2>8
    <3> QED
      BY <1>1, <2>8, <3>1 DEF Queued
  <2> HIDE DEF queued
  <2>11. Leads(couplings, start, queued) /\ queued \in Seq(Nat) /\ Len(queued) \in Nat
    <3>1. Leads(couplings, start, queued)
      BY <2>9 DEF Preferred
    <3> QED
      BY <3>1, LeadsLast
  <2>12. ~(k + 1 < Len(queued))
    BY <2>4, <2>5, <2>9 DEF Preferred
  <2>13. Len(queued) = l
    <3>1. l <= Len(queued)
      BY <1>4, <2>10, <2>11 DEF InTurn, l
    <3> QED
      BY <1>4, <2>4, <2>11, <2>12, <3>1
  <2>14. front = queued \/ Before(queued, front)
    BY <2>2, <2>9, <2>13 DEF Preferred, w
  <2>15. queued = path \/ Before(path, queued)
    BY <2>10, <2>13 DEF InTurn, l
  <2>16. front = path \/ Before(path, front)
    BY <1>4, <2>3, <2>11, <2>14, <2>15, BeforeTransitive
  <2>17. CASE front = path
    BY <2>2, <2>17 DEF pp
  <2>18. CASE Before(path, front)
    <3>1. Before(pp, front)
      BY <1>4, <1>5, <2>3, <2>18, BeforeLonger DEF pp
    <3>2. Before(pp, Append(front, x))
      BY <1>5, <1>7, <2>3, <3>1, BeforeLonger
    <3> QED
      BY <2>2, <3>2
  <2> QED
    BY <2>16, <2>17, <2>18
<1>11. Preferred(couplings, start, pp)
  BY <1>6, <1>9, <1>10 DEF Preferred
<1> QED
  BY <1>11 DEF pp

\* The queue after a path was taken off and its extensions were put on.
Kept(paths, next, k)  == k + 1 \in 1 .. Len(paths) /\ next[k] = paths[k + 1]
Added(paths, path, more, next, k) ==
  \E j \in 1 .. Len(more) : k = (Len(paths) - 1) + j /\ next[k] = Append(path, more[j])

Extended(paths, path, more, next) ==
  /\ next \in Seq(Seq(Nat)) /\ Len(next) = (Len(paths) - 1) + Len(more)
  /\ \A k \in 1 .. Len(next) : Kept(paths, next, k) \/ Added(paths, path, more, next, k)

LEMMA SequenceOf ==
  ASSUME NEW S, NEW m \in Nat, NEW f \in [1 .. m -> S]
  PROVE  f \in Seq(S) /\ Len(f) = m
OBVIOUS

LEMMA ExtendedQueue ==
  ASSUME NEW paths \in Seq(Seq(Nat)), paths # <<>>, NEW path \in Seq(Nat), NEW more \in Seq(Nat),
         NEW next, next = Tail(paths) \o [i \in DOMAIN more |-> Append(path, more[i])]
  PROVE  Extended(paths, path, more, next)
<1> DEFINE n == Len(paths)
<1> DEFINE m == Len(more)
<1> DEFINE rest == Tail(paths)
<1> DEFINE new == [i \in 1 .. m |-> Append(path, more[i])]
<1>1. n \in Nat \ {0} /\ m \in Nat /\ DOMAIN more = 1 .. m
  OBVIOUS
<1>2. rest \in Seq(Seq(Nat)) /\ Len(rest) = n - 1 /\ \A i \in 1 .. n - 1 : rest[i] = paths[i + 1]
  BY HeadTailProperties
<1>3. \A i \in 1 .. m : more[i] \in Nat
  BY ElementOfSeq
<1>4. new \in Seq(Seq(Nat)) /\ Len(new) = m /\ \A i \in 1 .. m : new[i] = Append(path, more[i])
  <2>1. \A i \in 1 .. m : Append(path, more[i]) \in Seq(Nat)
    BY <1>3, AppendEnds
  <2> DEFINE v(i) == Append(path, more[i])
  <2>2. new = [i \in 1 .. m |-> v(i)] /\ \A i \in 1 .. m : v(i) \in Seq(Nat)
    BY <2>1
  <2>3. \A i \in 1 .. m : v(i) = Append(path, more[i])
    OBVIOUS
  <2>4. \A i \in 1 .. m : new[i] = v(i)
    BY <2>2
  <2> HIDE DEF v, new, m
  <2>5. new \in [1 .. m -> Seq(Nat)]
    BY <2>2
  <2>6. new \in Seq(Seq(Nat)) /\ Len(new) = m
    BY <1>1, <2>5, SequenceOf
  <2> QED
    BY <2>3, <2>4, <2>6
<1>5. next = rest \o new
  BY <1>1
<1> HIDE DEF n, m, rest, new
<1>6. next \in Seq(Seq(Nat)) /\ Len(next) = (n - 1) + m
  BY <1>2, <1>4, <1>5, ConcatProperties
<1>7. \A i \in 1 .. (n - 1) + m : next[i] = IF i <= n - 1 THEN rest[i] ELSE new[i - (n - 1)]
  <2>1. \A i \in 1 .. Len(rest) + Len(new) :
           (rest \o new)[i] = IF i <= Len(rest) THEN rest[i] ELSE new[i - Len(rest)]
    BY <1>2, <1>4, ConcatProperties
  <2> QED
    BY <1>2, <1>4, <1>5, <2>1
<1>8. ASSUME NEW k \in 1 .. Len(next)
      PROVE  Kept(paths, next, k) \/ Added(paths, path, more, next, k)
  <2>1. k \in 1 .. (n - 1) + m
    BY <1>6
  <2>2. CASE k <= n - 1
    <3>1. k \in 1 .. n - 1 /\ k + 1 \in 1 .. n
      BY <1>1, <2>1, <2>2
    <3>2. next[k] = paths[k + 1]
      BY <1>2, <1>7, <2>1, <2>2, <3>1
    <3> QED
      BY <3>1, <3>2 DEF Kept, n
  <2>3. CASE ~(k <= n - 1)
    <3> DEFINE j == k - (n - 1)
    <3>1. j \in 1 .. m /\ k = (n - 1) + j
      BY <1>1, <2>1, <2>3
    <3>2. next[k] = Append(path, more[j])
      BY <1>4, <1>7, <2>1, <2>3, <3>1
    <3> HIDE DEF j
    <3> QED
      BY <3>1, <3>2 DEF Added, n, m
  <2> QED
    BY <2>2, <2>3
<1> QED
  BY <1>6, <1>8 DEF Extended, n, m

LEMMA ExtendedKept ==
  ASSUME NEW paths, NEW path, NEW more \in Seq(Nat), NEW next, Extended(paths, path, more, next),
         NEW n \in Nat \ {0}, n = Len(paths), NEW i \in 1 .. n, i # 1
  PROVE  i - 1 \in 1 .. Len(next) /\ next[i - 1] = paths[i]
<1> DEFINE m == Len(more)
<1> DEFINE k == i - 1
<1>1. m \in Nat /\ Len(next) = (n - 1) + m
  BY DEF Extended
<1>2. k \in 1 .. Len(next) /\ k + 1 = i
  BY <1>1
<1> HIDE DEF k
<1>3. Kept(paths, next, k) \/ Added(paths, path, more, next, k)
  BY <1>2 DEF Extended
<1>4. ~Added(paths, path, more, next, k)
  BY <1>2 DEF Added
<1>5. next[k] = paths[i]
  BY <1>2, <1>3, <1>4 DEF Kept
<1> QED
  BY <1>2, <1>5 DEF k

LEMMA ExtendedAdded ==
  ASSUME NEW paths, NEW path, NEW more \in Seq(Nat), NEW next, Extended(paths, path, more, next),
         NEW n \in Nat \ {0}, n = Len(paths), NEW j \in 1 .. Len(more)
  PROVE  (n - 1) + j \in 1 .. Len(next) /\ next[(n - 1) + j] = Append(path, more[j])
<1> DEFINE m == Len(more)
<1> DEFINE k == (n - 1) + j
<1>1. m \in Nat /\ Len(next) = (n - 1) + m
  BY DEF Extended
<1>2. k \in 1 .. Len(next) /\ k = (n - 1) + j
  BY <1>1
<1> HIDE DEF k
<1>3. Kept(paths, next, k) \/ Added(paths, path, more, next, k)
  BY <1>2 DEF Extended
<1>4. ~Kept(paths, next, k)
  BY <1>2 DEF Kept
<1>5. PICK i \in 1 .. Len(more) : k = (n - 1) + i /\ next[k] = Append(path, more[i])
  BY <1>3, <1>4 DEF Added
<1>6. i = j
  BY <1>2, <1>5
<1> QED
  BY <1>2, <1>5, <1>6 DEF k

\* Where the elements of the extended queue come from.
LEMMA SearchQueue ==
  ASSUME NEW couplings, UNION couplings \subseteq Nat, NEW start \in Nat, NEW goal, NEW paths, NEW known,
         Queued(couplings, start, paths), Reached(couplings, start, goal, paths, known), paths # <<>>,
         NEW path, path = paths[1], NEW more \in Seq(Nat),
         \A i \in 1 .. Len(more) : more[i] \in Neighbours(couplings, Last(path)) /\ more[i] \notin known,
         \A i, j \in 1 .. Len(more) : i < j => more[i] < more[j],
         NEW next, Extended(paths, path, more, next)
  PROVE  Queued(couplings, start, next)
<1> DEFINE n == Len(paths)
<1> DEFINE l == Len(path)
<1>1. paths \in Seq(Seq(Nat)) /\ n \in Nat \ {0} /\ 1 \in 1 .. n
  BY DEF Queued
<1>2. \A i \in 1 .. n : Preferred(couplings, start, paths[i])
  BY DEF Queued
<1>3. \A i, j \in 1 .. n : i < j => InTurn(paths[i], paths[j])
  BY DEF Queued
<1>4. \A j \in 1 .. n : 1 < j => Len(paths[j]) <= l + 1
  BY <1>1 DEF Queued
<1>5. path \in Seq(Nat) /\ l \in Nat
  <2>1. path \in Seq(Nat)
    BY <1>1, ElementOfSeq
  <2> QED
    BY <2>1
<1>6. \A j \in 1 .. Len(more) : Preferred(couplings, start, Append(path, more[j]))
  BY SearchExtends
<1>7. \A j \in 1 .. Len(more) : more[j] \in Nat /\ Append(path, more[j]) \in Seq(Nat) /\ Len(Append(path, more[j])) = l + 1
  <2>1. ASSUME NEW j \in 1 .. Len(more)
        PROVE  more[j] \in Nat
    BY ElementOfSeq
  <2>2. l = Len(path)
    OBVIOUS
  <2> HIDE DEF l
  <2> QED
    BY <1>5, <2>1, <2>2, AppendEnds
<1>8. next \in Seq(Seq(Nat)) /\ Len(next) \in Nat
  BY DEF Extended
<1>9. \A k \in 1 .. Len(next) : Kept(paths, next, k) \/ Added(paths, path, more, next, k)
  BY DEF Extended
<1>10. \A i \in 1 .. n : i # 1 => paths[i] \in Seq(Nat) /\ Len(paths[i]) \in Nat
  <2>1. \A i \in 1 .. n : paths[i] \in Seq(Nat)
    BY <1>1, ElementOfSeq
  <2> QED
    BY <2>1
<1> HIDE DEF n, l
<1>11. \A k \in 1 .. Len(next) : Preferred(couplings, start, next[k])
  BY <1>2, <1>6, <1>9 DEF Kept, Added, n
<1>12. ASSUME NEW k \in 1 .. Len(next)
       PROVE  Len(next[k]) \in Nat /\ l <= Len(next[k]) /\ Len(next[k]) <= l + 1
  <2>1. CASE Kept(paths, next, k)
    <3> DEFINE i == k + 1
    <3>1. i \in 1 .. n /\ 1 < i /\ i # 1 /\ next[k] = paths[i]
      BY <2>1, <1>1, <1>12, <1>8 DEF Kept, n
    <3> HIDE DEF i
    <3>2. InTurn(path, paths[i]) /\ Len(paths[i]) <= l + 1
      BY <1>1, <1>3, <1>4, <3>1
    <3> QED
      BY <1>10, <3>1, <3>2 DEF InTurn, l
  <2>2. CASE Added(paths, path, more, next, k)
    <3>1. PICK j \in 1 .. Len(more) : next[k] = Append(path, more[j])
      BY <2>2 DEF Added
    <3>2. Len(next[k]) = l + 1
      BY <1>7, <3>1
    <3> QED
      BY <1>5, <3>2
  <2> QED
    BY <1>9, <2>1, <2>2
<1>13. ASSUME NEW k \in 1 .. Len(next), NEW h \in 1 .. Len(next), k < h
       PROVE  InTurn(next[k], next[h])
  <2>1. CASE Kept(paths, next, k) /\ Kept(paths, next, h)
    <3>1. k + 1 < h + 1
      BY <1>8, <1>13
    <3> QED
      BY <1>3, <2>1, <3>1 DEF Kept, n
  <2>2. CASE Kept(paths, next, k) /\ Added(paths, path, more, next, h)
    <3> DEFINE i == k + 1
    <3>1. i \in 1 .. n /\ 1 < i /\ i # 1 /\ next[k] = paths[i]
      BY <2>2, <1>1, <1>13, <1>8 DEF Kept, n
    <3>2. PICK j \in 1 .. Len(more) : next[h] = Append(path, more[j])
      BY <2>2 DEF Added
    <3> DEFINE p == paths[i]
    <3> DEFINE q == Append(path, more[j])
    <3>3. InTurn(path, p) /\ Len(p) <= l + 1 /\ p \in Seq(Nat) /\ Len(p) \in Nat
      BY <1>1, <1>3, <1>4, <1>10, <3>1
    <3>4. q \in Seq(Nat) /\ Len(q) = l + 1 /\ more[j] \in Nat
      BY <1>7
    <3>5. next[k] = p /\ next[h] = q
      BY <3>1, <3>2
    <3>6. Before(path, p) => Before(q, p)
      <4> HIDE DEF p
      <4> QED
        BY <1>5, <3>3, <3>4, BeforeLonger
    <3>7. Before(p, path) => Before(p, q)
      <4> HIDE DEF p
      <4> QED
        BY <1>5, <3>3, <3>4, BeforeLonger
    <3> HIDE DEF p, q, i
    <3>8. Len(p) <= Len(q) /\ (Len(p) = Len(q) => Before(p, q)) /\ (Len(p) < Len(q) => Before(q, p))
      <4>1. l <= Len(p) /\ (l = Len(p) => Before(path, p)) /\ (l < Len(p) => Before(p, path))
        BY <3>3 DEF InTurn, l
      <4> QED
        BY <1>5, <3>3, <3>4, <3>6, <3>7, <4>1
    <3> QED
      BY <3>5, <3>8 DEF InTurn
  <2>3. CASE Added(paths, path, more, next, k) /\ Added(paths, path, more, next, h)
    <3>1. PICK i \in 1 .. Len(more) : k = (n - 1) + i /\ next[k] = Append(path, more[i])
      BY <2>3 DEF Added, n
    <3>2. PICK j \in 1 .. Len(more) : h = (n - 1) + j /\ next[h] = Append(path, more[j])
      BY <2>3 DEF Added, n
    <3>3. i < j
      BY <1>1, <1>13, <3>1, <3>2
    <3> DEFINE x == more[i]
    <3> DEFINE y == more[j]
    <3>4. x < y /\ x \in Nat /\ y \in Nat /\ Len(Append(path, x)) = l + 1 /\ Len(Append(path, y)) = l + 1
      BY <1>7, <3>3
    <3>5. next[k] = Append(path, x) /\ next[h] = Append(path, y)
      BY <3>1, <3>2
    <3> HIDE DEF x, y
    <3>6. Before(Append(path, x), Append(path, y))
      BY <1>5, <3>4, BeforeLast
    <3> QED
      BY <1>5, <3>4, <3>5, <3>6 DEF InTurn
  <2>4. ~(Added(paths, path, more, next, k) /\ Kept(paths, next, h))
    <3>1. SUFFICES ASSUME Added(paths, path, more, next, k), Kept(paths, next, h) PROVE FALSE
      OBVIOUS
    <3>2. h + 1 <= n /\ k >= n
      BY <1>1, <3>1 DEF Added, Kept, n
    <3> QED
      BY <1>1, <1>8, <1>13, <3>2
  <2> QED
    BY <1>9, <2>1, <2>2, <2>3, <2>4
<1>14. ASSUME NEW k \in 1 .. Len(next), NEW h \in 1 .. Len(next), k < h
       PROVE  Len(next[h]) <= Len(next[1]) + 1
  <2>1. 1 \in 1 .. Len(next)
    BY <1>8, <1>14
  <2>2. Len(next[h]) \in Nat /\ Len(next[h]) <= l + 1
    BY <1>12
  <2>3. Len(next[1]) \in Nat /\ l <= Len(next[1])
    BY <1>12, <2>1
  <2> QED
    BY <1>5, <2>2, <2>3
<1> QED
  BY <1>8, <1>11, <1>13, <1>14 DEF Queued

LEMMA SearchReached ==
  ASSUME NEW couplings, UNION couplings \subseteq Nat, NEW start \in Nat, NEW goal, NEW paths, NEW known,
         Queued(couplings, start, paths), Reached(couplings, start, goal, paths, known), paths # <<>>,
         NEW path, path = paths[1], Last(path) # goal, NEW more \in Seq(Nat),
         \A x \in Neighbours(couplings, Last(path)) : x \in known \/ \E i \in 1 .. Len(more) : more[i] = x,
         NEW next, Extended(paths, path, more, next), Queued(couplings, start, next),
         NEW then, then = known \cup ToSet(more)
  PROVE  Reached(couplings, start, goal, next, then)
<1> DEFINE n == Len(paths)
<1> DEFINE l == Len(path)
<1>1. paths \in Seq(Seq(Nat)) /\ n \in Nat \ {0} /\ 1 \in 1 .. n
  BY DEF Queued
<1>2. path \in Seq(Nat) /\ l \in Nat
  <2>1. path \in Seq(Nat)
    BY <1>1, ElementOfSeq
  <2> QED
    BY <2>1
<1>3. next \in Seq(Seq(Nat)) /\ Len(next) \in Nat
  BY DEF Queued
<1>4. \A k \in 1 .. Len(next) : Kept(paths, next, k) \/ Added(paths, path, more, next, k)
  BY DEF Extended
<1>5. \A x : x \in ToSet(more) <=> \E j \in 1 .. Len(more) : more[j] = x
  BY DEF ToSet
<1>6. \A j \in 1 .. Len(more) : Last(Append(path, more[j])) = more[j] /\ Len(Append(path, more[j])) = l + 1
  <2>1. \A j \in 1 .. Len(more) : more[j] \in Nat
    BY ElementOfSeq
  <2>2. l = Len(path)
    OBVIOUS
  <2> HIDE DEF l
  <2> QED
    BY <1>2, <2>1, <2>2, AppendEnds
<1>7. \A i \in 1 .. n : i # 1 => i - 1 \in 1 .. Len(next) /\ next[i - 1] = paths[i]
  BY <1>1, ExtendedKept
<1>8. \A j \in 1 .. Len(more) : (n - 1) + j \in 1 .. Len(next) /\ next[(n - 1) + j] = Append(path, more[j])
  BY <1>1, ExtendedAdded
<1>9. \A i \in 1 .. n : Last(paths[i]) \in known
  BY DEF Reached
<1>10. \A x \in known : \/ \E i \in 1 .. n : Last(paths[i]) = x
                        \/ (x # goal /\ Neighbours(couplings, x) \subseteq known)
  BY DEF Reached
<1>11. \A k \in Nat : k < l => Ball(couplings, start, k) \subseteq known
  BY DEF Reached
<1>12. start \in then
  BY DEF Reached
<1>13. Neighbours(couplings, Last(path)) \subseteq then
  BY <1>5
<1>14. known \subseteq then
  OBVIOUS
<1>15. \A i \in 1 .. n : i # 1 => 1 < i
  BY <1>1
<1> HIDE DEF n, l
<1>16. ASSUME NEW k \in 1 .. Len(next)
       PROVE  Last(next[k]) \in then
  <2>1. CASE Kept(paths, next, k)
    BY <1>9, <1>14, <2>1 DEF Kept, n
  <2>2. CASE Added(paths, path, more, next, k)
    <3>1. PICK j \in 1 .. Len(more) : next[k] = Append(path, more[j])
      BY <2>2 DEF Added
    <3>2. Last(next[k]) \in ToSet(more)
      BY <1>5, <1>6, <3>1
    <3> QED
      BY <3>2
  <2> QED
    BY <1>4, <2>1, <2>2
<1>17. ASSUME NEW x \in then
       PROVE  \/ \E k \in 1 .. Len(next) : Last(next[k]) = x
              \/ (x # goal /\ Neighbours(couplings, x) \subseteq then)
  <2>1. CASE x \in ToSet(more)
    <3>1. PICK j \in 1 .. Len(more) : more[j] = x
      BY <1>5, <2>1
    <3> DEFINE k == (n - 1) + j
    <3>2. k \in 1 .. Len(next) /\ next[k] = Append(path, more[j])
      BY <1>8
    <3> HIDE DEF k
    <3>3. Last(next[k]) = x
      BY <1>6, <3>1, <3>2
    <3> QED
      BY <3>2, <3>3
  <2>2. CASE x \in known
    <3>1. CASE \E i \in 1 .. n : Last(paths[i]) = x
      <4>1. PICK i \in 1 .. n : Last(paths[i]) = x
        BY <3>1
      <4>2. CASE i = 1
        <5>1. x = Last(path)
          BY <4>1, <4>2
        <5> QED
          BY <1>13, <5>1
      <4>3. CASE i # 1
        <5> DEFINE k == i - 1
        <5>1. k \in 1 .. Len(next) /\ next[k] = paths[i]
          BY <1>7, <4>3
        <5> HIDE DEF k
        <5> QED
          BY <4>1, <5>1
      <4> QED
        BY <4>2, <4>3
    <3>2. CASE x # goal /\ Neighbours(couplings, x) \subseteq known
      BY <1>14, <3>2
    <3> QED
      BY <1>10, <2>2, <3>1, <3>2
  <2> QED
    BY <2>1, <2>2
<1> HIDE DEF Kept
<1>18. ASSUME NEW k \in 1 .. Len(next)
       PROVE  Len(next[k]) \in Nat /\ Len(next[k]) <= l + 1
  <2>1. CASE Kept(paths, next, k)
    <3> DEFINE i == k + 1
    <3>1. i \in 1 .. n /\ 1 < i /\ next[k] = paths[i]
      BY <1>1, <1>3, <2>1 DEF Kept, n
    <3> HIDE DEF i
    <3>2. Len(paths[i]) <= l + 1
      BY <1>1, <3>1 DEF Queued, n, l
    <3>3. paths[i] \in Seq(Nat)
      BY <1>1, <3>1, ElementOfSeq DEF n
    <3> QED
      BY <3>1, <3>2, <3>3
  <2>2. CASE Added(paths, path, more, next, k)
    <3>1. PICK j \in 1 .. Len(more) : next[k] = Append(path, more[j])
      BY <2>2 DEF Added
    <3>2. Len(next[k]) = l + 1
      BY <1>6, <3>1
    <3> QED
      BY <1>2, <3>2
  <2> QED
    BY <1>4, <2>1, <2>2
<1>19. ASSUME next # <<>>, NEW k \in Nat, k < Len(next[1])
       PROVE  Ball(couplings, start, k) \subseteq then
  <2>1. CASE k < l
    BY <1>11, <1>14, <2>1
  <2>2. CASE ~(k < l)
    <3>1. 1 \in 1 .. Len(next)
      BY <1>3, <1>19
    <3>2. Len(next[1]) \in Nat /\ Len(next[1]) <= l + 1
      BY <1>18, <3>1
    <3>3. k = l /\ Len(next[1]) = l + 1
      BY <1>2, <1>19, <2>2, <3>2
    <3>4. \A h \in 1 .. Len(next) : l + 1 <= Len(next[h])
      <4>1. ASSUME NEW h \in 1 .. Len(next), h # 1
            PROVE  l + 1 <= Len(next[h])
        <5>1. 1 < h
          BY <1>3, <4>1
        <5>2. InTurn(next[1], next[h])
          BY <3>1, <5>1 DEF Queued
        <5> QED
          BY <3>3, <5>2 DEF InTurn
      <4>2. l + 1 <= Len(next[1])
        BY <1>2, <3>3
      <4> QED
        BY <4>1, <4>2
    <3>5. l # 0
      <4>1. Preferred(couplings, start, path)
        BY <1>1 DEF Queued, n
      <4> QED
        BY <4>1 DEF Preferred, Leads, l
    <3> DEFINE m == l - 1
    <3>6. m \in Nat /\ m < l /\ l = m + 1
      BY <1>2, <3>5
    <3> HIDE DEF m
    <3>7. ASSUME NEW y \in Ball(couplings, start, m)
          PROVE  Neighbours(couplings, y) \subseteq then
      <4>1. y \in then
        BY <1>11, <1>14, <3>6, <3>7
      <4>2. \A h \in 1 .. Len(next) : Last(next[h]) # y
        <5>1. SUFFICES ASSUME NEW h \in 1 .. Len(next), Last(next[h]) = y PROVE FALSE
          OBVIOUS
        <5>2. Preferred(couplings, start, next[h])
          BY DEF Queued
        <5>3. Len(next[h]) \in Nat /\ l + 1 <= Len(next[h])
          BY <1>18, <3>4
        <5>4. m + 1 < Len(next[h])
          BY <1>2, <3>6, <5>3
        <5> QED
          BY <3>6, <3>7, <5>1, <5>2, <5>4 DEF Preferred
      <4> QED
        BY <1>17, <4>1, <4>2
    <3>8. ASSUME NEW x \in Ball(couplings, start, l)
          PROVE  x \in then
      <4>1. \/ x \in Ball(couplings, start, m)
            \/ \E y \in Ball(couplings, start, m) : x \in Neighbours(couplings, y)
        BY <3>6, <3>8, BallNext
      <4> QED
        BY <1>11, <1>14, <3>6, <3>7, <4>1
    <3> QED
      BY <3>3, <3>8
  <2> QED
    BY <2>1, <2>2
<1> QED
  BY <1>12, <1>16, <1>17, <1>19 DEF Reached

\* The search, a path at a time.
LEMMA SearchGoesOn ==
  ASSUME NEW width \in Nat, NEW couplings, UNION couplings \subseteq Slots(width), NEW start \in Nat,
         NEW goal, NEW paths, NEW known,
         Queued(couplings, start, paths), Reached(couplings, start, goal, paths, known), paths # <<>>,
         NEW path, path = Head(paths), Last(path) # goal,
         NEW more, more = Sorted(Neighbours(couplings, Last(path)) \ known),
         NEW next, next = Tail(paths) \o [i \in DOMAIN more |-> Append(path, more[i])]
  PROVE  Queued(couplings, start, next) /\ Reached(couplings, start, goal, next, known \cup ToSet(more))
<1> DEFINE S == Neighbours(couplings, Last(path)) \ known
<1>1. UNION couplings \subseteq Nat
  BY SlotsNat
<1>2. S \subseteq Slots(width) /\ S \subseteq Nat
  BY <1>1 DEF Neighbours
<1>3. IsFiniteSet(S)
  <2>1. IsFiniteSet(Slots(width))
    BY FS_Interval DEF Slots
  <2> HIDE DEF S
  <2> QED
    BY <1>2, <2>1, FS_Subset
<1>4. \A x \in Neighbours(couplings, Last(path)) : x \in known \/ x \in S
  OBVIOUS
<1>5. \A x \in S : x \in Neighbours(couplings, Last(path)) /\ x \notin known
  OBVIOUS
<1> HIDE DEF S
<1> DEFINE m == Cardinality(S)
<1>6. more \in Seq(Nat) /\ Len(more) = m
  BY <1>2, <1>3, SortedFacts DEF S
<1>7. \A i \in 1 .. m : more[i] \in S
  BY <1>2, <1>3, SortedFacts DEF S
<1>8. \A x \in S : \E i \in 1 .. m : more[i] = x
  <2>1. more = Sorted(S) /\ m = Cardinality(S) /\ S \in SUBSET Nat
    BY <1>2 DEF S
  <2> HIDE DEF m
  <2> QED
    BY <1>3, <2>1, SortedFacts
<1>9. \A i, j \in 1 .. m : i < j => more[i] < more[j]
  BY <1>2, <1>3, SortedFacts DEF S
<1> HIDE DEF m
<1>10. paths \in Seq(Seq(Nat)) /\ path = paths[1] /\ path \in Seq(Nat)
  <2>1. paths \in Seq(Seq(Nat))
    BY DEF Queued
  <2>2. 1 \in 1 .. Len(paths) /\ Head(paths) = paths[1]
    BY <2>1
  <2> QED
    BY <2>1, <2>2, ElementOfSeq
<1>11. Extended(paths, path, more, next)
  BY <1>6, <1>10, ExtendedQueue
<1>12. \A i \in 1 .. Len(more) : more[i] \in Neighbours(couplings, Last(path)) /\ more[i] \notin known
  BY <1>5, <1>6, <1>7
<1>13. \A i, j \in 1 .. Len(more) : i < j => more[i] < more[j]
  BY <1>6, <1>9
<1>14. \A x \in Neighbours(couplings, Last(path)) : x \in known \/ \E i \in 1 .. Len(more) : more[i] = x
  BY <1>4, <1>6, <1>8
<1>15. Queued(couplings, start, next)
  BY <1>1, <1>6, <1>10, <1>11, <1>12, <1>13, SearchQueue
<1>16. Reached(couplings, start, goal, next, known \cup ToSet(more))
  BY <1>1, <1>6, <1>10, <1>11, <1>14, <1>15, SearchReached
<1> QED
  BY <1>15, <1>16

\* What each kind of operation comes to.
Outcome(v, ops, told) == [verdict |-> v, operations |-> ops, trace |-> told]

LEMMA StepOutcomes ==
  ASSUME NEW prog, NEW couplings, NEW gates, NEW n, NEW op, op = prog.operations[n],
         NEW path, path = Along(prog, couplings, op),
         NEW met \in Results, met.verdict = "compiled",
         NEW now, now = CompileStep(prog, couplings, gates, met, n)
  PROVE  /\ op.gate \notin TwoQubit /\ (op.gate \in Executable => op.gate \in gates)
              => now = Outcome("compiled", Append(met.operations, op), met.trace)
         /\ op.gate \in Executable \ gates => now = Outcome("unsupported_gate", met.operations, met.trace)
         /\ op.gate \in TwoQubit \cap gates =>
              IF ~Joined(prog, couplings, op.qubits[1], op.qubits[2])
              THEN now = Outcome("disconnected", met.operations, met.trace)
              ELSE IF Len(path) > 2 /\ "SWAP" \notin gates
              THEN now = Outcome("missing_swap", met.operations, met.trace)
              ELSE now = Outcome("compiled", met.operations \o Routed(op, path), Append(met.trace, RouteRecord(n, op, path)))
<1> DEFINE Refusal(reason) == [met EXCEPT !.verdict = reason]
           joined == Joined(prog, couplings, op.qubits[1], op.qubits[2])
           longer == [met EXCEPT !.operations = Append(@, op)]
           routing == [met EXCEPT !.operations = @ \o Routed(op, path), !.trace = Append(@, RouteRecord(n, op, path))]
<1>1. now = IF op.gate \notin Executable THEN longer
            ELSE IF op.gate \notin gates THEN Refusal("unsupported_gate")
            ELSE IF op.gate \notin TwoQubit THEN longer
            ELSE IF ~joined THEN Refusal("disconnected")
            ELSE IF Len(path) > 2 /\ "SWAP" \notin gates THEN Refusal("missing_swap")
            ELSE routing
  BY Zenon DEF CompileStep, Along
<1>2. met = [verdict |-> met.verdict, operations |-> met.operations, trace |-> met.trace]
  BY ResultFields
<1>3. \A reason : Refusal(reason) = Outcome(reason, met.operations, met.trace)
  BY <1>2 DEF Outcome
<1>4. longer = Outcome("compiled", Append(met.operations, op), met.trace)
  BY <1>2 DEF Outcome
<1>5. routing = Outcome("compiled", met.operations \o Routed(op, path), Append(met.trace, RouteRecord(n, op, path)))
  <2> DEFINE ops == met.operations \o Routed(op, path)
             told == Append(met.trace, RouteRecord(n, op, path))
  <2>1. routing = [met EXCEPT !.operations = ops, !.trace = told]
    OBVIOUS
  <2> HIDE DEF ops, told, routing
  <2>2. routing = [verdict |-> "compiled", operations |-> ops, trace |-> told]
    BY <1>2, <2>1
  <2> QED
    BY <2>2 DEF Outcome, ops, told
<1>6. TwoQubit \subseteq Executable
  BY DEF Executable
<1> HIDE DEF longer, routing, Refusal, joined
<1>7. op.gate \notin TwoQubit /\ (op.gate \in Executable => op.gate \in gates) => now = longer
  BY <1>1
<1>8. op.gate \in Executable \ gates => now = Refusal("unsupported_gate")
  BY <1>1
<1>9. op.gate \in TwoQubit \cap gates =>
        IF ~joined THEN now = Refusal("disconnected")
        ELSE IF Len(path) > 2 /\ "SWAP" \notin gates THEN now = Refusal("missing_swap")
        ELSE now = routing
  BY <1>1, <1>6
<1> QED
  BY <1>3, <1>4, <1>5, <1>7, <1>8, <1>9 DEF joined

\* A refusal is final.
LEMMA RefusedStays ==
  ASSUME NEW prog, NEW couplings, NEW gates, NEW n \in Nat, NEW m \in Nat, n <= m,
         CompiledTo(prog, couplings, gates, n).verdict # "compiled"
  PROVE  CompiledTo(prog, couplings, gates, m) = CompiledTo(prog, couplings, gates, n)
<1> DEFINE C(k) == CompiledTo(prog, couplings, gates, k)
           P == {k \in Nat : C(n + k) = C(n)}
<1>1. 0 \in P
  OBVIOUS
<1>2. ASSUME NEW k \in Nat, k \in P PROVE k + 1 \in P
  <2>1. C(n + k) = C(n) /\ n + k \in Nat /\ (n + k) + 1 = n + (k + 1)
    BY <1>2
  <2>2. C((n + k) + 1) = CompileStep(prog, couplings, gates, C(n + k), (n + k) + 1)
    BY <2>1, CompiledEquations
  <2>3. \A met, j : met.verdict # "compiled" => CompileStep(prog, couplings, gates, met, j) = met
    BY Zenon DEF CompileStep
  <2> HIDE DEF C
  <2>4. C(n).verdict # "compiled"
    BY DEF C
  <2>5. C((n + k) + 1) = C(n)
    BY <2>1, <2>2, <2>3, <2>4
  <2> QED
    BY <2>1, <2>5
<1> HIDE DEF P
<1>3. Nat \subseteq P
  BY <1>1, <1>2, Induction
<1>4. m - n \in Nat /\ n + (m - n) = m
  OBVIOUS
<1>5. m - n \in P
  BY <1>3, <1>4
<1> QED
  BY <1>4, <1>5 DEF P

-----------------------------------------------------------------------------
(* The compiler, step by step.                                             *)

SoFar == CompiledTo(program, edges, basis, step - 1)

RoutingTypes ==
  /\ program \in Programs /\ edges \in Topologies
  /\ UNION edges \subseteq Slots(program.width)
  /\ step \in 1 .. Len(program.operations) + 1

\* What was emitted is what the function has for the operations before this one.
RoutingSoFar == SoFar.verdict = "compiled" /\ routed = SoFar.operations /\ trace = SoFar.trace

RoutingStages ==
  /\ verdict \in Refusals \cup {"scanning", "searching", "compiled"}
  /\ verdict = "unknown_gate" <=> ~(basis \subseteq Executable)
  /\ verdict \in Refusals \ {"unknown_gate"} =>
       step <= Len(program.operations) /\ CompiledTo(program, edges, basis, step).verdict = verdict
  /\ verdict = "compiled" => step = Len(program.operations) + 1

RoutingSearch ==
  verdict = "searching" =>
    /\ step <= Len(program.operations) /\ Op.gate \in TwoQubit \cap basis
    /\ Queued(edges, Op.qubits[1], queue)
    /\ Reached(edges, Op.qubits[1], Goal, queue, visited)

RoutingInv == RoutingTypes /\ RoutingSoFar /\ RoutingStages /\ RoutingSearch

LEMMA RoutingStands ==
  ASSUME RoutingInv
  PROVE  /\ WellFormed(program) /\ program.width \in Nat /\ Len(program.operations) \in Nat
         /\ UNION edges \subseteq Slots(program.width)
         /\ step \in Nat /\ step - 1 \in Nat /\ (step - 1) + 1 = step
         /\ step - 1 \in 0 .. Len(program.operations) /\ SoFar \in Results
<1>1. WellFormed(program)
  BY RoutingAssumption DEF RoutingInv, RoutingTypes
<1>2. program.width \in Nat /\ Len(program.operations) \in Nat
  BY <1>1, SourceFacts
<1>3. UNION edges \subseteq Slots(program.width) /\ step \in 1 .. Len(program.operations) + 1
  BY DEF RoutingInv, RoutingTypes
<1>4. step \in Nat /\ step - 1 \in Nat /\ (step - 1) + 1 = step /\ step - 1 \in 0 .. Len(program.operations)
  BY <1>2, <1>3
<1>5. SoFar \in Results
  BY <1>1, <1>3, <1>4, CompiledTypes DEF SoFar
<1> QED
  BY <1>1, <1>2, <1>3, <1>4, <1>5

\* The operation that is being compiled, and what the function makes of it.
LEMMA RoutingNow ==
  ASSUME RoutingInv, step <= Len(program.operations)
  PROVE  /\ step \in 1 .. Len(program.operations) /\ Op \in Operations
         /\ CompiledTo(program, edges, basis, step) = CompileStep(program, edges, basis, SoFar, step)
         /\ Op.gate \in TwoQubit => /\ Op.qubits[1] \in Slots(program.width)
                                    /\ Op.qubits[1] \in Nat /\ Goal = Op.qubits[2]
<1>1. WellFormed(program) /\ step \in 1 .. Len(program.operations) /\ step - 1 \in Nat /\ (step - 1) + 1 = step
  BY RoutingStands
<1>2. Op \in Operations /\ (Op.gate \in TwoQubit => Op.qubits[1] \in Slots(program.width))
  BY <1>1, SourceOperation DEF Op
<1>3. CompiledTo(program, edges, basis, (step - 1) + 1) = CompileStep(program, edges, basis, CompiledTo(program, edges, basis, step - 1), (step - 1) + 1)
  BY <1>1, CompiledEquations
<1> QED
  BY <1>1, <1>2, <1>3, SlotsNat DEF SoFar, Goal

LEMMA RoutingStarts == RoutingInit => RoutingInv
<1> SUFFICES ASSUME RoutingInit PROVE RoutingInv
  OBVIOUS
<1>1. program \in Programs /\ edges \in Topologies /\ UNION edges \subseteq Slots(program.width) /\ step = 1
  BY DEF RoutingInit, Qubits, Slots
<1>2. WellFormed(program)
  BY <1>1, RoutingAssumption
<1>3. RoutingTypes
  BY <1>1, <1>2, SourceFacts DEF RoutingTypes
<1>4. SoFar = Nothing
  <2>1. step - 1 = 0
    BY <1>1
  <2> QED
    BY <2>1, CompiledEquations DEF SoFar
<1>5. routed = <<>> /\ trace = <<>>
  BY DEF RoutingInit
<1>6. RoutingSoFar
  BY <1>4, <1>5 DEF RoutingSoFar, Nothing
<1>7. verdict = IF basis \subseteq Executable THEN "scanning" ELSE "unknown_gate"
  BY DEF RoutingInit
<1>8. RoutingStages
  BY <1>7 DEF RoutingStages, Refusals
<1>9. RoutingSearch
  BY <1>7 DEF RoutingSearch
<1> QED
  BY <1>3, <1>6, <1>8, <1>9 DEF RoutingInv

\* The request stays.
LEMMA RoutingStays ==
  ASSUME RoutingInv, program' = program, edges' = edges, basis' = basis, step' = step
  PROVE  /\ RoutingTypes' /\ SoFar' = SoFar /\ Op' = Op /\ Goal' = Goal
BY DEF RoutingInv, RoutingTypes, SoFar, Op, Goal

\* After an operation the next one, whatever has become of this one.
LEMMA RoutingMovesOn ==
  ASSUME RoutingInv, step <= Len(program.operations),
         program' = program, edges' = edges, basis' = basis, step' = step + 1
  PROVE  RoutingTypes' /\ SoFar' = CompileStep(program, edges, basis, SoFar, step)
<1>1. /\ step \in Nat /\ Len(program.operations) \in Nat
      /\ program \in Programs /\ edges \in Topologies /\ UNION edges \subseteq Slots(program.width)
  BY RoutingStands DEF RoutingInv, RoutingTypes
<1>2. step \in 1 .. Len(program.operations)
  BY RoutingNow
<1>3. step' \in 1 .. Len(program.operations) + 1 /\ step' - 1 = step
  BY <1>1, <1>2
<1>4. RoutingTypes'
  BY <1>1, <1>3 DEF RoutingTypes
<1>5. SoFar' = CompiledTo(program, edges, basis, step)
  BY <1>3 DEF SoFar
<1> QED
  BY <1>4, <1>5, RoutingNow

LEMMA RoutingCopies ==
  ASSUME RoutingInv, CopyOperation
  PROVE  RoutingInv'
<1>1. /\ verdict = "scanning" /\ step <= Len(program.operations) /\ Op.gate \notin TwoQubit
      /\ Op.gate \in Executable => Op.gate \in basis
      /\ routed' = Append(routed, Op) /\ step' = step + 1 /\ trace' = trace /\ verdict' = verdict
      /\ program' = program /\ edges' = edges /\ basis' = basis
  BY DEF CopyOperation, Scanning, job
<1>2. RoutingTypes' /\ SoFar' = CompileStep(program, edges, basis, SoFar, step)
  BY <1>1, RoutingMovesOn
<1>3. SoFar \in Results /\ SoFar.verdict = "compiled" /\ routed = SoFar.operations /\ trace = SoFar.trace
  BY RoutingStands DEF RoutingInv, RoutingSoFar
<1>4. SoFar' = Outcome("compiled", Append(routed, Op), trace)
  <2> DEFINE met == SoFar
             now == SoFar'
  <2>1. met \in Results /\ met.verdict = "compiled" /\ now = CompileStep(program, edges, basis, met, step) /\ Op = program.operations[step]
    BY <1>2, <1>3 DEF Op
  <2>2. met.operations = routed /\ met.trace = trace
    BY <1>3
  <2> HIDE DEF met, now
  <2>3. now = Outcome("compiled", Append(met.operations, Op), met.trace)
    BY <1>1, <2>1, StepOutcomes
  <2> QED
    BY <2>2, <2>3 DEF now
<1>5. RoutingSoFar'
  BY <1>1, <1>4 DEF RoutingSoFar, Outcome
<1>6. RoutingStages' /\ RoutingSearch'
  BY <1>1 DEF RoutingInv, RoutingStages, RoutingSearch, Refusals
<1> QED
  BY <1>2, <1>5, <1>6 DEF RoutingInv

LEMMA RoutingRefuses ==
  ASSUME RoutingInv, step <= Len(program.operations), verdict \in {"scanning", "searching"},
         NEW reason \in Refusals \ {"unknown_gate"}, Refuse(reason),
         CompileStep(program, edges, basis, SoFar, step).verdict = reason
  PROVE  RoutingInv'
<1>1. /\ verdict' = reason /\ program' = program /\ edges' = edges /\ basis' = basis /\ step' = step
      /\ routed' = routed /\ trace' = trace
  BY DEF Refuse, job
<1>2. RoutingTypes' /\ SoFar' = SoFar
  BY <1>1, RoutingStays
<1>3. RoutingSoFar'
  BY <1>1, <1>2 DEF RoutingInv, RoutingSoFar
<1>4. basis \subseteq Executable
  BY DEF RoutingInv, RoutingStages
<1>5. CompiledTo(program, edges, basis, step).verdict = reason
  BY RoutingNow
<1>6. reason # "unknown_gate" /\ reason # "compiled" /\ reason # "searching" /\ reason \in Refusals
  BY DEF Refusals
<1>7. RoutingStages'
  BY <1>1, <1>4, <1>5, <1>6 DEF RoutingStages
<1>8. RoutingSearch'
  BY <1>1, <1>6 DEF RoutingSearch
<1> QED
  BY <1>2, <1>3, <1>7, <1>8 DEF RoutingInv

\* The function compiles the next operation, too.
LEMMA RoutingGoesOn ==
  ASSUME RoutingInv, step <= Len(program.operations)
  PROVE  /\ SoFar \in Results /\ SoFar.verdict = "compiled" /\ Op = program.operations[step]
         /\ SoFar.operations = routed /\ SoFar.trace = trace
BY RoutingStands DEF RoutingInv, RoutingSoFar, Op

LEMMA RoutingRefusesGate ==
  ASSUME RoutingInv, RefuseGate
  PROVE  RoutingInv'
<1>1. verdict = "scanning" /\ step <= Len(program.operations) /\ Op.gate \in Executable \ basis /\ Refuse("unsupported_gate")
  BY DEF RefuseGate, Scanning
<1> DEFINE met == SoFar
           now == CompileStep(program, edges, basis, met, step)
<1>2. met \in Results /\ met.verdict = "compiled" /\ now = CompileStep(program, edges, basis, met, step) /\ Op = program.operations[step]
  BY <1>1, RoutingGoesOn
<1> HIDE DEF met, now
<1>3. now = Outcome("unsupported_gate", met.operations, met.trace)
  BY <1>1, <1>2, StepOutcomes
<1>4. now.verdict = "unsupported_gate"
  BY <1>3 DEF Outcome
<1>5. "unsupported_gate" \in Refusals \ {"unknown_gate"} /\ verdict \in {"scanning", "searching"}
  BY <1>1 DEF Refusals
<1> QED
  BY <1>1, <1>4, <1>5, RoutingRefuses DEF now, met

LEMMA RoutingStartsSearch ==
  ASSUME RoutingInv, StartSearch
  PROVE  RoutingInv'
<1>1. /\ verdict = "scanning" /\ step <= Len(program.operations) /\ Op.gate \in TwoQubit \cap basis
      /\ queue' = <<<<Op.qubits[1]>>>> /\ visited' = {Op.qubits[1]} /\ verdict' = "searching"
      /\ program' = program /\ edges' = edges /\ basis' = basis /\ step' = step
      /\ routed' = routed /\ trace' = trace
  BY DEF StartSearch, Scanning, job
<1>2. RoutingTypes' /\ SoFar' = SoFar /\ Op' = Op /\ Goal' = Goal
  BY <1>1, RoutingStays
<1>3. RoutingSoFar'
  BY <1>1, <1>2 DEF RoutingInv, RoutingSoFar
<1>4. RoutingStages'
  BY <1>1 DEF RoutingInv, RoutingStages, Refusals
<1>5. Op.qubits[1] \in Nat
  BY <1>1, RoutingNow
<1> DEFINE start == Op.qubits[1]
<1>6. Queued(edges, start, <<<<start>>>>)
  BY <1>5, SearchStarts
<1>7. Reached(edges, start, Goal, <<<<start>>>>, {start})
  BY <1>5, SearchStarts
<1>8. Queued(edges', start, queue') /\ Reached(edges', start, Goal, queue', visited')
  BY <1>1, <1>6, <1>7
<1>9. step' <= Len(program'.operations)
  BY <1>1
<1>10. Op.gate \in TwoQubit \cap basis'
  BY <1>1
<1> HIDE DEF start
<1>11. Op'.gate = Op.gate /\ Op'.qubits[1] = start
  BY <1>2 DEF start
<1>12. RoutingSearch'
  BY <1>2, <1>8, <1>9, <1>10, <1>11 DEF RoutingSearch
<1> QED
  BY <1>2, <1>3, <1>4, <1>12 DEF RoutingInv

LEMMA RoutingExtends ==
  ASSUME RoutingInv, ExtendPath
  PROVE  RoutingInv'
<1>1. /\ verdict = "searching" /\ queue # <<>> /\ Last(Path) # Goal /\ verdict' = verdict
      /\ program' = program /\ edges' = edges /\ basis' = basis /\ step' = step
      /\ routed' = routed /\ trace' = trace
  BY DEF ExtendPath, job
<1>2. /\ visited' = visited \cup ToSet(Fresh)
      /\ queue' = Tail(queue) \o [i \in DOMAIN Fresh |-> Append(Path, Fresh[i])]
  BY DEF ExtendPath
<1>3. RoutingTypes' /\ SoFar' = SoFar /\ Op' = Op /\ Goal' = Goal
  BY <1>1, RoutingStays
<1>4. RoutingSoFar'
  BY <1>1, <1>3 DEF RoutingInv, RoutingSoFar
<1>5. RoutingStages'
  BY <1>1 DEF RoutingInv, RoutingStages
<1> DEFINE start == Op.qubits[1]
<1>6. /\ step <= Len(program.operations) /\ Op.gate \in TwoQubit \cap basis
      /\ Queued(edges, start, queue) /\ Reached(edges, start, Goal, queue, visited)
  BY <1>1 DEF RoutingInv, RoutingSearch
<1>7. start \in Nat
  BY <1>6, RoutingNow
<1>8. program.width \in Nat /\ UNION edges \subseteq Slots(program.width)
  BY RoutingStands
<1> HIDE DEF start
<1> DEFINE path == Path
           more == Fresh
           next == queue'
<1>9. /\ path = Head(queue) /\ Last(path) # Goal
      /\ more = Sorted(Neighbours(edges, Last(path)) \ visited)
      /\ next = Tail(queue) \o [i \in DOMAIN more |-> Append(path, more[i])]
  BY <1>1, <1>2 DEF Path, Fresh
<1>10. visited' = visited \cup ToSet(more)
  BY <1>2
<1> HIDE DEF path, more, next
<1>11. Queued(edges, start, next)
  BY <1>1, <1>6, <1>7, <1>8, <1>9, SearchGoesOn
<1>12. Reached(edges, start, Goal, next, visited \cup ToSet(more))
  BY <1>1, <1>6, <1>7, <1>8, <1>9, SearchGoesOn
<1>13. Queued(edges', start, queue') /\ Reached(edges', start, Goal, queue', visited')
  BY <1>1, <1>10, <1>11, <1>12 DEF next
<1>14. step' <= Len(program'.operations) /\ Op.gate \in TwoQubit \cap basis'
  BY <1>1, <1>6
<1>15. Op'.gate = Op.gate /\ Op'.qubits[1] = start
  BY <1>3 DEF start
<1>16. RoutingSearch'
  BY <1>3, <1>13, <1>14, <1>15 DEF RoutingSearch
<1> QED
  BY <1>3, <1>4, <1>5, <1>16 DEF RoutingInv

LEMMA RoutingFindsNone ==
  ASSUME RoutingInv, Disconnected
  PROVE  RoutingInv'
<1>1. verdict = "searching" /\ queue = <<>> /\ Refuse("disconnected")
  BY DEF Disconnected
<1>2. /\ step <= Len(program.operations) /\ Op.gate \in TwoQubit \cap basis
      /\ Reached(edges, Op.qubits[1], Goal, <<>>, visited)
  BY <1>1 DEF RoutingInv, RoutingSearch
<1>3. program.width \in Nat /\ Goal = Op.qubits[2]
  BY <1>2, RoutingStands, RoutingNow
<1>4. ~Joined(program, edges, Op.qubits[1], Op.qubits[2])
  BY <1>2, <1>3, SearchEnds
<1> DEFINE met == SoFar
           now == CompileStep(program, edges, basis, met, step)
           path == Along(program, edges, Op)
<1>5. met \in Results /\ met.verdict = "compiled" /\ now = CompileStep(program, edges, basis, met, step) /\ Op = program.operations[step]
  BY <1>2, RoutingGoesOn
<1>6. path = Along(program, edges, Op)
  OBVIOUS
<1> HIDE DEF met, now, path
<1>7. now = Outcome("disconnected", met.operations, met.trace)
  BY <1>2, <1>4, <1>5, <1>6, StepOutcomes
<1>8. now.verdict = "disconnected"
  BY <1>7 DEF Outcome
<1>9. "disconnected" \in Refusals \ {"unknown_gate"} /\ verdict \in {"scanning", "searching"}
  BY <1>1 DEF Refusals
<1> QED
  BY <1>1, <1>2, <1>8, <1>9, RoutingRefuses DEF now, met

\* The path that is found is the route.
LEMMA RoutingFinds ==
  ASSUME RoutingInv, verdict = "searching", queue # <<>>, Last(Path) = Goal
  PROVE  /\ step <= Len(program.operations) /\ Op.gate \in TwoQubit \cap basis
         /\ Joined(program, edges, Op.qubits[1], Op.qubits[2]) /\ Path = Along(program, edges, Op)
<1> DEFINE start == Op.qubits[1]
<1>1. /\ step <= Len(program.operations) /\ Op.gate \in TwoQubit \cap basis
      /\ Queued(edges, start, queue)
  BY DEF RoutingInv, RoutingSearch
<1>2. start \in Slots(program.width) /\ Goal = Op.qubits[2]
  BY <1>1, RoutingNow
<1>3. program.width \in Nat /\ UNION edges \subseteq Slots(program.width)
  BY RoutingStands
<1> HIDE DEF start
<1>4. Preferred(edges, start, Path)
  <2>1. queue \in Seq(Seq(Nat))
    BY <1>1 DEF Queued
  <2>2. 1 \in 1 .. Len(queue) /\ Path = queue[1]
    BY <2>1 DEF Path
  <2> QED
    BY <1>1, <2>2 DEF Queued
<1>5. Joined(program, edges, start, Last(Path))
  BY <1>2, <1>3, <1>4, PreferredIsRoute
<1>6. Path = Route(program, edges, start, Last(Path))
  BY <1>2, <1>3, <1>4, PreferredIsRoute
<1> QED
  BY <1>1, <1>2, <1>5, <1>6 DEF Along, start

LEMMA RoutingMissesSwap ==
  ASSUME RoutingInv, MissingSwap
  PROVE  RoutingInv'
<1>1. /\ verdict = "searching" /\ queue # <<>> /\ Last(Path) = Goal
      /\ Len(Path) > 2 /\ "SWAP" \notin basis /\ Refuse("missing_swap")
  BY DEF MissingSwap
<1>2. /\ step <= Len(program.operations) /\ Op.gate \in TwoQubit \cap basis
      /\ Joined(program, edges, Op.qubits[1], Op.qubits[2]) /\ Path = Along(program, edges, Op)
  BY <1>1, RoutingFinds
<1> DEFINE met == SoFar
           now == CompileStep(program, edges, basis, met, step)
           path == Path
<1>3. met \in Results /\ met.verdict = "compiled" /\ now = CompileStep(program, edges, basis, met, step) /\ Op = program.operations[step]
  BY <1>2, RoutingGoesOn
<1>4. path = Along(program, edges, Op) /\ Len(path) > 2
  BY <1>1, <1>2
<1> HIDE DEF met, now, path
<1>5. now = Outcome("missing_swap", met.operations, met.trace)
  BY <1>1, <1>2, <1>3, <1>4, StepOutcomes
<1>6. now.verdict = "missing_swap"
  BY <1>5 DEF Outcome
<1>7. "missing_swap" \in Refusals \ {"unknown_gate"} /\ verdict \in {"scanning", "searching"}
  BY <1>1 DEF Refusals
<1> QED
  BY <1>1, <1>2, <1>6, <1>7, RoutingRefuses DEF now, met

LEMMA RoutingRoutes ==
  ASSUME RoutingInv, RouteGate
  PROVE  RoutingInv'
<1>1. /\ verdict = "searching" /\ queue # <<>> /\ Last(Path) = Goal
      /\ Len(Path) > 2 => "SWAP" \in basis
      /\ routed' = routed \o Routed(Op, Path) /\ trace' = Append(trace, RouteRecord(step, Op, Path))
      /\ step' = step + 1 /\ verdict' = "scanning"
      /\ program' = program /\ edges' = edges /\ basis' = basis
  BY DEF RouteGate, job
<1>2. /\ step <= Len(program.operations) /\ Op.gate \in TwoQubit \cap basis
      /\ Joined(program, edges, Op.qubits[1], Op.qubits[2]) /\ Path = Along(program, edges, Op)
  BY <1>1, RoutingFinds
<1>3. RoutingTypes' /\ SoFar' = CompileStep(program, edges, basis, SoFar, step)
  BY <1>1, <1>2, RoutingMovesOn
<1>4. SoFar \in Results /\ SoFar.verdict = "compiled" /\ Op = program.operations[step] /\ SoFar.operations = routed /\ SoFar.trace = trace
  BY <1>2, RoutingGoesOn
<1>5. SoFar' = Outcome("compiled", routed', trace')
  <2> DEFINE met == SoFar
             now == SoFar'
             path == Path
  <2>1. met \in Results /\ met.verdict = "compiled" /\ now = CompileStep(program, edges, basis, met, step) /\ Op = program.operations[step]
    BY <1>3, <1>4
  <2>2. met.operations = routed /\ met.trace = trace
    BY <1>4
  <2>3. path = Along(program, edges, Op) /\ ~(Len(path) > 2 /\ "SWAP" \notin basis)
    BY <1>1, <1>2
  <2>4. routed' = routed \o Routed(Op, path) /\ trace' = Append(trace, RouteRecord(step, Op, path))
    BY <1>1
  <2> HIDE DEF met, now, path
  <2>5. now = Outcome("compiled", met.operations \o Routed(Op, path), Append(met.trace, RouteRecord(step, Op, path)))
    BY <1>2, <2>1, <2>3, StepOutcomes
  <2> QED
    BY <2>2, <2>4, <2>5 DEF now
<1>6. RoutingSoFar'
  BY <1>5 DEF RoutingSoFar, Outcome
<1>7. RoutingStages' /\ RoutingSearch'
  BY <1>1 DEF RoutingInv, RoutingStages, RoutingSearch, Refusals
<1> QED
  BY <1>3, <1>6, <1>7 DEF RoutingInv

LEMMA RoutingFinishes ==
  ASSUME RoutingInv, Finish
  PROVE  RoutingInv'
<1>1. /\ verdict = "scanning" /\ step > Len(program.operations) /\ verdict' = "compiled"
      /\ program' = program /\ edges' = edges /\ basis' = basis /\ step' = step
      /\ routed' = routed /\ trace' = trace
  BY DEF Finish, job
<1>2. RoutingTypes' /\ SoFar' = SoFar
  BY <1>1, RoutingStays
<1>3. RoutingSoFar'
  BY <1>1, <1>2 DEF RoutingInv, RoutingSoFar
<1>4. step = Len(program.operations) + 1
  <2>1. step \in Nat /\ Len(program.operations) \in Nat /\ step \in 1 .. Len(program.operations) + 1
    BY RoutingStands DEF RoutingInv, RoutingTypes
  <2> QED
    BY <1>1, <2>1
<1>5. RoutingStages' /\ RoutingSearch'
  BY <1>1, <1>4 DEF RoutingInv, RoutingStages, RoutingSearch, Refusals
<1> QED
  BY <1>2, <1>3, <1>5 DEF RoutingInv

LEMMA RoutingRests ==
  ASSUME RoutingInv, UNCHANGED routingVars
  PROVE  RoutingInv'
<1>1. /\ verdict' = verdict /\ program' = program /\ edges' = edges /\ basis' = basis /\ step' = step
      /\ routed' = routed /\ trace' = trace /\ queue' = queue /\ visited' = visited
  BY DEF routingVars, job
<1>2. RoutingTypes' /\ SoFar' = SoFar /\ Op' = Op /\ Goal' = Goal
  BY <1>1, RoutingStays
<1>3. RoutingSoFar'
  BY <1>1, <1>2 DEF RoutingInv, RoutingSoFar
<1>4. RoutingStages'
  BY <1>1 DEF RoutingInv, RoutingStages
<1>5. RoutingSearch'
  BY <1>1, <1>2 DEF RoutingInv, RoutingSearch
<1> QED
  BY <1>2, <1>3, <1>4, <1>5 DEF RoutingInv

LEMMA RoutingSteps == RoutingInv /\ [RoutingNext]_routingVars => RoutingInv'
<1> SUFFICES ASSUME RoutingInv, [RoutingNext]_routingVars PROVE RoutingInv'
  OBVIOUS
<1>1. CASE CopyOperation
  BY <1>1, RoutingCopies
<1>2. CASE RefuseGate
  BY <1>2, RoutingRefusesGate
<1>3. CASE StartSearch
  BY <1>3, RoutingStartsSearch
<1>4. CASE ExtendPath
  BY <1>4, RoutingExtends
<1>5. CASE Disconnected
  BY <1>5, RoutingFindsNone
<1>6. CASE MissingSwap
  BY <1>6, RoutingMissesSwap
<1>7. CASE RouteGate
  BY <1>7, RoutingRoutes
<1>8. CASE Finish
  BY <1>8, RoutingFinishes
<1>9. CASE UNCHANGED routingVars
  BY <1>9, RoutingRests
<1> QED
  BY <1>1, <1>2, <1>3, <1>4, <1>5, <1>6, <1>7, <1>8, <1>9 DEF RoutingNext, Halted

LEMMA RoutingHolds == RoutingSpec => []RoutingInv
BY RoutingStarts, RoutingSteps, PTL DEF RoutingSpec

\* Between any two operations, what the compiler has emitted does what the source has
\* done so far, natively and on coupled qubits.
THEOREM RoutingDoesTheSource == RoutingSpec => []RoutedDoesWhatTheSourceDoes
<1>1. RoutingInv => RoutedDoesWhatTheSourceDoes
  <2> SUFFICES ASSUME RoutingInv PROVE RoutedDoesWhatTheSourceDoes
    OBVIOUS
  <2>1. /\ WellFormed(program) /\ UNION edges \subseteq Slots(program.width)
        /\ step - 1 \in 0 .. Len(program.operations) /\ SoFar \in Results
    BY RoutingStands
  <2>2. SoFar = CompiledTo(program, edges, basis, step - 1) /\ SoFar.verdict = "compiled" /\ routed = SoFar.operations
    BY DEF RoutingInv, RoutingSoFar, SoFar
  <2>3. \A i \in 1 .. Len(SoFar.operations) : OnDevice(SoFar.operations[i], edges, basis)
    BY <2>1, <2>2, CompiledOnDevice
  <2>4. Meaning(program.width, SoFar.operations) = Meaning(program.width, SubSeq(program.operations, 1, step - 1))
    BY <2>1, <2>2, CompiledMeaning
  <2>5. routed \in Seq(Operations)
    BY <2>1, <2>2, ResultFields
  <2>6. DOMAIN routed = 1 .. Len(routed)
    BY <2>5
  <2>7. \A i \in DOMAIN routed : OnDevice(routed[i], edges, basis)
    BY <2>2, <2>3, <2>6
  <2> QED
    BY <2>2, <2>4, <2>7 DEF RoutedDoesWhatTheSourceDoes
<1> QED
  BY <1>1, RoutingHolds, PTL

\* The breadth-first search finds the routes that the distances define: the compiler
\* ends as the function Compile does, with the same operations and the same proof.
THEOREM RoutingFollowsDistances == RoutingSpec => []CompilesByDistance
<1>1. RoutingInv => CompilesByDistance
  <2> SUFFICES ASSUME RoutingInv PROVE CompilesByDistance
    OBVIOUS
  <2> DEFINE result == Compile(program, edges, basis)
             l == Len(program.operations)
  <2>1. l \in Nat /\ step \in Nat /\ step - 1 \in Nat
    BY RoutingStands
  <2>2. verdict = "unknown_gate" <=> ~(basis \subseteq Executable)
    BY DEF RoutingInv, RoutingStages
  <2>3. SoFar.verdict = "compiled" /\ routed = SoFar.operations /\ trace = SoFar.trace
    BY DEF RoutingInv, RoutingSoFar
  <2>4. basis \subseteq Executable => result = CompiledTo(program, edges, basis, l)
    BY DEF Compile
  <2>5. ~(basis \subseteq Executable) => result.verdict = "unknown_gate"
    BY DEF Compile, Nothing
  <2> HIDE DEF result
  <2>6. CASE verdict = "unknown_gate"
    <3>1. result.verdict = verdict /\ verdict # "compiled"
      BY <2>2, <2>5, <2>6
    <3> QED
      BY <3>1 DEF CompilesByDistance, result
  <2>7. CASE verdict \in Refusals \ {"unknown_gate"}
    <3>1. step <= l /\ CompiledTo(program, edges, basis, step).verdict = verdict
      BY <2>7 DEF RoutingInv, RoutingStages
    <3>2. verdict # "compiled" /\ basis \subseteq Executable
      BY <2>2, <2>7 DEF Refusals
    <3>3. CompiledTo(program, edges, basis, l) = CompiledTo(program, edges, basis, step)
      <4> HIDE DEF l
      <4> QED
        BY <2>1, <3>1, <3>2, RefusedStays
    <3>4. result.verdict = verdict
      BY <2>4, <3>1, <3>2, <3>3
    <3> QED
      BY <3>2, <3>4 DEF CompilesByDistance, result
  <2>8. CASE verdict = "compiled"
    <3>1. step = l + 1
      BY <2>8 DEF RoutingInv, RoutingStages
    <3>2. step - 1 = l
      BY <2>1, <3>1
    <3>3. result = SoFar
      BY <2>2, <2>4, <2>8, <3>2 DEF SoFar
    <3> QED
      BY <2>3, <2>8, <3>3 DEF CompilesByDistance, result
  <2>9. CASE verdict \notin Refusals \cup {"compiled"}
    BY <2>9 DEF CompilesByDistance
  <2> QED
    BY <2>6, <2>7, <2>8, <2>9
<1> QED
  BY <1>1, RoutingHolds, PTL
=============================================================================
