---------------------- MODULE SemanticConformanceProofs ----------------------
(***************************************************************************)
(* Proofs about SemanticConformance: its types, that an F2 PASS leaves     *)
(* nothing out, that one context judges a report, and that the cache is    *)
(* the recent past, whatever the graphs and the limit of the cache.        *)
(***************************************************************************)
EXTENDS SemanticConformance, SequenceTheorems, TLAPS

\* How many contexts are kept.
Kept == IF Len(used) < CacheLimit THEN Len(used) ELSE CacheLimit

\* The n-th subject of a graph.
SubjectOf(g, n) ==
  IF n <= Len(ArtifactsOf(g)) THEN ArtifactsOf(g)[n] ELSE RelationsOf(g)[n - Len(ArtifactsOf(g))]

\* Every graph was asked for last exactly once.
EachOnce == \A i, j \in 1 .. Len(used) : used[i] = used[j] => i = j

\* CacheIsTheRecentPast, place by place.
RecentPast ==
  /\ Len(cache) = Kept
  /\ \A i \in 1 .. Kept : cache[i].graph = used[Len(used) - Kept + i]

\* No context passed a graph that does not replay.
HonestCache == \A e \in ToSet(cache) : e.status = "PASS" => Contents[e.graph].replays

\* Why a subject has the statuses it has.
Judged(n) ==
  /\ results[n] # {}
  /\ JudgedAs(graph, n) = "native" =>
       \E e \in Cached(graph) : results[n] = NativeStatuses(SubjectOf(graph, n), e.status)
  /\ JudgedAs(graph, n) \notin Installed => results[n] = {"BLOCKED"}

Progress ==
  /\ Len(results) <= Subjects(graph)
  /\ \A n \in 1 .. Len(results) : Judged(n)
  /\ replays <= 1
  /\ replays = 1 => Cached(graph) # {}

Reported ==
  report # Pending =>
    /\ Semantic => Len(results) = Subjects(graph)
    /\ report = ReportOf(graph, level,
                  IF level # "F2" THEN "NOT_IMPLEMENTED" ELSE Aggregate(UNION ToSet(results)))

\* The inductive invariant.
Inv == TypeOK /\ EachOnce /\ RecentPast /\ HonestCache /\ Progress /\ Reported

-----------------------------------------------------------------------------
(* Sequences: a place vacated, an element moved to the end, a suffix kept. *)

LEMMA RemoveAtProperties ==
  ASSUME NEW S, NEW s \in Seq(S), NEW i \in 1 .. Len(s)
  PROVE  /\ RemoveAt(s, i) \in Seq(S)
         /\ Len(RemoveAt(s, i)) = Len(s) - 1
         /\ \A j \in 1 .. Len(s) - 1 : RemoveAt(s, i)[j] = IF j < i THEN s[j] ELSE s[j + 1]
<1> DEFINE a == SubSeq(s, 1, i - 1)
           b == SubSeq(s, i + 1, Len(s))
<1>1. \A j \in 1 .. Len(s) : s[j] \in S
  BY ElementOfSeq
<1>2. Len(s) \in Nat
  BY LenProperties
<1>3. a \in Seq(S) /\ Len(a) = i - 1 /\ \A j \in 1 .. i - 1 : a[j] = s[j]
  BY <1>1, <1>2, SubSeqProperties
<1>4. b \in Seq(S) /\ Len(b) = Len(s) - i /\ \A j \in 1 .. Len(s) - i : b[j] = s[i + j]
  BY <1>1, <1>2, SubSeqProperties
<1> HIDE DEF a, b
<1>5. /\ a \o b \in Seq(S)
      /\ Len(a \o b) = Len(a) + Len(b)
      /\ \A j \in 1 .. Len(a) + Len(b) : (a \o b)[j] = IF j <= Len(a) THEN a[j] ELSE b[j - Len(a)]
  BY <1>3, <1>4, ConcatProperties
<1>6. RemoveAt(s, i) = a \o b
  BY DEF RemoveAt, a, b
<1>7. Len(a) + Len(b) = Len(s) - 1
  BY <1>2, <1>3, <1>4
<1>8. ASSUME NEW j \in 1 .. Len(s) - 1
      PROVE  (a \o b)[j] = IF j < i THEN s[j] ELSE s[j + 1]
  <2>1. CASE j < i
    BY <1>2, <1>3, <1>5, <1>7, <2>1
  <2>2. CASE ~(j < i)
    <3>1. (a \o b)[j] = b[j - (i - 1)] /\ j - (i - 1) \in 1 .. Len(s) - i
      BY <1>2, <1>3, <1>5, <1>7, <2>2
    <3>2. i + (j - (i - 1)) = j + 1
      BY <1>2
    <3>3. QED
      BY <1>4, <2>2, <3>1, <3>2
  <2>3. QED
    BY <2>1, <2>2
<1>9. QED
  BY <1>5, <1>6, <1>7, <1>8

\* An element that is there moves to the end.
LEMMA TouchedMoves ==
  ASSUME NEW S, NEW s \in Seq(S), NEW i \in 1 .. Len(s),
         \A j \in 1 .. Len(s) : s[j] = s[i] => j = i
  PROVE  /\ Touched(s, s[i]) \in Seq(S)
         /\ Len(Touched(s, s[i])) = Len(s)
         /\ \A j \in 1 .. Len(s) - 1 : Touched(s, s[i])[j] = IF j < i THEN s[j] ELSE s[j + 1]
         /\ Touched(s, s[i])[Len(s)] = s[i]
<1>1. SelectInSeq(s, LAMBDA v : v = s[i]) = i
  BY DEF SelectInSeq, Min
<1>2. RemoveFirst(s, s[i]) = RemoveAt(s, i)
  BY <1>1 DEF RemoveFirst
<1>3. s[i] \in S /\ Len(s) \in Nat
  BY ElementOfSeq, LenProperties
<1>4. QED
  BY <1>2, <1>3, RemoveAtProperties, AppendProperties DEF Touched

\* An element that is not joins at the end.
LEMMA TouchedJoins ==
  ASSUME NEW s, NEW e, \A j \in 1 .. Len(s) : s[j] # e
  PROVE  Touched(s, e) = Append(s, e)
BY DEF Touched, RemoveFirst

LEMMA EvictedProperties ==
  ASSUME NEW S, NEW s \in Seq(S)
  PROVE  /\ Evicted(s) \in Seq(S)
         /\ Len(Evicted(s)) = IF Len(s) > CacheLimit THEN CacheLimit ELSE Len(s)
         /\ \A i \in 1 .. Len(Evicted(s)) : Evicted(s)[i] = s[Len(s) - Len(Evicted(s)) + i]
<1>1. CacheLimit \in Nat \ {0} /\ Len(s) \in Nat /\ \A i \in 1 .. Len(s) : s[i] \in S
  BY ConformanceAssumption, LenProperties, ElementOfSeq
<1>2. CASE Len(s) > CacheLimit
  BY <1>1, <1>2, SubSeqProperties DEF Evicted
<1>3. CASE ~(Len(s) > CacheLimit)
  BY <1>1, <1>3 DEF Evicted
<1>4. QED
  BY <1>2, <1>3

LEMMA ToSetProperties ==
  ASSUME NEW S, NEW s \in Seq(S)
  PROVE  /\ ToSet(s) = {s[i] : i \in 1 .. Len(s)}
         /\ ToSet(s) \subseteq S
<1>1. DOMAIN s = 1 .. Len(s) /\ \A i \in 1 .. Len(s) : s[i] \in S
  BY LenProperties, ElementOfSeq
<1>2. QED
  BY <1>1 DEF ToSet

-----------------------------------------------------------------------------
(* The cache.                                                              *)

LEMMA Lengths ==
  ASSUME TypeOK
  PROVE  /\ Len(used) \in Nat /\ Len(cache) \in Nat /\ Len(results) \in Nat
         /\ \A i \in 1 .. Len(used) : used[i] \in Graphs
         /\ \A i \in 1 .. Len(cache) : cache[i] \in [graph : Graphs, status : Statuses]
         /\ CacheLimit \in Nat \ {0} /\ Kept \in 0 .. Len(used) /\ Kept <= CacheLimit
<1>1. Len(used) \in Nat /\ Len(cache) \in Nat /\ Len(results) \in Nat
  BY LenProperties DEF TypeOK
<1>2. \A i \in 1 .. Len(used) : used[i] \in Graphs
  BY ElementOfSeq DEF TypeOK
<1>3. \A i \in 1 .. Len(cache) : cache[i] \in [graph : Graphs, status : Statuses]
  BY ElementOfSeq DEF TypeOK
<1>4. CacheLimit \in Nat \ {0}
  BY ConformanceAssumption
<1>5. QED
  BY <1>1, <1>2, <1>3, <1>4 DEF Kept

\* To ask for a context keeps the order of the past.
LEMMA UsedFollows ==
  ASSUME TypeOK, EachOnce, used' = Touched(used, graph)
  PROVE  used' \in Seq(Graphs) /\ EachOnce'
<1>1. CASE \E p \in 1 .. Len(used) : used[p] = graph
  <2>1. PICK p \in 1 .. Len(used) : used[p] = graph
    BY <1>1
  <2>2. /\ used' \in Seq(Graphs) /\ Len(used') = Len(used)
        /\ \A j \in 1 .. Len(used) - 1 : used'[j] = IF j < p THEN used[j] ELSE used[j + 1]
        /\ used'[Len(used)] = used[p]
    BY <2>1, TouchedMoves DEF TypeOK, EachOnce
  <2>3. ASSUME NEW i \in 1 .. Len(used), NEW j \in 1 .. Len(used), used'[i] = used'[j]
        PROVE  i = j
    <3> DEFINE From(n) == IF n = Len(used) THEN p ELSE IF n < p THEN n ELSE n + 1
    <3>1. \A n \in 1 .. Len(used) : From(n) \in 1 .. Len(used) /\ used'[n] = used[From(n)]
      BY <2>2, Lengths
    <3>2. From(i) = From(j)
      BY <2>3, <3>1 DEF EachOnce
    <3>3. QED
      BY <3>2, Lengths
  <2>4. QED
    BY <2>2, <2>3 DEF EachOnce
<1>2. CASE ~ \E p \in 1 .. Len(used) : used[p] = graph
  <2>1. used' = Append(used, graph)
    BY <1>2, TouchedJoins
  <2>2. /\ used' \in Seq(Graphs) /\ Len(used') = Len(used) + 1
        /\ \A j \in 1 .. Len(used) : used'[j] = used[j]
        /\ used'[Len(used) + 1] = graph
    BY <2>1, AppendProperties DEF TypeOK
  <2>3. QED
    BY <1>2, <2>2, Lengths DEF EachOnce
<1>3. QED
  BY <1>1, <1>2

\* A context that is there is used again, and only its place changes.
LEMMA ContextFound ==
  ASSUME TypeOK, EachOnce, RecentPast, NEW s \in Statuses, Entry(graph, s) \in Cached(graph),
         cache' = Touched(cache, Entry(graph, s)), used' = Touched(used, graph)
  PROVE  /\ cache' \in Seq([graph : Graphs, status : Statuses])
         /\ ToSet(cache') = ToSet(cache)
         /\ RecentPast'
<1> DEFINE Entries == [graph : Graphs, status : Statuses]
<1>1. PICK i \in 1 .. Len(cache) : cache[i] = Entry(graph, s)
  BY ToSetProperties DEF Cached, TypeOK
<1> DEFINE p == Len(used) - Kept + i
<1>2. p \in 1 .. Len(used) /\ used[p] = graph
  BY <1>1, Lengths DEF RecentPast, Entry
<1>3. \A j \in 1 .. Len(cache) : cache[j] = cache[i] => j = i
  <2>1. ASSUME NEW j \in 1 .. Len(cache), cache[j] = cache[i] PROVE j = i
    <3>1. Len(used) - Kept + j \in 1 .. Len(used) /\ used[Len(used) - Kept + j] = graph
      BY <1>1, <2>1, Lengths DEF RecentPast, Entry
    <3>2. QED
      BY <1>2, <3>1, Lengths DEF EachOnce
  <2>2. QED
    BY <2>1
<1>4. /\ cache' \in Seq(Entries) /\ Len(cache') = Len(cache)
      /\ \A j \in 1 .. Len(cache) - 1 : cache'[j] = IF j < i THEN cache[j] ELSE cache[j + 1]
      /\ cache'[Len(cache)] = cache[i]
  <2>1. cache \in Seq(Entries) /\ cache' = Touched(cache, cache[i])
    BY <1>1 DEF TypeOK
  <2>2. QED
    BY <1>3, <2>1, TouchedMoves
<1>5. /\ Len(used') = Len(used)
      /\ \A j \in 1 .. Len(used) - 1 : used'[j] = IF j < p THEN used[j] ELSE used[j + 1]
      /\ used'[Len(used)] = used[p]
  BY <1>2, TouchedMoves DEF TypeOK, EachOnce
<1>6. RecentPast'
  <2>1. Kept' = Kept /\ Len(cache') = Kept
    BY <1>4, <1>5 DEF Kept, RecentPast
  <2>2. ASSUME NEW j \in 1 .. Kept
        PROVE  cache'[j].graph = used'[Len(used) - Kept + j]
    <3>1. CASE j = Kept
      <4>1. cache'[j] = cache[i] /\ Len(used) - Kept + j = Len(used)
        BY <1>4, <3>1, Lengths DEF RecentPast
      <4>2. QED
        BY <1>1, <1>2, <1>5, <4>1 DEF Entry
    <3>2. CASE j # Kept
      <4>1. Len(used) - Kept + j \in 1 .. Len(used) - 1 /\ j \in 1 .. Len(cache) - 1
        BY <3>2, Lengths DEF RecentPast
      <4>2. CASE j < i
        <5>1. cache'[j] = cache[j]
          BY <1>4, <4>1, <4>2
        <5>2. used'[Len(used) - Kept + j] = used[Len(used) - Kept + j]
          <6>1. Len(used) - Kept + j < p
            BY <4>2, Lengths
          <6>2. QED
            BY <1>5, <4>1, <6>1
        <5>3. QED
          BY <5>1, <5>2 DEF RecentPast
      <4>3. CASE ~(j < i)
        <5>1. cache'[j] = cache[j + 1]
          BY <1>4, <4>1, <4>3
        <5>2. used'[Len(used) - Kept + j] = used[Len(used) - Kept + (j + 1)]
          <6>1. ~(Len(used) - Kept + j < p) /\ (Len(used) - Kept + j) + 1 = Len(used) - Kept + (j + 1)
            BY <4>3, Lengths
          <6>2. QED
            BY <1>5, <4>1, <6>1
        <5>3. j + 1 \in 1 .. Kept
          BY <3>2, Lengths
        <5>4. QED
          BY <5>1, <5>2, <5>3 DEF RecentPast
      <4>4. QED
        BY <4>2, <4>3
    <3>3. QED
      BY <3>1, <3>2
  <2>3. QED
    BY <1>5, <2>1, <2>2 DEF RecentPast
<1>7. ToSet(cache') = ToSet(cache)
  <2>1. /\ ToSet(cache) = {cache[j] : j \in 1 .. Len(cache)}
        /\ ToSet(cache') = {cache'[j] : j \in 1 .. Len(cache)}
    BY <1>4, ToSetProperties DEF TypeOK
  <2>2. ASSUME NEW j \in 1 .. Len(cache)
        PROVE  \E n \in 1 .. Len(cache) : cache'[j] = cache[n]
    BY <1>4, Lengths
  <2>3. ASSUME NEW j \in 1 .. Len(cache)
        PROVE  \E n \in 1 .. Len(cache) : cache[j] = cache'[n]
    <3>1. CASE j < i
      BY <1>4, <3>1, Lengths
    <3>2. CASE j = i
      BY <1>4, <3>2, Lengths
    <3>3. CASE j > i
      <4>1. j - 1 \in 1 .. Len(cache) - 1 /\ ~(j - 1 < i) /\ (j - 1) + 1 = j
        BY <3>3, Lengths
      <4>2. cache'[j - 1] = cache[j]
        BY <1>4, <4>1
      <4>3. j - 1 \in 1 .. Len(cache)
        BY <4>1, Lengths
      <4>4. QED
        BY <4>2, <4>3
    <3>4. QED
      BY <3>1, <3>2, <3>3, Lengths
  <2>4. ToSet(cache') \subseteq ToSet(cache)
    BY <2>1, <2>2
  <2>5. ToSet(cache) \subseteq ToSet(cache')
    BY <2>1, <2>3
  <2>6. QED
    BY <2>4, <2>5
<1>8. QED
  BY <1>4, <1>6, <1>7

\* A context that is not there is made, and the oldest gives way to it.
LEMMA ContextMade ==
  ASSUME TypeOK, EachOnce, RecentPast, NEW s \in Statuses, Cached(graph) = {},
         cache' = Evicted(Append(cache, Entry(graph, s))), used' = Touched(used, graph)
  PROVE  /\ cache' \in Seq([graph : Graphs, status : Statuses])
         /\ Entry(graph, s) \in ToSet(cache')
         /\ ToSet(cache') \subseteq ToSet(cache) \cup {Entry(graph, s)}
         /\ RecentPast'
<1> DEFINE Entries == [graph : Graphs, status : Statuses]
           t == Append(cache, Entry(graph, s))
<1>0. graph \in Graphs /\ Entry(graph, s) \in Entries /\ cache \in Seq(Entries) /\ used \in Seq(Graphs)
  BY DEF TypeOK, Entry
<1>1. /\ t \in Seq(Entries) /\ Len(t) = Kept + 1
      /\ \A i \in 1 .. Kept : t[i] = cache[i]
      /\ t[Kept + 1] = Entry(graph, s)
  BY <1>0, AppendProperties DEF RecentPast
<1> HIDE DEF t
<1>2. /\ cache' \in Seq(Entries)
      /\ Len(cache') = IF Kept + 1 > CacheLimit THEN CacheLimit ELSE Kept + 1
      /\ \A i \in 1 .. Len(cache') : cache'[i] = t[Kept + 1 - Len(cache') + i]
  <2>1. cache' = Evicted(t)
    BY DEF t
  <2>2. /\ Evicted(t) \in Seq(Entries)
        /\ Len(Evicted(t)) = IF Len(t) > CacheLimit THEN CacheLimit ELSE Len(t)
        /\ \A i \in 1 .. Len(Evicted(t)) : Evicted(t)[i] = t[Len(t) - Len(Evicted(t)) + i]
    BY <1>1, EvictedProperties
  <2>3. cache' \in Seq(Entries) /\ Len(cache') = IF Kept + 1 > CacheLimit THEN CacheLimit ELSE Kept + 1
    BY <1>1, <2>1, <2>2
  <2>4. ASSUME NEW i \in 1 .. Len(cache')
        PROVE  cache'[i] = t[Kept + 1 - Len(cache') + i]
    <3>1. cache'[i] = t[Len(t) - Len(cache') + i]
      BY <2>1, <2>2
    <3>2. QED
      BY <1>1, <3>1, Lengths
  <2>5. QED
    BY <2>3, <2>4
<1>3. Len(cache') \in 1 .. Kept + 1 /\ cache'[Len(cache')] = Entry(graph, s)
  <2>1. Len(cache') \in 1 .. Kept + 1
    BY <1>2, Lengths
  <2>2. Kept + 1 - Len(cache') + Len(cache') = Kept + 1
    BY <2>1, Lengths
  <2>3. QED
    BY <1>1, <1>2, <2>1, <2>2
<1>4. \A i \in 1 .. Len(cache') - 1 : cache'[i] = cache[Kept + 1 - Len(cache') + i]
  <2>1. ASSUME NEW i \in 1 .. Len(cache') - 1
        PROVE  cache'[i] = cache[Kept + 1 - Len(cache') + i]
    <3>1. Kept + 1 - Len(cache') + i \in 1 .. Kept /\ i \in 1 .. Len(cache')
      BY <1>3, Lengths
    <3>2. QED
      BY <1>1, <1>2, <3>1
  <2>2. QED
    BY <2>1
<1>5. \A i \in 1 .. Kept : cache[i].graph # graph
  BY Lengths, ToSetProperties DEF Cached, TypeOK, RecentPast
<1>6. RecentPast'
  <2>1. CASE \E p \in 1 .. Len(used) : used[p] = graph
    <3>1. PICK p \in 1 .. Len(used) : used[p] = graph
      BY <2>1
    <3>2. /\ Len(used') = Len(used)
          /\ \A j \in 1 .. Len(used) - 1 : used'[j] = IF j < p THEN used[j] ELSE used[j + 1]
          /\ used'[Len(used)] = graph
      BY <3>1, TouchedMoves DEF TypeOK, EachOnce
    <3>3. p <= Len(used) - Kept
      <4>1. SUFFICES ASSUME p > Len(used) - Kept PROVE FALSE
        BY Lengths
      <4>2. p - (Len(used) - Kept) \in 1 .. Kept /\ Len(used) - Kept + (p - (Len(used) - Kept)) = p
        BY <4>1, Lengths
      <4>3. QED
        BY <1>5, <3>1, <4>2 DEF RecentPast
    <3>4. Kept = CacheLimit /\ Len(cache') = CacheLimit /\ Kept' = CacheLimit
      BY <1>2, <3>2, <3>3, Lengths DEF Kept
    <3>5. ASSUME NEW i \in 1 .. Kept - 1
          PROVE  cache'[i].graph = used'[Len(used) - Kept + i]
      <4>1. cache'[i] = cache[i + 1] /\ i + 1 \in 1 .. Kept
        BY <1>4, <3>4, Lengths
      <4>2. used'[Len(used) - Kept + i] = used[Len(used) - Kept + (i + 1)]
        <5>1. /\ Len(used) - Kept + i \in 1 .. Len(used) - 1
              /\ ~(Len(used) - Kept + i < p)
              /\ Len(used) - Kept + i + 1 = Len(used) - Kept + (i + 1)
          BY <3>3, Lengths
        <5>2. QED
          BY <3>2, <5>1
      <4>3. QED
        BY <4>1, <4>2 DEF RecentPast
    <3>6. cache'[Kept].graph = used'[Len(used) - Kept + Kept]
      BY <1>3, <3>2, <3>4, Lengths DEF Entry
    <3>7. \A i \in 1 .. Kept : i \in 1 .. Kept - 1 \/ i = Kept
      BY Lengths
    <3>8. \A i \in 1 .. Kept' : cache'[i].graph = used'[Len(used') - Kept' + i]
      BY <3>2, <3>4, <3>5, <3>6, <3>7
    <3>9. QED
      BY <3>4, <3>8 DEF RecentPast
  <2>2. CASE ~ \E p \in 1 .. Len(used) : used[p] = graph
    <3>1. used' = Append(used, graph)
      BY <2>2, TouchedJoins
    <3>2. /\ Len(used') = Len(used) + 1
          /\ \A j \in 1 .. Len(used) : used'[j] = used[j]
          /\ used'[Len(used) + 1] = graph
      BY <1>0, <3>1, AppendProperties
    <3>3. Len(cache') = Kept'
      BY <1>2, <3>2, Lengths DEF Kept
    <3>4. ASSUME NEW i \in 1 .. Len(cache')
          PROVE  cache'[i].graph = used'[Len(used') - Len(cache') + i]
      <4>1. CASE i = Len(cache')
        <5>1. Len(used') - Len(cache') + i = Len(used) + 1
          BY <1>3, <3>2, <4>1, Lengths
        <5>2. QED
          BY <1>3, <3>2, <4>1, <5>1 DEF Entry
      <4>2. CASE i # Len(cache')
        <5>1. i \in 1 .. Len(cache') - 1 /\ Kept + 1 - Len(cache') + i \in 1 .. Kept
          BY <1>3, <4>2, Lengths
        <5>2. /\ Len(used') - Len(cache') + i = Len(used) - Kept + (Kept + 1 - Len(cache') + i)
              /\ Len(used') - Len(cache') + i \in 1 .. Len(used)
          BY <1>3, <3>2, <5>1, Lengths
        <5>3. cache'[i].graph = used[Len(used) - Kept + (Kept + 1 - Len(cache') + i)]
          BY <1>4, <5>1 DEF RecentPast
        <5>4. QED
          BY <3>2, <5>2, <5>3
      <4>3. QED
        BY <4>1, <4>2
    <3>5. QED
      BY <3>3, <3>4 DEF RecentPast
  <2>3. QED
    BY <2>1, <2>2
<1>7. Entry(graph, s) \in ToSet(cache')
  BY <1>2, <1>3, ToSetProperties
<1>8. ASSUME NEW e \in ToSet(cache') PROVE e \in ToSet(cache) \cup {Entry(graph, s)}
  <2>1. PICK i \in 1 .. Len(cache') : e = cache'[i]
    BY <1>2, ToSetProperties
  <2>2. CASE i = Len(cache')
    BY <1>3, <2>1, <2>2
  <2>3. CASE i # Len(cache')
    <3>1. e = cache[Kept + 1 - Len(cache') + i] /\ Kept + 1 - Len(cache') + i \in 1 .. Len(cache)
      <4>1. i \in 1 .. Len(cache') - 1 /\ Kept + 1 - Len(cache') + i \in 1 .. Kept
        BY <1>3, <2>3, Lengths
      <4>2. QED
        BY <1>4, <2>1, <4>1 DEF RecentPast
    <3>2. QED
      BY <1>0, <3>1, ToSetProperties
  <2>4. QED
    BY <2>2, <2>3
<1>9. QED
  BY <1>2, <1>6, <1>7, <1>8

\* What asking for a context does, and what is told of the context it returns.
LEMMA ContextProperties ==
  ASSUME TypeOK, EachOnce, RecentPast, HonestCache, NEW s \in Statuses,
         Context(graph, s), used' = Touched(used, graph), UNCHANGED graph
  PROVE  /\ cache' \in Seq([graph : Graphs, status : Statuses]) /\ used' \in Seq(Graphs)
         /\ EachOnce' /\ RecentPast' /\ HonestCache'
         /\ Entry(graph, s) \in Cached(graph)'
         /\ \/ Cached(graph)' = Cached(graph) /\ Cached(graph) # {} /\ UNCHANGED replays
            \/ Cached(graph) = {} /\ replays' = replays + 1
<1>1. CASE /\ Entry(graph, s) \in Cached(graph)
           /\ cache' = Touched(cache, Entry(graph, s)) /\ UNCHANGED replays
  <2>1. /\ cache' \in Seq([graph : Graphs, status : Statuses])
        /\ ToSet(cache') = ToSet(cache) /\ RecentPast'
    BY <1>1, ContextFound
  <2>2. HonestCache' /\ Cached(graph)' = Cached(graph)
    BY <2>1 DEF HonestCache, Cached
  <2>3. QED
    BY <1>1, <2>1, <2>2, UsedFollows
<1>2. CASE /\ Cached(graph) = {} /\ s \in ReplayOutcomes(graph)
           /\ cache' = Evicted(Append(cache, Entry(graph, s))) /\ replays' = replays + 1
  <2>1. /\ cache' \in Seq([graph : Graphs, status : Statuses])
        /\ Entry(graph, s) \in ToSet(cache')
        /\ ToSet(cache') \subseteq ToSet(cache) \cup {Entry(graph, s)}
        /\ RecentPast'
    BY <1>2, ContextMade
  <2>2. HonestCache'
    BY <1>2, <2>1 DEF HonestCache, ReplayOutcomes, Entry
  <2>3. Entry(graph, s) \in Cached(graph)'
    BY <2>1 DEF Cached, Entry
  <2>4. QED
    BY <1>2, <2>1, <2>2, <2>3, UsedFollows
<1>3. QED
  BY <1>1, <1>2 DEF Context

-----------------------------------------------------------------------------
(* Verdicts.                                                               *)

\* PASS is the aggregate of nothing but PASS.
LEMMA AggregateProperties ==
  ASSUME NEW statuses \in SUBSET Statuses
  PROVE  /\ Aggregate(statuses) \in Statuses
         /\ Aggregate(statuses) = "PASS" => statuses = {"PASS"}
<1>1. CASE statuses \subseteq {"PASS"}
  BY <1>1 DEF Aggregate, Statuses
<1>2. CASE ~(statuses \subseteq {"PASS"})
  <2> DEFINE I == {i \in 1 .. 4 : Severity[i] \in statuses}
  <2>1. Min(I) \in I
    <3>1. \E i \in 1 .. 4 : Severity[i] \in statuses
      BY <1>2 DEF Severity, Statuses
    <3>2. \E i \in I : \A j \in I : i <= j
      <4>1. CASE 1 \in I
        BY <4>1
      <4>2. CASE 1 \notin I /\ 2 \in I
        BY <4>2
      <4>3. CASE 1 \notin I /\ 2 \notin I /\ 3 \in I
        BY <4>3
      <4>4. CASE 1 \notin I /\ 2 \notin I /\ 3 \notin I
        BY <3>1, <4>4
      <4>5. QED
        BY <4>1, <4>2, <4>3, <4>4
    <3>3. QED
      BY <3>2 DEF Min
  <2>2. Aggregate(statuses) = Severity[Min(I)]
    <3>1. Len(Severity) = 4 /\ statuses # {} /\ I # {}
      BY <1>2, <2>1 DEF Severity
    <3>2. SelectInSeq(Severity, LAMBDA s : s \in statuses) = Min(I)
      BY <3>1 DEF SelectInSeq
    <3>3. QED
      BY <1>2, <3>1, <3>2 DEF Aggregate
  <2>3. QED
    BY <2>1, <2>2 DEF Severity, Statuses
<1>3. QED
  BY <1>1, <1>2

\* Every subject is an artifact or a relation.
LEMMA SubjectsOfGraph ==
  ASSUME NEW g \in Graphs
  PROVE  /\ ArtifactsOf(g) \in Seq(Artifacts) /\ RelationsOf(g) \in Seq(Relations)
         /\ Len(ArtifactsOf(g)) \in Nat /\ Len(RelationsOf(g)) \in Nat
         /\ ToSet(ArtifactsOf(g)) = {ArtifactsOf(g)[i] : i \in 1 .. Len(ArtifactsOf(g))}
         /\ ToSet(RelationsOf(g)) = {RelationsOf(g)[i] : i \in 1 .. Len(RelationsOf(g))}
<1>1. ArtifactsOf(g) \in Seq(Artifacts) /\ RelationsOf(g) \in Seq(Relations)
  BY ConformanceAssumption DEF ArtifactsOf, RelationsOf
<1>2. QED
  BY <1>1, LenProperties, ToSetProperties

LEMMA InitInv == Init => Inv
<1> SUFFICES ASSUME Init PROVE Inv
  OBVIOUS
<1>1. /\ <<>> \in Seq(SUBSET Statuses) /\ <<>> \in Seq(Graphs)
      /\ <<>> \in Seq([graph : Graphs, status : Statuses]) /\ Len(<<>>) = 0
  BY EmptySeq
<1>2. TypeOK /\ EachOnce
  BY <1>1 DEF Init, TypeOK, EachOnce, Reports
<1>3. Kept = 0
  BY <1>1, ConformanceAssumption DEF Init, Kept
<1>4. RecentPast
  BY <1>1, <1>3 DEF Init, RecentPast
<1>5. HonestCache
  <2>1. ToSet(cache) = {}
    BY DEF Init, ToSet
  <2>2. QED
    BY <2>1 DEF HonestCache
<1>6. Progress
  BY <1>1, <1>2, SubjectsOfGraph DEF Init, Progress, Subjects, TypeOK
<1>7. QED
  BY <1>2, <1>4, <1>5, <1>6 DEF Inv, Reported, Init

\* The step of either loop: the next subject is judged by its validator, or blocked.
JudgeNext ==
  LET n == Len(results) + 1
  IN  /\ report = Pending /\ n <= Subjects(graph)
      /\ IF JudgedAs(graph, n) \in Installed
            THEN Judge(SubjectOf(graph, n), JudgedAs(graph, n)) ELSE Blocked
      /\ UNCHANGED <<graph, level, report>>

LEMMA ValidateIsJudgeNext ==
  ASSUME TypeOK, ValidateArtifact \/ ValidateRelation
  PROVE  JudgeNext
<1>1. Len(results) \in Nat /\ Len(ArtifactsOf(graph)) \in Nat /\ Len(RelationsOf(graph)) \in Nat
  BY Lengths, SubjectsOfGraph DEF TypeOK
<1>2. "core" \notin Installed
  BY DEF Installed
<1>3. CASE ValidateArtifact
  BY <1>1, <1>2, <1>3 DEF ValidateArtifact, JudgeNext, JudgedAs, SubjectOf, Subjects
<1>4. CASE ValidateRelation
  <2>1. /\ ~(Len(results) + 1 <= Len(ArtifactsOf(graph)))
        /\ Len(results) + 1 <= Subjects(graph)
        /\ Len(results) - Len(ArtifactsOf(graph)) + 1 = Len(results) + 1 - Len(ArtifactsOf(graph))
    BY <1>1, <1>4 DEF ValidateRelation, Subjects
  <2>2. QED
    BY <1>2, <1>4, <2>1 DEF ValidateRelation, JudgeNext, JudgedAs, SubjectOf
<1>5. QED
  BY <1>3, <1>4

\* What a step of the loop adds.
LEMMA JudgementAdded ==
  ASSUME Inv, JudgeNext
  PROVE  /\ cache' \in Seq([graph : Graphs, status : Statuses]) /\ used' \in Seq(Graphs)
         /\ replays' \in Nat
         /\ EachOnce' /\ RecentPast' /\ HonestCache'
         /\ \/ Cached(graph)' = Cached(graph) /\ UNCHANGED replays
            \/ Cached(graph) = {} /\ Cached(graph)' # {} /\ replays' = replays + 1
         /\ \E statuses \in SUBSET Statuses :
              /\ results' = Append(results, statuses) /\ statuses # {}
              /\ JudgedAs(graph, Len(results) + 1) = "native" =>
                   \E e \in Cached(graph)' :
                     statuses = NativeStatuses(SubjectOf(graph, Len(results) + 1), e.status)
              /\ JudgedAs(graph, Len(results) + 1) \notin Installed => statuses = {"BLOCKED"}
<1> DEFINE n == Len(results) + 1
           p == JudgedAs(graph, n)
<1>1. CASE p \in Installed /\ p = "native"
  <2>1. PICK s \in Statuses :
          /\ Context(graph, s) /\ results' = Append(results, NativeStatuses(SubjectOf(graph, n), s))
          /\ used' = Touched(used, graph)
    BY <1>1 DEF JudgeNext, Judge
  <2>2. /\ cache' \in Seq([graph : Graphs, status : Statuses]) /\ used' \in Seq(Graphs)
        /\ EachOnce' /\ RecentPast' /\ HonestCache'
        /\ Entry(graph, s) \in Cached(graph)'
        /\ \/ Cached(graph)' = Cached(graph) /\ Cached(graph) # {} /\ UNCHANGED replays
           \/ Cached(graph) = {} /\ replays' = replays + 1
    BY <2>1, ContextProperties DEF JudgeNext, Inv
  <2>3. NativeStatuses(SubjectOf(graph, n), s) \subseteq Statuses /\ NativeStatuses(SubjectOf(graph, n), s) # {}
    BY DEF NativeStatuses, Statuses
  <2>4. Entry(graph, s).status = s
    BY DEF Entry
  <2>5. \E e \in Cached(graph)' :
          NativeStatuses(SubjectOf(graph, n), s) = NativeStatuses(SubjectOf(graph, n), e.status)
    BY <2>2, <2>4
  <2>6. replays' \in Nat
    BY <2>2 DEF Inv, TypeOK
  <2>7. QED
    BY <1>1, <2>1, <2>2, <2>3, <2>5, <2>6
<1>2. CASE ~(p \in Installed /\ p = "native")
  <2>1. UNCHANGED <<graph, cache, replays, used>>
    BY <1>2 DEF JudgeNext, Judge, Blocked
  <2>2. \E statuses \in SUBSET Statuses :
          /\ results' = Append(results, statuses) /\ statuses # {}
          /\ p \notin Installed => statuses = {"BLOCKED"}
    <3>1. CASE p \in Installed
      <4>1. PICK answer \in Answers : results' = Append(results, Invoked(answer))
        BY <1>2, <3>1 DEF JudgeNext, Judge
      <4>2. Invoked(answer) \subseteq Statuses /\ Invoked(answer) # {}
        <5>1. CASE answer.kind = "results"
          <6>1. answer.statuses \subseteq Statuses /\ answer.statuses # {}
            BY <5>1 DEF Answers
          <6>2. Invoked(answer) = answer.statuses
            BY <5>1 DEF Invoked
          <6>3. QED
            BY <6>1, <6>2
        <5>2. CASE answer.kind # "results"
          BY <5>2 DEF Answers, Invoked, Statuses
        <5>3. QED
          BY <5>1, <5>2
      <4>3. QED
        BY <3>1, <4>1, <4>2
    <3>2. CASE p \notin Installed
      BY <3>2 DEF JudgeNext, Blocked, Statuses
    <3>3. QED
      BY <3>1, <3>2
  <2>3. /\ EachOnce' /\ RecentPast' /\ HonestCache' /\ Cached(graph)' = Cached(graph)
        /\ cache' \in Seq([graph : Graphs, status : Statuses]) /\ used' \in Seq(Graphs)
        /\ replays' \in Nat
    BY <2>1 DEF Inv, EachOnce, RecentPast, Kept, HonestCache, Cached, TypeOK
  <2>4. p \notin Installed \/ p # "native"
    BY <1>2
  <2>5. p = "native" => p \in Installed
    BY DEF Installed
  <2>6. QED
    BY <2>1, <2>2, <2>3, <2>4, <2>5
<1>3. QED
  BY <1>1, <1>2

LEMMA JudgeNextInv ==
  ASSUME Inv, JudgeNext
  PROVE  Inv'
<1> DEFINE n == Len(results) + 1
<1>1. /\ cache' \in Seq([graph : Graphs, status : Statuses]) /\ used' \in Seq(Graphs)
      /\ replays' \in Nat
      /\ EachOnce' /\ RecentPast' /\ HonestCache'
      /\ \/ Cached(graph)' = Cached(graph) /\ UNCHANGED replays
         \/ Cached(graph) = {} /\ Cached(graph)' # {} /\ replays' = replays + 1
  BY JudgementAdded
<1>2. PICK statuses \in SUBSET Statuses :
        /\ results' = Append(results, statuses) /\ statuses # {}
        /\ JudgedAs(graph, n) = "native" =>
             \E e \in Cached(graph)' : statuses = NativeStatuses(SubjectOf(graph, n), e.status)
        /\ JudgedAs(graph, n) \notin Installed => statuses = {"BLOCKED"}
  BY JudgementAdded
<1>3. /\ results \in Seq(SUBSET Statuses) /\ Len(results) \in Nat
      /\ n <= Subjects(graph) /\ report = Pending /\ UNCHANGED <<graph, level, report>>
  BY Lengths DEF Inv, TypeOK, JudgeNext
<1>4. /\ results' \in Seq(SUBSET Statuses) /\ Len(results') = n
      /\ \A m \in 1 .. Len(results) : results'[m] = results[m]
      /\ results'[n] = statuses
  BY <1>2, <1>3, AppendProperties
<1>5. TypeOK'
  BY <1>1, <1>3, <1>4 DEF Inv, TypeOK
<1>6. ASSUME NEW k \in 1 .. n, k = n PROVE Judged(k)'
  BY <1>2, <1>3, <1>4, <1>6 DEF Judged
<1>7. ASSUME NEW m \in 1 .. Len(results) PROVE Judged(m)'
  <2>1. Judged(m) /\ results'[m] = results[m]
    BY <1>4 DEF Inv, Progress
  <2>2. JudgedAs(graph, m) = "native" => Cached(graph)' = Cached(graph)
    BY <1>1, <2>1 DEF Judged
  <2>3. QED
    BY <1>3, <2>1, <2>2 DEF Judged
<1>8. replays' <= 1 /\ (replays' = 1 => Cached(graph)' # {})
  BY <1>1 DEF Inv, TypeOK, Progress
<1>9. Progress'
  <2>1. ASSUME NEW m \in 1 .. n PROVE Judged(m)'
    <3>1. m = n \/ m \in 1 .. Len(results)
      BY <1>3
    <3>2. QED
      BY <1>6, <1>7, <3>1
  <2>2. QED
    BY <1>3, <1>4, <1>8, <2>1 DEF Progress, Subjects, Cached
<1>10. QED
  BY <1>1, <1>3, <1>5, <1>9 DEF Inv, Reported

\* What is told of the subjects, as statuses.
LEMMA StatusesOfResults ==
  ASSUME TypeOK
  PROVE  /\ UNION ToSet(results) \in SUBSET Statuses
         /\ \A n \in 1 .. Len(results) : results[n] \subseteq UNION ToSet(results)
<1>1. ToSet(results) = {results[n] : n \in 1 .. Len(results)} /\ ToSet(results) \subseteq SUBSET Statuses
  BY ToSetProperties DEF TypeOK
<1>2. QED
  BY <1>1

LEMMA ReportInv ==
  ASSUME Inv, Report
  PROVE  Inv'
<1> DEFINE semantic == IF level # "F2" THEN "NOT_IMPLEMENTED" ELSE Aggregate(UNION ToSet(results))
<1>1. /\ UNCHANGED <<graph, level, results, cache, replays, used>>
      /\ report' = ReportOf(graph, level, semantic)
      /\ Semantic => Len(results) = Subjects(graph)
  BY DEF Report
<1>2. report' \in Reports
  <2>1. level = "F2" => semantic \in Statuses
    BY AggregateProperties, StatusesOfResults DEF Inv
  <2>2. level \in Levels
    BY DEF Inv, TypeOK
  <2>3. QED
    BY <1>1, <2>1, <2>2 DEF ReportOf, Reports, Levels, Statuses
<1>3. TypeOK'
  BY <1>1, <1>2 DEF Inv, TypeOK
<1>4. EachOnce' /\ RecentPast' /\ HonestCache' /\ Progress'
  BY <1>1 DEF Inv, EachOnce, RecentPast, Kept, HonestCache, Progress, Judged, Cached
<1>5. Reported'
  BY <1>1 DEF Reported, Semantic
<1>6. QED
  BY <1>3, <1>4, <1>5 DEF Inv

LEMMA SubmitInv ==
  ASSUME Inv, Submit
  PROVE  Inv'
<1>1. /\ graph' \in Graphs /\ level' \in Levels
      /\ results' = <<>> /\ replays' = 0 /\ report' = Pending
      /\ UNCHANGED <<cache, used>>
  BY DEF Submit
<1>2. results' \in Seq(SUBSET Statuses) /\ Len(results') = 0
  BY <1>1, EmptySeq
<1>3. TypeOK'
  BY <1>1, <1>2 DEF Inv, TypeOK, Reports
<1>4. EachOnce' /\ RecentPast' /\ HonestCache'
  BY <1>1 DEF Inv, EachOnce, RecentPast, Kept, HonestCache
<1>5. Progress'
  <2>1. Len(ArtifactsOf(graph')) \in Nat /\ Len(RelationsOf(graph')) \in Nat
    BY <1>1, SubjectsOfGraph
  <2>2. QED
    BY <1>1, <1>2, <2>1 DEF Progress, Subjects
<1>6. QED
  BY <1>1, <1>3, <1>4, <1>5 DEF Inv, Reported

LEMMA NextInv == Inv /\ [Next]_vars => Inv'
<1> SUFFICES ASSUME Inv, [Next]_vars PROVE Inv'
  OBVIOUS
<1>1. CASE ValidateArtifact \/ ValidateRelation
  BY <1>1, ValidateIsJudgeNext, JudgeNextInv DEF Inv
<1>2. CASE Report
  BY <1>2, ReportInv
<1>3. CASE Submit
  BY <1>3, SubmitInv
<1>4. CASE UNCHANGED vars
  BY <1>4 DEF vars, Inv, TypeOK, EachOnce, RecentPast, Kept, HonestCache, Progress, Judged,
       Cached, Reported, Semantic
<1>5. QED
  BY <1>1, <1>2, <1>3, <1>4 DEF Next

LEMMA InvHolds == Spec => []Inv
BY InitInv, NextInv, PTL DEF Spec

-----------------------------------------------------------------------------
(* Theorems.                                                               *)

\* Every variable has its type.
THEOREM TypeCorrect == Spec => []TypeOK
<1>1. Inv => TypeOK
  BY DEF Inv
<1>2. QED
  BY <1>1, InvHolds, PTL

\* An F2 PASS leaves nothing out: no reference, no subject, no capability, no replay.
THEOREM PassIsComplete == Spec => []PassLeavesNothingOut
<1>1. Inv => PassLeavesNothingOut
  <2> SUFFICES ASSUME Inv, report # Pending, report.level = "F2", report.status = "PASS"
               PROVE  /\ ReferencesHold(graph)
                      /\ \A a \in ToSet(ArtifactsOf(graph)) :
                           /\ a.ready /\ a.profile \in Installed
                           /\ a.profile = "native" => a.matches /\ Contents[graph].replays
                      /\ \A r \in ToSet(RelationsOf(graph)) :
                           /\ ProfileOf(graph, r.source) = ProfileOf(graph, r.target)
                           /\ ProfileOf(graph, r.source) = "native" => r.matches
                      /\ Len(results) = Subjects(graph)
                      /\ \A n \in DOMAIN results : results[n] = {"PASS"}
    BY DEF PassLeavesNothingOut
  <2>1. /\ level = "F2" /\ ReferencesHold(graph)
        /\ Aggregate(UNION ToSet(results)) = "PASS"
    BY DEF Inv, Reported, ReportOf
  <2>2. Len(results) = Subjects(graph)
    BY <2>1 DEF Inv, Reported, Semantic
  <2>3. UNION ToSet(results) = {"PASS"}
    BY <2>1, AggregateProperties, StatusesOfResults DEF Inv
  <2>4. ASSUME NEW n \in 1 .. Len(results)
        PROVE  /\ results[n] = {"PASS"}
               /\ JudgedAs(graph, n) \in Installed
               /\ JudgedAs(graph, n) = "native" =>
                    SubjectOf(graph, n).matches /\ Contents[graph].replays
    <3>1. Judged(n) /\ results[n] \subseteq {"PASS"}
      BY <2>3, StatusesOfResults DEF Inv, Progress
    <3>2. results[n] = {"PASS"}
      BY <3>1 DEF Judged
    <3>3. JudgedAs(graph, n) \in Installed
      BY <3>1, <3>2 DEF Judged
    <3>4. ASSUME JudgedAs(graph, n) = "native"
          PROVE  SubjectOf(graph, n).matches /\ Contents[graph].replays
      <4>1. PICK e \in Cached(graph) : {"PASS"} = NativeStatuses(SubjectOf(graph, n), e.status)
        BY <3>1, <3>2, <3>4 DEF Judged
      <4>2. e.status = "PASS" /\ SubjectOf(graph, n).matches
        BY <4>1 DEF NativeStatuses
      <4>3. QED
        BY <4>2 DEF Inv, HonestCache, Cached
    <3>5. QED
      BY <3>2, <3>3, <3>4
  <2>5. /\ Len(ArtifactsOf(graph)) \in Nat /\ Len(RelationsOf(graph)) \in Nat
        /\ ToSet(ArtifactsOf(graph)) = {ArtifactsOf(graph)[i] : i \in 1 .. Len(ArtifactsOf(graph))}
        /\ ToSet(RelationsOf(graph)) = {RelationsOf(graph)[i] : i \in 1 .. Len(RelationsOf(graph))}
    BY SubjectsOfGraph DEF Inv, TypeOK
  <2>6. "core" \notin Installed
    BY DEF Installed
  <2>7. ASSUME NEW a \in ToSet(ArtifactsOf(graph))
        PROVE  /\ a.ready /\ a.profile \in Installed
               /\ a.profile = "native" => a.matches /\ Contents[graph].replays
    <3>1. PICK n \in 1 .. Len(ArtifactsOf(graph)) : a = ArtifactsOf(graph)[n]
      BY <2>5
    <3>2. n \in 1 .. Len(results)
      BY <2>2, <2>5 DEF Subjects
    <3>3. JudgedAs(graph, n) = (IF a.ready THEN a.profile ELSE "core") /\ SubjectOf(graph, n) = a
      BY <3>1 DEF JudgedAs, SubjectOf
    <3>4. QED
      BY <2>4, <2>6, <3>2, <3>3
  <2>8. ASSUME NEW r \in ToSet(RelationsOf(graph))
        PROVE  /\ ProfileOf(graph, r.source) = ProfileOf(graph, r.target)
               /\ ProfileOf(graph, r.source) = "native" => r.matches
    <3>1. PICK i \in 1 .. Len(RelationsOf(graph)) : r = RelationsOf(graph)[i]
      BY <2>5
    <3> DEFINE n == Len(ArtifactsOf(graph)) + i
    <3>2. /\ n \in 1 .. Len(results) /\ ~(n <= Len(ArtifactsOf(graph)))
          /\ n - Len(ArtifactsOf(graph)) = i
      BY <2>2, <2>5 DEF Subjects
    <3>3. SubjectOf(graph, n) = r
      BY <3>1, <3>2 DEF SubjectOf
    <3>4. JudgedAs(graph, n) =
            IF ById(graph, r.source).ready /\ ById(graph, r.target).ready
               /\ ById(graph, r.source).profile = ById(graph, r.target).profile
              THEN ById(graph, r.source).profile ELSE "core"
      BY <3>1, <3>2 DEF JudgedAs
    <3>5. JudgedAs(graph, n) # "core"
      BY <2>4, <2>6, <3>2
    <3>6. QED
      BY <2>4, <3>2, <3>3, <3>4, <3>5 DEF ProfileOf
  <2>9. \A n \in DOMAIN results : results[n] = {"PASS"}
    BY <2>4, LenProperties DEF Inv, TypeOK
  <2>10. QED
    BY <2>1, <2>2, <2>7, <2>8, <2>9
<1>2. QED
  BY <1>1, InvHolds, PTL

\* One validation starts at most one worker, and one context judges its native subjects.
THEOREM OneContextJudges == Spec => []OneContextPerReport
<1>1. Inv => OneContextPerReport
  <2> SUFFICES ASSUME Inv, NEW n \in DOMAIN results, JudgedAs(graph, n) = "native"
               PROVE  \E e \in Cached(graph) :
                        results[n] \subseteq IF e.status = "PASS" THEN {"PASS", "FAIL"} ELSE {e.status}
    BY DEF OneContextPerReport, Inv, Progress
  <2>1. n \in 1 .. Len(results)
    BY LenProperties DEF Inv, TypeOK
  <2>2. PICK e \in Cached(graph) : results[n] = NativeStatuses(SubjectOf(graph, n), e.status)
    BY <2>1 DEF Inv, Progress, Judged
  <2>3. QED
    BY <2>2 DEF NativeStatuses
<1>2. QED
  BY <1>1, InvHolds, PTL

\* The cache holds the contexts asked for last, each graph once, in their order.
THEOREM CacheIsRecent == Spec => []CacheIsTheRecentPast
<1>1. Inv => CacheIsTheRecentPast
  <2> SUFFICES ASSUME Inv PROVE CacheIsTheRecentPast
    OBVIOUS
  <2> DEFINE graphs == [i \in DOMAIN cache |-> cache[i].graph]
             recent == SubSeq(used, Len(used) - Kept + 1, Len(used))
  <2>1. /\ Len(used) \in Nat /\ Kept \in 0 .. Len(used) /\ Len(cache) = Kept
        /\ DOMAIN cache = 1 .. Kept
        /\ \A i \in 1 .. Len(used) : used[i] \in Graphs
    BY Lengths, LenProperties DEF Inv, TypeOK, RecentPast
  <2>2. /\ recent \in Seq(Graphs) /\ Len(recent) = Kept
        /\ \A i \in 1 .. Kept : recent[i] = used[Len(used) - Kept + i]
    <3>1. \A i \in Len(used) - Kept + 1 .. Len(used) : used[i] \in Graphs
      BY <2>1
    <3>2. QED
      BY <2>1, <3>1, SubSeqProperties
  <2>3. DOMAIN recent = 1 .. Kept /\ recent \in [1 .. Kept -> Graphs]
    BY <2>2, LenProperties
  <2>4. \A i \in 1 .. Kept : graphs[i] = recent[i]
    BY <2>1, <2>2 DEF Inv, RecentPast
  <2>5. graphs = recent
    BY <2>1, <2>3, <2>4
  <2>6. QED
    BY <2>5 DEF CacheIsTheRecentPast, Kept
<1>2. QED
  BY <1>1, InvHolds, PTL
==============================================================================
