------------------------- MODULE SemanticConformance -------------------------
(***************************************************************************)
(* Conformance of E7Q-IR graphs, validated one after another in one        *)
(* process: validate_graph (F0 structure, F1 references), the F2 framework *)
(* of e7q.ir.semantic that asks an installed validator about every         *)
(* artifact and then every relation, and the report.                       *)
(*                                                                         *)
(* The native validator judges every subject of a graph by one context,    *)
(* reconstructed in an isolated worker (NativeReplay) and kept in a small  *)
(* least-recently-used cache that outlives the validation.  The circuit    *)
(* validator stands for any other: it may answer anything, or misbehave.   *)
(***************************************************************************)
EXTENDS Integers, FiniteSets, SequencesExt

CONSTANTS
  Graphs,       \* the graphs a caller may submit
  Ids,          \* artifact identities
  Contents,     \* what is in each of them
  CacheLimit    \* _CONTEXT_CACHE_LIMIT

Profiles  == {"core", "circuit", "native"}
Levels    == {"F0", "F1", "F2"}
Statuses  == {"PASS", "FAIL", "BLOCKED", "UNSUPPORTED", "NOT_ASSESSED"}

\* ready: its profile is built in, with every capability it requires.
\* matches: it equals what the replay of its graph reconstructs.
Artifacts == [id : Ids, refs : SUBSET Ids, profile : Profiles, ready : BOOLEAN, matches : BOOLEAN]
Relations == [source : Ids, target : Ids, matches : BOOLEAN]

ASSUME ConformanceAssumption ==
  /\ CacheLimit \in Nat \ {0}
  /\ DOMAIN Contents = Graphs
  /\ \A g \in Graphs :
       /\ Contents[g].artifacts \in Seq(Artifacts) /\ Contents[g].artifacts # <<>>
       /\ Contents[g].relations \in Seq(Relations)
       /\ Contents[g].structured \in BOOLEAN      \* every F0 check passes
       /\ Contents[g].identified \in BOOLEAN      \* its digest is right, its relations are distinct
       /\ Contents[g].replays \in BOOLEAN         \* its source can be replayed, its shape is native

VARIABLES
  graph,        \* the graph being validated
  level,        \* the level requested of it
  results,      \* the statuses of the subjects judged so far, artifacts first
  cache,        \* the native contexts, least recently used first
  replays,      \* workers this validation has started
  used,         \* history: the graphs whose context was asked for, last one last
  report        \* the report of the last validation, Pending during one

vars == <<graph, level, results, cache, replays, used, report>>

-----------------------------------------------------------------------------
ArtifactsOf(g) == Contents[g].artifacts
RelationsOf(g) == Contents[g].relations
Subjects(g)    == Len(ArtifactsOf(g)) + Len(RelationsOf(g))
IdsOf(g)       == {a.id : a \in ToSet(ArtifactsOf(g))}

StructureHolds(g) == Contents[g].structured

\* F1: the identities of graph and relations, unique artifact identities, resolved references.
ReferencesHold(g) ==
  /\ StructureHolds(g)
  /\ Contents[g].identified
  /\ Cardinality(IdsOf(g)) = Len(ArtifactsOf(g))
  /\ \A a \in ToSet(ArtifactsOf(g)) : a.refs \subseteq IdsOf(g)
  /\ \A r \in ToSet(RelationsOf(g)) : {r.source, r.target} \subseteq IdsOf(g)

ById(g, id) == CHOOSE a \in ToSet(ArtifactsOf(g)) : a.id = id

\* The validators of DEFAULT_REGISTRY; the core profile has none.
Installed == {"circuit", "native"}

\* A mutant: the framework reports its own reason in place of a status.
InvokedByReason(answer) ==
  IF answer.kind = "results" THEN answer.statuses ELSE {answer.kind}

\* _invoke: what a validator did, as the statuses of one subject.
Invoked(answer) ==
  CASE answer.kind = "results"  -> answer.statuses
    [] answer.kind = "raises"   -> {"FAIL"}
    [] answer.kind = "broken"   -> {"FAIL"}
    [] answer.kind = "floods"   -> {"BLOCKED"}
    [] answer.kind = "silent"   -> {"NOT_ASSESSED"}

Answers ==
  [kind : {"results"}, statuses : (SUBSET Statuses) \ {{}}]
    \cup [kind : {"raises", "broken", "floods", "silent"}]

\* The first of these among the results decides.
Severity == <<"FAIL", "BLOCKED", "UNSUPPORTED", "NOT_ASSESSED">>

\* aggregate_status.
Aggregate(statuses) ==
  IF statuses = {} THEN "NOT_ASSESSED"
  ELSE IF statuses \subseteq {"PASS"} THEN "PASS"
  ELSE Severity[SelectInSeq(Severity, LAMBDA s : s \in statuses)]

-----------------------------------------------------------------------------
(* The native validator's context.                                         *)

\* What an isolated replay may come to (see NativeReplay): PASS only if the
\* source does replay; anything else whatever the graph, for the worker may
\* be late, be killed, or break off.
ReplayOutcomes(g) == IF Contents[g].replays THEN Statuses ELSE Statuses \ {"PASS"}

Entry(g, s) == [graph |-> g, status |-> s]
Cached(g)   == {e \in ToSet(cache) : e.graph = g}

\* move_to_end.
Touched(entries, entry) == Append(RemoveFirst(entries, entry), entry)

\* The oldest entries give way.
Evicted(entries) ==
  IF Len(entries) > CacheLimit THEN SubSeq(entries, Len(entries) - CacheLimit + 1, Len(entries))
                               ELSE entries

\* A mutant: a context that is used again keeps its place.
ContextInPlace(g, s) ==
  \/ /\ Entry(g, s) \in Cached(g)
     /\ UNCHANGED <<cache, replays>>
  \/ /\ Cached(g) = {}
     /\ s \in ReplayOutcomes(g)
     /\ cache' = Evicted(Append(cache, Entry(g, s)))
     /\ replays' = replays + 1

\* A mutant: only a context that passed is worth keeping.
ContextOfPasses(g, s) ==
  \/ /\ Entry(g, s) \in Cached(g)
     /\ cache' = Touched(cache, Entry(g, s))
     /\ UNCHANGED replays
  \/ /\ Cached(g) = {}
     /\ s \in ReplayOutcomes(g)
     /\ cache' = IF s = "PASS" THEN Evicted(Append(cache, Entry(g, s))) ELSE cache
     /\ replays' = replays + 1

\* A mutant: the key of the cache does not name the graph.
ContextOfAny(g, s) ==
  \/ /\ \E e \in ToSet(cache) : e.status = s /\ cache' = Touched(cache, e)
     /\ UNCHANGED replays
  \/ /\ cache = <<>>
     /\ s \in ReplayOutcomes(g)
     /\ cache' = Evicted(Append(cache, Entry(g, s)))
     /\ replays' = replays + 1

\* _context returns a context of status s.
Context(g, s) ==
  \/ /\ Entry(g, s) \in Cached(g)
     /\ cache' = Touched(cache, Entry(g, s))
     /\ UNCHANGED replays
  \/ /\ Cached(g) = {}
     /\ s \in ReplayOutcomes(g)
     /\ cache' = Evicted(Append(cache, Entry(g, s)))
     /\ replays' = replays + 1

\* The native validator's statuses of a subject under a context of status s: of
\* its one or two checks, those that decide.
NativeStatuses(subject, s) ==
  IF s = "PASS" THEN {IF subject.matches THEN "PASS" ELSE "FAIL"} ELSE {s}

-----------------------------------------------------------------------------
Pending == [status |-> "pending"]

Init ==
  /\ graph \in Graphs
  /\ level \in Levels
  /\ results = <<>>
  /\ cache = <<>> /\ used = <<>>
  /\ replays = 0
  /\ report = Pending

Semantic == level = "F2" /\ ReferencesHold(graph)

\* Ask the validator of this profile about this subject.
Judge(subject, profile) ==
  \/ /\ profile = "native"
     /\ \E s \in Statuses :
          /\ Context(graph, s)
          /\ results' = Append(results, NativeStatuses(subject, s))
     /\ used' = Touched(used, graph)
  \/ /\ profile # "native"
     /\ \E answer \in Answers : results' = Append(results, Invoked(answer))
     /\ UNCHANGED <<cache, replays, used>>

\* The framework's own result.
Blocked ==
  /\ results' = Append(results, {"BLOCKED"})
  /\ UNCHANGED <<cache, replays, used>>

\* validate_semantics, one artifact.
ValidateArtifact ==
  /\ report = Pending /\ Semantic
  /\ Len(results) < Len(ArtifactsOf(graph))
  /\ LET a == ArtifactsOf(graph)[Len(results) + 1]
     IN  IF a.ready /\ a.profile \in Installed THEN Judge(a, a.profile) ELSE Blocked
  /\ UNCHANGED <<graph, level, report>>

\* validate_semantics, one relation: both endpoints ready, of one profile.
ValidateRelation ==
  /\ report = Pending /\ Semantic
  /\ Len(results) \in Len(ArtifactsOf(graph)) .. Subjects(graph) - 1
  /\ LET r == RelationsOf(graph)[Len(results) - Len(ArtifactsOf(graph)) + 1]
         source == ById(graph, r.source)
         target == ById(graph, r.target)
     IN  IF source.ready /\ target.ready /\ source.profile = target.profile
              /\ source.profile \in Installed
           THEN Judge(r, source.profile) ELSE Blocked
  /\ UNCHANGED <<graph, level, report>>

\* _report.
ReportOf(g, l, semantic) ==
  LET f0 == StructureHolds(g)
      f1 == l # "F0" /\ ReferencesHold(g)
  IN [level   |-> l,
      highest |-> IF f1 /\ semantic = "PASS" THEN "F2"
                  ELSE IF f1 THEN "F1" ELSE IF f0 THEN "F0" ELSE "none",
      status  |-> CASE l = "F0" -> IF f0 THEN "PASS" ELSE "FAIL"
                    [] l = "F1" -> IF f1 THEN "PASS" ELSE "FAIL"
                    [] l = "F2" -> IF f1 THEN semantic ELSE "FAIL"]

\* validate_graph returns.
Report ==
  /\ report = Pending
  /\ Semantic => Len(results) = Subjects(graph)
  /\ report' = ReportOf(graph, level,
                 IF level # "F2" THEN "NOT_IMPLEMENTED" ELSE Aggregate(UNION ToSet(results)))
  /\ UNCHANGED <<graph, level, results, cache, replays, used>>

\* The caller submits another graph, or the same one again.
Submit ==
  /\ report # Pending
  /\ graph' \in Graphs /\ level' \in Levels
  /\ results' = <<>> /\ replays' = 0 /\ report' = Pending
  /\ UNCHANGED <<cache, used>>

Next == ValidateArtifact \/ ValidateRelation \/ Report \/ Submit

Spec == Init /\ [][Next]_vars

-----------------------------------------------------------------------------
(* Properties.                                                             *)

Reports ==
  [level : Levels, highest : Levels \cup {"none"}, status : Statuses] \cup {Pending}

\* Every variable has its type.
TypeOK ==
  /\ graph \in Graphs /\ level \in Levels
  /\ results \in Seq(SUBSET Statuses)
  /\ cache \in Seq([graph : Graphs, status : Statuses])
  /\ used \in Seq(Graphs)
  /\ replays \in Nat
  /\ report \in Reports

ProfileOf(g, id) == ById(g, id).profile

\* An F2 PASS leaves nothing out: the references of the graph hold, every
\* artifact had its capabilities and an installed validator, every relation two
\* endpoints of one such profile, every subject a result and none but PASS; and
\* what the native profile passed does replay and does match the replay -- also
\* when the context came from the cache of an earlier validation.
PassLeavesNothingOut ==
  report # Pending /\ report.level = "F2" /\ report.status = "PASS" =>
    /\ ReferencesHold(graph)
    /\ \A a \in ToSet(ArtifactsOf(graph)) :
         /\ a.ready /\ a.profile \in Installed
         /\ a.profile = "native" => a.matches /\ Contents[graph].replays
    /\ \A r \in ToSet(RelationsOf(graph)) :
         /\ ProfileOf(graph, r.source) = ProfileOf(graph, r.target)
         /\ ProfileOf(graph, r.source) = "native" => r.matches
    /\ Len(results) = Subjects(graph)
    /\ \A n \in DOMAIN results : results[n] = {"PASS"}

\* The profile whose validator judges the n-th subject of a graph.
JudgedAs(g, n) ==
  IF n <= Len(ArtifactsOf(g)) THEN
    LET a == ArtifactsOf(g)[n] IN IF a.ready THEN a.profile ELSE "core"
  ELSE
    LET r == RelationsOf(g)[n - Len(ArtifactsOf(g))]
        source == ById(g, r.source)
        target == ById(g, r.target)
    IN  IF source.ready /\ target.ready /\ source.profile = target.profile
          THEN source.profile ELSE "core"

\* One validation starts at most one worker, and all its native subjects are
\* judged by one context, however the worker ended: no report mixes a timeout
\* with a verdict of the same graph.
OneContextPerReport ==
  /\ replays <= 1
  /\ \A n \in DOMAIN results :
       JudgedAs(graph, n) = "native" =>
         \E e \in Cached(graph) :
           results[n] \subseteq IF e.status = "PASS" THEN {"PASS", "FAIL"} ELSE {e.status}

\* The cache holds the contexts of the graphs validated last, each once and in
\* the order they were last asked for, and no more of them than its limit.
CacheIsTheRecentPast ==
  LET kept == IF Len(used) < CacheLimit THEN Len(used) ELSE CacheLimit
  IN  [i \in DOMAIN cache |-> cache[i].graph] = SubSeq(used, Len(used) - kept + 1, Len(used))
=============================================================================
