-------------------------- MODULE CompilerWorkflow --------------------------
(***************************************************************************)
(* The compiler workflow (e7q.ir.compiler_workflow): a native program is   *)
(* admitted, compiled for a coupling graph and checked against what was    *)
(* compiled by QCEC, and all of it becomes one evidence graph.  A graph    *)
(* that was edited since, its identities recomputed, is given to           *)
(* validate_compiler_evidence, which compiles once more.                   *)
(*                                                                         *)
(* Compile is the function that TopologyRouting shows the compiler to      *)
(* compute; the check is an IsolatedCheck.  A graph is reduced to what its *)
(* artifacts say of each other.                                            *)
(***************************************************************************)
EXTENDS TopologyCompiler, NativeComparison

CONSTANTS
  Submissions,  \* coupling edges as submitted: sequences of sequences of numbers
  MaxEdits      \* bound: how many parts of a graph are edited

VARIABLES
  source,       \* what the preserved source bytes parse to
  submitted,    \* the coupling edges
  native,       \* the native gates
  compilation,  \* what compile_topology returned
  compiled,     \* the compiled program, if it was compiled without errors
  edits,        \* the number of parts edited since it was built
  report        \* what the validator says of it

inputs == <<source, submitted, native>>
vars == <<inputs, errors, compilation, compiled, sent, opinion, outcome,
          graph, edits, report, pc>>

ASSUME CompilerAssumption ==
  /\ \A program \in Programs : WellFormed(program)
  /\ Unparsed \notin Programs
  /\ None \notin ProgramRecords \cup Statuses
  /\ MaxEdits \in Nat

-----------------------------------------------------------------------------
\* _normalize_edges.
ValidEdge(edge, width) ==
  Len(edge) = 2 /\ IsInjective(edge) /\ ToSet(edge) \subseteq 0 .. width - 1

Edges(edgeList, width) == {ToSet(e) : e \in {d \in ToSet(edgeList) : ValidEdge(d, width)}}

EdgeErrors(edgeList, width) ==
  Error(\E i \in DOMAIN edgeList : ~ValidEdge(edgeList[i], width),
        "malformed_topology", "UNSUPPORTED")
  \cup Error(\E i, j \in DOMAIN edgeList :
               i < j /\ ValidEdge(edgeList[i], width) /\ ToSet(edgeList[i]) = ToSet(edgeList[j]),
             "duplicate_topology_edge", "UNSUPPORTED")

\* The swaps a trace tells of.
SwapsIn(trace) ==
  LET Sum[n \in 0 .. Len(trace)] == IF n = 0 THEN 0 ELSE Sum[n - 1] + trace[n].swaps
  IN  Sum[Len(trace)]

\* _typed_trace raises nothing.
TypedTraceAgrees(program, edges, result) ==
  LET steps == [i \in 1 .. Len(program.operations) |-> i]
      gates == Chosen(steps, {i \in ToSet(steps) : program.operations[i].gate \in TwoQubit})
      SwapsOf(record) == 2 * Len(SwapsAlong(record.path))
  IN  /\ Len(result.trace) = Len(gates)
      /\ \A i \in DOMAIN gates :
           LET record == result.trace[i]
               op     == program.operations[gates[i]]
           IN  /\ record.step = gates[i] /\ record.gate = op.gate /\ record.qubits = op.qubits
               /\ Len(record.path) >= 2
               /\ Head(record.path) = op.qubits[1] /\ Last(record.path) = op.qubits[2]
               /\ \A k \in 1 .. Len(record.path) - 1 :
                    {record.path[k], record.path[k + 1]} \in edges
               /\ record.swaps = SwapsOf(record)
      /\ Len(result.operations) - Len(program.operations)
           = SwapsIn(result.trace)

\* _compile_error, and a trace that disagrees with the program.
CompileErrors(program, edges, result) ==
  Error(result.verdict = "disconnected", "disconnected_topology", "BLOCKED")
  \cup Error(result.verdict = "missing_swap", "missing_swap_support", "UNSUPPORTED")
  \cup Error(result.verdict \in {"unsupported_gate", "unknown_gate"},
             "unsupported_native_gate", "UNSUPPORTED")
  \cup Error(result.verdict = "compiled" /\ ~TypedTraceAgrees(program, edges, result),
             "compiler_failure", "NOT_ASSESSED")

WithOperations(program, result) == [program EXCEPT !.operations = result.operations]

\* The first of the priorities that an error has.
PriorityStatus ==
  LET found == {e.status : e \in errors}
  IN  IF "BLOCKED" \in found THEN "BLOCKED"
      ELSE IF "UNSUPPORTED" \in found THEN "UNSUPPORTED" ELSE "NOT_ASSESSED"

\* A mutant: what is wrong with the compiled program is not the trace's business.
TraceStatusEarly == IF compilation # None THEN "PASS" ELSE PriorityStatus

TraceStatus == IF compilation # None /\ errors = {} THEN "PASS" ELSE PriorityStatus

Supported(status, judged) == status = "PASS" /\ judged = "PASS"

\* What the artifacts of the graph say.
GraphOf ==
  [source     |-> source,
   original   |-> source,
   edges      |-> submitted, native |-> native,
   width      |-> IF source = Unparsed THEN 0 ELSE source.width,
   status     |-> TraceStatus,
   result     |-> compilation,
   typed      |-> IF compilation = None THEN <<>> ELSE compilation.trace,
   compiled   |-> compiled,
   projection |-> IF compiled = None \/ errors # {} THEN None ELSE Projection(compiled),
   outcome    |-> outcome,
   supported  |-> Supported(TraceStatus, outcome)]

-----------------------------------------------------------------------------
(* validate_compiler_evidence.                                             *)

Inconsistent == [status |-> "FAIL", reason |-> "compiler_evidence_inconsistent"]
Assessed(g)  == [status |-> g.outcome, reason |-> "assessed"]

\* A mutant: the compiled representation is not recompiled, only its projection.
RecompilesToProjection(g) ==
  LET edges  == Edges(g.edges, g.source.width)
      result == Compile(g.source, edges, g.native)
  IN  /\ result.verdict = "compiled" /\ TypedTraceAgrees(g.source, edges, result)
      /\ g.result = result /\ g.typed = result.trace
      /\ LET again == WithOperations(g.source, result)
         IN  AdmitNative(again) = {} /\ g.projection = Projection(again)

\* What the graph says of the compilation is what a second compilation gives.
Recompiles(g) ==
  LET edges  == Edges(g.edges, g.source.width)
      result == Compile(g.source, edges, g.native)
  IN  /\ result.verdict = "compiled" /\ TypedTraceAgrees(g.source, edges, result)
      /\ g.result = result /\ g.typed = result.trace
      /\ LET again == WithOperations(g.source, result)
         IN  g.compiled = again /\ AdmitNative(again) = {} /\ g.projection = Projection(again)

Report(g) ==
  IF g.source = Unparsed \/ g.original # g.source THEN Inconsistent
  ELSE IF g.width # g.source.width THEN Inconsistent
  ELSE IF EdgeErrors(g.edges, g.source.width) # {} \/ g.status # "PASS"
       THEN IF g.supported THEN Inconsistent ELSE Assessed(g)
  ELSE IF Recompiles(g) /\ g.supported = (g.outcome = "PASS") THEN Assessed(g)
  ELSE Inconsistent

-----------------------------------------------------------------------------
Init ==
  /\ source \in Programs \cup {Unparsed}
  /\ submitted \in Submissions /\ native \in NativeSets
  /\ errors = {} /\ compilation = None /\ compiled = None /\ sent = None
  /\ Check!Init
  /\ graph = None /\ edits = 0 /\ report = None
  /\ pc = "admit"

Go(next) == pc' = next /\ UNCHANGED inputs

\* The source is parsed and admitted, the coupling edges are normalised.
Admit ==
  /\ pc = "admit"
  /\ errors' = IF source = Unparsed
               THEN Error(TRUE, "native_parse_error", "UNSUPPORTED") \cup EdgeErrors(submitted, 0)
               ELSE AdmitNative(source) \cup EdgeErrors(submitted, source.width)
  /\ Go("compile")
  /\ UNCHANGED <<compilation, compiled, sent, opinion, outcome, graph, edits, report>>

\* compile_topology, the typed trace, and the admission of what was compiled.
CompileSource ==
  /\ pc = "compile" /\ errors = {}
  /\ LET edges  == Edges(submitted, source.width)
         result == Compile(source, edges, native)
         wrong  == CompileErrors(source, edges, result)
         again  == WithOperations(source, result)
     IN  /\ compilation' = IF result.verdict = "compiled" THEN result ELSE None
         /\ compiled' = IF wrong = {} THEN again ELSE None
         /\ errors' = IF wrong = {} THEN AdmitNative(again) ELSE wrong
  /\ Go("assess")
  /\ UNCHANGED <<sent, opinion, outcome, graph, edits, report>>

NothingToCompile ==
  /\ pc = "compile" /\ errors # {}
  /\ Go("assess")
  /\ UNCHANGED <<errors, compilation, compiled, sent, opinion, outcome, graph, edits, report>>

\* Without a worker.
AssessErrors ==
  /\ pc = "assess" /\ errors # {}
  /\ outcome' = PriorityStatus
  /\ Go("build")
  /\ UNCHANGED <<errors, compilation, compiled, sent, opinion, graph, edits, report>>

\* A mutant: the second file is written from the first representation.
SendSourceTwice ==
  /\ pc = "assess" /\ errors = {}
  /\ sent' = <<Projection(source), Projection(source)>>
  /\ Go("evaluate")
  /\ UNCHANGED <<errors, compilation, compiled, opinion, outcome, graph, edits, report>>

\* The two projections go to a worker of their own.
SendProjections ==
  /\ pc = "assess" /\ errors = {}
  /\ sent' = <<Projection(source), Projection(compiled)>>
  /\ Go("evaluate")
  /\ UNCHANGED <<errors, compilation, compiled, opinion, outcome, graph, edits, report>>

\* The worker answers; it passes only circuits that do the same.
WorkerAnswers ==
  /\ pc = "evaluate"
  /\ Check!FormOpinion
  /\ opinion' = "PASS" => SameUnitary(sent[1], sent[2])
  /\ UNCHANGED <<inputs, errors, compilation, compiled, sent, graph, edits, report, pc>>

Evaluate ==
  /\ pc = "evaluate"
  /\ Check!Conclude
  /\ Go("build")
  /\ UNCHANGED <<errors, compilation, compiled, sent, graph, edits, report>>

EvaluateRaises ==
  /\ pc = "evaluate"
  /\ Go("raised")
  /\ UNCHANGED <<errors, compilation, compiled, sent, opinion, outcome, graph, edits, report>>

\* The graph, returned unless it supports its claim and does not validate.
BuildGraph ==
  /\ pc = "build"
  /\ graph' = GraphOf
  /\ Go(IF graph'.supported /\ Report(graph').status # "PASS" THEN "raised" ELSE "built")
  /\ UNCHANGED <<errors, compilation, compiled, sent, opinion, outcome, edits, report>>

\* One artifact is edited, and the identities are recomputed.
Edit ==
  /\ pc = "built" /\ edits < MaxEdits
  /\ edits' = edits + 1
  /\ \/ \E p \in Programs :
          graph' \in {[graph EXCEPT !.source = p, !.original = p, !.width = p.width],
                      [graph EXCEPT !.original = p], [graph EXCEPT !.compiled = p],
                      [graph EXCEPT !.projection = Projection(p)]}
     \/ \E s \in Submissions : graph' = [graph EXCEPT !.edges = s]
     \/ \E n \in NativeSets  : graph' = [graph EXCEPT !.native = n]
     \/ \E s \in {"PASS", "BLOCKED"} : graph' = [graph EXCEPT !.status = s]
     \/ \E s \in {"PASS", "FAIL"}    : graph' = [graph EXCEPT !.outcome = s]
     \/ graph' = [graph EXCEPT !.supported = ~@]
     \/ graph.typed # <<>> /\ graph' = [graph EXCEPT !.typed = Tail(@)]
  /\ UNCHANGED <<inputs, errors, compilation, compiled, sent, opinion, outcome, report, pc>>

\* A consumer has the graph validated.
Validate ==
  /\ pc = "built"
  /\ report' = Report(graph)
  /\ Go("validated")
  /\ UNCHANGED <<errors, compilation, compiled, sent, opinion, outcome, graph, edits>>

Over == pc \in {"validated", "raised"} /\ UNCHANGED vars

Next ==
  \/ Admit \/ CompileSource \/ NothingToCompile \/ AssessErrors \/ SendProjections
  \/ WorkerAnswers \/ Evaluate \/ EvaluateRaises \/ BuildGraph \/ Edit \/ Validate \/ Over

Spec == Init /\ [][Next]_vars

-----------------------------------------------------------------------------
(* Properties.                                                             *)

SameProgram(left, right) ==
  Meaning(left.width, left.operations) = Meaning(right.width, right.operations)

\* A graph is returned with a supported claim only if a worker passed exactly the
\* unitary prefixes of the preserved program and of the compiled one, the program
\* is in the declared subset, and the two do the same in full, measurement and all.
ClaimIsEarned ==
  pc = "built" /\ edits = 0 /\ graph.supported =>
    /\ opinion = "PASS" /\ outcome = "PASS"
    /\ sent = <<Projection(graph.source), Projection(graph.compiled)>>
    /\ InCommonSubset(graph.source) /\ InCommonSubset(graph.compiled)
    /\ SameProgram(graph.source, graph.compiled)

\* Whatever was edited, a graph that still validates as PASS and supports its
\* claim has a compiled program that does what its source does, on its own
\* coupling graph and native gates, and the projection of that program.
ValidatedStillCompiles ==
  report # None /\ report.status = "PASS" /\ graph.supported =>
    /\ graph.outcome = "PASS"
    /\ InCommonSubset(graph.source) /\ SameProgram(graph.source, graph.compiled)
    /\ graph.projection = Projection(graph.compiled)
    /\ \A i \in DOMAIN graph.compiled.operations :
         OnDevice(graph.compiled.operations[i], {ToSet(e) : e \in ToSet(graph.edges)},
                  graph.native)

\* The builder and the validator, written apart, agree on every graph as it was
\* built: the validator reports its assessment, except that it calls a graph whose
\* source does not parse inconsistent.  No compilation contradicts its own trace.
BuiltGraphsValidate ==
  /\ \A e \in errors : e.code # "compiler_failure"
  /\ report # None /\ edits = 0 =>
       report = IF source = Unparsed THEN Inconsistent ELSE Assessed(graph)
=============================================================================
