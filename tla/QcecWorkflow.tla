---------------------------- MODULE QcecWorkflow ----------------------------
(***************************************************************************)
(* One run of the external circuit-pair workflow (e7q.ir.qcec_workflow):   *)
(* two circuit files are read once, preserved and parsed; copies of what   *)
(* was read are checked by QCEC; the assessment, a bounded claim and the   *)
(* relations between them become an evidence graph, written to the output. *)
(* Meanwhile the user may edit or delete the circuit files.                *)
(*                                                                         *)
(* The check itself is the one QcecSupervisor refines: its IsolatedCheck   *)
(* is part of the state here, with a worker that reads the copies when it  *)
(* gets to them.                                                           *)
(***************************************************************************)
EXTENDS FiniteSets, Comparison

CONSTANTS
  Bytes,        \* contents a circuit file may have
  Importable,   \* those the bounded OpenQASM 2 importer accepts
  Equivalent    \* the pairs the backend passes under the requested criterion

Roles   == {"left", "right"}
Files   == {"a", "b", "out"}
Missing == "missing"
Evidence == "evidence"
Torn    == "torn"

ASSUME WorkflowAssumption ==
  /\ Importable \subseteq Bytes
  /\ Equivalent \subseteq Bytes \X Bytes
  /\ {Missing, Evidence, Torn} \cap Bytes = {}

VARIABLES
  request,      \* the file of each role, the output's file, the caller's references
  disk,         \* what is in the files
  captured,     \* what was read for each role
  snapshots,    \* the copies in the temporary directory
  seen          \* what the worker read of them

pairVars == <<request, disk, captured, snapshots, seen, opinion, outcome, graph, pc>>

\* file: the same file may be given twice.  sameName: the output's path, resolved,
\* is an input's when both are the same file; otherwise it is a hard link to it.
Requests ==
  [file : {[left |-> "a", right |-> "b"], [left |-> "a", right |-> "a"]},
   output : Files, sameName : BOOLEAN, sameRef : BOOLEAN]

NoBytes == [role \in Roles |-> None]
Inputs  == {request.file[role] : role \in Roles}

Graphs ==
  [sources : [Roles -> Bytes], represents : [Roles -> {"validated", "failed"}],
   status : Statuses, assesses : {"validated", "failed"},
   claim : {"supported-within-declared-scope", "unsupported"}]

ASSUME NoneAssumption == None \notin Bytes \cup Statuses \cup Graphs

-----------------------------------------------------------------------------
\* A mutant: only the names are compared.
SafeByName == ~(request.sameName /\ request.output \in Inputs)

\* main refuses to write over an input, by whatever name.
SafeOutput == request.output \notin Inputs

\* _parse_representation of both.
BothParse(raw) == \A role \in Roles : raw[role] \in Importable

\* A mutant: nothing is copied, the worker is given the caller's paths.
WorkerSees(role) == disk[request.file[role]]

\* The file behind the path the worker is given.
WorkerInput(role) == snapshots[role]

\* The artifacts and relations of the graph, as far as they carry a judgement.
PairGraphOf(raw, status) ==
  [sources    |-> raw,
   represents |-> [role \in Roles |-> IF raw[role] \in Importable THEN "validated" ELSE "failed"],
   status     |-> status,
   assesses   |-> IF status = "PASS" THEN "validated" ELSE "failed",
   claim      |-> IF status = "PASS" THEN "supported-within-declared-scope" ELSE "unsupported"]

RefOf(role) == IF request.sameRef THEN "ref" ELSE role
References  == {RefOf(role) : role \in Roles}

\* recover_external_qcec_source: the one source of this reference, or a refusal.
Recovered(g, ref) ==
  LET matches == {role \in Roles : RefOf(role) = ref}
  IN  IF Cardinality(matches) = 1 THEN g.sources[CHOOSE role \in matches : TRUE] ELSE None

-----------------------------------------------------------------------------
PairInit ==
  /\ request \in Requests
  /\ disk \in [Files -> Bytes \cup {Missing}]
  /\ captured = NoBytes /\ snapshots = NoBytes /\ seen = NoBytes
  /\ Check!Init
  /\ graph = None
  /\ pc = "start"

Proceed(next) == pc' = next /\ UNCHANGED request

\* main: the output must not be an input.  An output that exists is compared with
\* the input files, which fails if one of them is missing.
CheckOutput ==
  /\ pc = "start"
  /\ Proceed(IF SafeOutput /\ (disk[request.output] # Missing => \A f \in Inputs : disk[f] # Missing)
        THEN "capture_left" ELSE "refused")
  /\ UNCHANGED <<disk, captured, snapshots, seen, opinion, outcome, graph>>

\* _read_snapshot; a file over the budget is as unreadable as a missing one.
Capture(role, from, next) ==
  /\ pc = from
  /\ LET raw == disk[request.file[role]]
     IN  IF raw \in Bytes THEN captured' = [captured EXCEPT ![role] = raw] /\ Proceed(next)
                          ELSE UNCHANGED captured /\ Proceed("refused")
  /\ UNCHANGED <<disk, snapshots, seen, opinion, outcome, graph>>

\* A mutant: the reason is recorded where the status belongs.
AssessByReason ==
  /\ pc = "parse" /\ ~BothParse(captured)
  /\ outcome' = "unsupported_input"
  /\ Proceed("build")
  /\ UNCHANGED <<disk, captured, snapshots, seen, opinion, graph>>

\* A circuit that does not parse makes the assessment without a worker.
AssessUnsupported ==
  /\ pc = "parse" /\ ~BothParse(captured)
  /\ outcome' = "UNSUPPORTED"
  /\ Proceed("build")
  /\ UNCHANGED <<disk, captured, snapshots, seen, opinion, graph>>

\* The temporary directory, with copies of what was captured.
WriteSnapshots ==
  /\ pc = "parse" /\ BothParse(captured)
  /\ snapshots' = captured
  /\ Proceed("evaluate")
  /\ UNCHANGED <<disk, captured, seen, opinion, outcome, graph>>

\* The worker reads a circuit, and once it has both may come to an opinion.
WorkerReads(role) ==
  /\ pc = "evaluate" /\ seen[role] = None
  /\ WorkerInput(role) # None
  /\ seen' = [seen EXCEPT ![role] = WorkerInput(role)]
  /\ UNCHANGED <<request, disk, captured, snapshots, opinion, outcome, graph, pc>>

WorkerJudges ==
  /\ pc = "evaluate"
  /\ \A role \in Roles : seen[role] # None
  /\ Check!FormOpinion
  /\ opinion' = "PASS" => <<seen.left, seen.right>> \in Equivalent
  /\ UNCHANGED <<request, disk, captured, snapshots, seen, graph, pc>>

\* evaluate returns, and the temporary directory goes.
EvaluatePair ==
  /\ pc = "evaluate"
  /\ Check!Conclude
  /\ snapshots' = NoBytes
  /\ Proceed("build")
  /\ UNCHANGED <<disk, captured, seen, graph>>

\* ... or raises: a worker killed in the middle of its answer, a directory or a
\* process that cannot be made.
EvaluatePairRaises ==
  /\ pc = "evaluate"
  /\ snapshots' = NoBytes
  /\ Proceed("refused")
  /\ UNCHANGED <<disk, captured, seen, opinion, outcome, graph>>

\* The claim, the relations and the graph.
BuildPairGraph ==
  /\ pc = "build"
  /\ graph' = PairGraphOf(captured, outcome)
  /\ Proceed("write")
  /\ UNCHANGED <<disk, captured, snapshots, seen, opinion, outcome>>

\* write_bytes; it may fail before or after it has truncated the output.
WriteOutput ==
  /\ pc = "write"
  /\ \/ disk' = [disk EXCEPT ![request.output] = Evidence] /\ Proceed("done")
     \/ disk' = [disk EXCEPT ![request.output] = Torn] /\ Proceed("refused")
     \/ UNCHANGED disk /\ Proceed("refused")
  /\ UNCHANGED <<captured, snapshots, seen, opinion, outcome, graph>>

\* Someone else edits or deletes a circuit file.
EditFile ==
  /\ pc \notin {"done", "refused"}
  /\ \E f \in Inputs, new \in Bytes \cup {Missing} : disk' = [disk EXCEPT ![f] = new]
  /\ UNCHANGED <<request, captured, snapshots, seen, opinion, outcome, graph, pc>>

PairOver == pc \in {"done", "refused"} /\ UNCHANGED pairVars

Workflow ==
  \/ CheckOutput
  \/ Capture("left", "capture_left", "capture_right") \/ Capture("right", "capture_right", "parse")
  \/ AssessUnsupported \/ WriteSnapshots \/ EvaluatePair \/ EvaluatePairRaises
  \/ BuildPairGraph \/ WriteOutput

Worker == WorkerJudges \/ \E role \in Roles : WorkerReads(role)

PairNext == Workflow \/ Worker \/ EditFile \/ PairOver

PairSpec == PairInit /\ [][PairNext]_pairVars

-----------------------------------------------------------------------------
(* Properties.                                                             *)

\* Every variable has its type.
TypeOK ==
  /\ request \in Requests
  /\ disk \in [Files -> Bytes \cup {Missing, Evidence, Torn}]
  /\ {captured, snapshots, seen} \subseteq [Roles -> Bytes \cup {None}]
  /\ {opinion, outcome} \subseteq Statuses \cup {None}
  /\ graph \in Graphs \cup {None}
  /\ pc \in {"start", "capture_left", "capture_right", "parse", "evaluate", "build",
             "write", "done", "refused"}

\* A supported claim, and every validated assessment relation, is about the very
\* bytes the graph preserves: both parsed, the worker read exactly them whatever
\* happened to the files meanwhile, and passed them under the requested criterion.
\* And what is recovered later under a reference are those bytes, or, when the
\* caller gave both circuits the same reference, nothing: recovery never picks.
ClaimIsAboutTheCapture ==
  graph # None =>
    /\ graph.claim # "unsupported" \/ graph.assesses = "validated" \/ graph.status = "PASS" =>
         /\ opinion = "PASS"
         /\ graph.sources = captured /\ seen = captured
         /\ <<captured.left, captured.right>> \in Equivalent
         /\ \A role \in Roles : graph.represents[role] = "validated"
    /\ \A ref \in References, role \in Roles :
         RefOf(role) = ref => Recovered(graph, ref) \in {captured[role], None}

\* The workflow itself never changes a circuit file, nor an output before its
\* graph is complete.
InputsSurvive ==
  [][pc' # pc => /\ \A f \in Inputs : disk'[f] = disk[f]
                 /\ disk' # disk => graph # None]_pairVars
=============================================================================
