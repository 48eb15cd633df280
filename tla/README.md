# A formal model of E7Q

E7Q is a small language for quantum circuits with a reference simulator, and E7Q-IR, an evidence
protocol on top of it: graphs of content-addressed artifacts that record what was run, compared or
claimed, and under which criterion. The program's central promise is *fail closed*: a claim is
supported only by a check that really ran, on the bytes that were captured, to its end; everything
else (a timeout, a crash, a lost message, an unsupported input, a missing validator) ends in one of
several distinct non-passing outcomes. The modules in this directory are about that promise.

Paths below are relative to the repository. Line numbers of every definition are in `PROJECT.json`
under `map`.

## 1. The system

### Components, state and operations

| Component | State | Operations | What makes it correct |
|---|---|---|---|
| QCEC adapter, `src/e7q/ir/qcec.py` | a worker process, a pipe, a deadline | `evaluate`, `_run_isolated`, `_qcec_worker`, `_terminate_and_reap` | conclusive only on the finished worker's own verdict; always returns; leaves nothing behind |
| PyZX adapter, `ir/pyzx.py` | the same, and the admission of both circuits | `evaluate`, `_admit`, `_run`, `_worker` | the same; never refutes; loses no answer |
| Native F2 replay, `ir/native_semantic.py` | the same, and an LRU cache of contexts for the process's lifetime | `_reconstruct`, `_run_native_replay_isolated`, `_context`, the validator's two methods | passes only what was replayed inside an enforced limit; the cache never answers for another graph |
| Conformance, `ir/conformance.py`, `ir/semantic.py`, `ir/profiles.py` | none of its own between calls | `validate_graph`, `validate_semantics`, `_invoke`, `aggregate_status` | a PASS leaves no subject out, whatever validators do |
| Circuit-pair workflow, `ir/qcec_workflow.py` | captured bytes, a temporary directory, the output file | `main`, `build_external_qcec_graph`, `recover_external_qcec_source` | the claim is about the captured bytes; inputs are never overwritten |
| Parser, `language.py`; `validate_program`, `resources.py` | the expansion's stack, counters and flag | `parse`, `append_body` | the accepted program is the unfolding of the verified path, within the limits, and can be executed |
| Topology compiler, `language.py` | the search's queue and visited set, the operations emitted | `compile_topology`, `_shortest_path` | the routed program does what the source does, on the device; the same routes every time |
| Execution, `language.py`, `stabilizer.py`, `resources.py` | a state, classical bits, counts; a prefix prepared once for all shots | `preflight`, `run`, `verify` | the report is of the shots of the program; a verdict is of the check it names |
| Native and legacy preservation, `ir/native.py`, `ir/legacy.py` | none | build artifacts from one source | judged by the native validator |
| Compiler workflow, `ir/compiler_workflow.py` | errors so far, the compilation, the graph | `build_compiler_proof_graph`, `validate_compiler_evidence` | a supported claim was earned, and stays so under the validator whatever is edited |
| Native-to-external workflow, `ir/native_qcec_workflow.py` | errors of each side and of the pair, the graph | `build_native_external_qcec_graph` | what is removed before the check makes no difference to the claim |
| External evidence packages, `external_bundles.py` | the open directories, the entry under inspection, the members read so far | `verify_external_bundle`, `_load_directory`, `_load_zip`, `_validate_record` | what is accepted was there, inside the limits, under no link; a passing receipt tells one story |
| Legacy receipts, `ir/legacy_receipt_workflow.py`, `results.py` | three captured files, the graph | `build_legacy_receipt_graph`, `validate_legacy_receipt_evidence`, `build_execution_receipt` | a claim is supported exactly of three files that agree, and of none after an edit |
| Receipt binding, `ir/receipt_binding.py` | the identities established so far | `assess_receipt_binding` | a selection is bound only to the receipt it committed itself to and that was asked for |
| Legacy preservation, `ir/workflow.py` | captured bytes | capture, record | as the circuit-pair workflow, without a judgement |
| Exact criteria, `ir/circuit.py`, `unitary.py`, `real_unitary.py`, `channel.py`, `measurement.py` | none | pure algebra | agreement with matrix semantics |
| Candidate families, histories, realisation, `ir/candidate_family.py`, `transformation_history.py`, `realisation.py` | none | pure functions on linked records | nothing silently dropped from a family; unique selections only |
| Bundles, results, campaigns, drift, trends, experiments, calibration, planning, records | none | statistics and record checks on supplied files | fail-closed linkage |
| Scripts, pilots, research | | benchmarks, release checks | outside the program |

### How they interact

`qcec_workflow.main` captures two files, parses them, and calls `qcec.evaluate`, which starts one
worker over one pipe and supervises it. The compiler and the native-to-external workflows admit a
native program with one function, project it with another, and call the same `evaluate`; the compiler
workflow calls `language.compile_topology` between the two, and its validator calls it again. `conformance.validate_graph` calls
`semantic.validate_semantics`, which calls the installed validators once per artifact and relation;
the native validator looks its context up in a module-level cache and, on a miss, starts one worker
that calls `language.parse`, `resources.preflight` and `language.run`. `verify_external_bundle` captures
a directory or an archive and compares its documents with each other; `assess_receipt_binding` calls
the validator of a legacy receipt's graph, which computes the receipt again with
`results.build_execution_receipt`, as the builder did. There are no threads and no
network; all concurrency is between a parent and one worker process, and between the program and
whoever else writes to the file system.

### What is hard about it

* A worker can die at any instruction; so can it finish between any two looks of its parent.
* The clock can pass the deadline between any two of the parent's steps.
* A message larger than the pipe's buffer is written in several pieces; `poll` answers true for the
  first byte, `recv` then waits for the last without a deadline.
* Files change between the moment they are captured, parsed and checked.
* Validators are plugins and may raise, flood or stay silent; contexts outlive the validation.
* What a workflow hands to the check is not what it makes a claim about: measurements are taken off,
  swaps put in, and admission rules have to make up for it.
* A graph is judged later, by code that repeats what the builder did, after anybody may have edited
  it and recomputed its digests.
* Path expansion checks running counters and one shared flag over nested expansions.
* One prepared state serves all shots, and three backends answer the same `verify` with counts, a
  distribution or a state before the measurement.
* A directory is inspected entry by entry while anybody may move, replace and rewrite what is in it.
* Supplied documents are compared only where both are there and well-formed: a check that is not made
  must not look like one that passed.

The list with line numbers, and which property covers which, is in `PROJECT.json` under `hazards`.

## 2. The modules

```
IsolatedWorker        the worker process and its pipe
  WorkerSupervisor    the steps of a supervising parent, shared by the three adapters
    QcecSupervisor    qcec.evaluate             refines IsolatedCheck
    PyzxSupervisor    pyzx.evaluate
    NativeReplay      native_semantic._reconstruct
IsolatedCheck         what an isolated check promises its caller (abstract)
QcecWorkflow          qcec_workflow.main        contains IsolatedCheck
SemanticConformance   validate_graph and the context cache, over NativeReplay's outcomes
LanguageProgram       operations and what is said of them
  PathExpansion       language.parse's path expansion, resources.validate_program
  Execution           resources.preflight, language.run and verify
    LanguageRun       the two composed: a source to its verdict
DirectoryWalk         external_bundles._load_directory and who edits what it walks
  ExternalBundle      verify_external_bundle
LegacyReceipt         legacy_receipt_workflow, results.build_execution_receipt
  ReceiptBinding      receipt_binding.assess_receipt_binding
SuppliedEvidence      ExternalBundle and ReceiptBinding side by side
NativeProgram         parsed programs, what they do, their admission and projection
  TopologyCompiler    what compile_topology returns, by distances
    TopologyRouting   compile_topology and its search, step by step
    CompilerWorkflow  compiler_workflow           contains IsolatedCheck
  NativeQcecWorkflow  native_qcec_workflow        contains IsolatedCheck
Comparison            the stages and the outcome the three workflows share
  NativeComparison    errors, submission and the trusted worker of the last two
WorkerProofs        lemmas about every supervised worker
  QcecSupervisorProofs, PyzxSupervisorProofs, NativeReplayProofs    theorems
SemanticConformanceProofs, SuppliedEvidenceProofs, LanguageRunProofs
                    theorems about the three compositions of those names
WorkflowProofs      theorems about routing and about the three workflows with a check
MC...                 instances for the model checker
```

**IsolatedWorker.** `stage` is how far the child has got (`boot` before it announces itself,
`running` in the backend, `answering` while a message is partly written, `answered`, `closed` once
the process has ended, `dead` once `is_alive()` says so). `Die(code)` may strike at every stage: it
is every crash, `os._exit` and foreign signal at once, and `torn` remembers that it struck in the
middle of a write. `pipe` holds complete messages. The child's code is the repository's; the process
and the pipe are modelled from Python's `multiprocessing` and marked external in the map.

**WorkerSupervisor.** One action per statement at which the parent can be overtaken: reading the
clock, `poll`, `recv`, the loop's `is_alive`, `join`, closing, the two signals, the last `is_alive`.
`pc` names the point reached. The three adapters wrote this loop three times with differences that
matter, so the differences are parameters: where a dead worker sends the loop (`CheckAlive`,
`Join`), and who drains. `ExecutionReason` is the chain of early returns that classifies the
execution.

**QcecSupervisor**, **PyzxSupervisor**, **NativeReplay** put the loop together as each adapter does,
add the answers its worker can compute and the reading the adapter makes of them. Data is reduced to
what changes an outcome: a backend result is its verdict and whether the backend says it used up its
time; admission is a status per circuit; a graph's shape is the status of the first rule it breaks.

**IsolatedCheck** is the abstract specification: a worker forms an opinion once, a caller gets one
outcome, that opinion or a fallback. `QcecSupervisor` implements it (the property `CheckSpec`, also
a theorem); `QcecWorkflow` uses it in the adapter's place, so the composition does not carry the
pipe's state. `QcecWorkflow` adds to it that the worker reads the copies, one after the other, when
it gets to them, and that the call may raise instead (a torn message, as in
finding 2).

**Comparison** and **NativeComparison** declare what the workflows around a check have in common: the
opinion of the worker, the outcome, the graph and the stage; and, where native programs are compared,
the errors found, the projections sent and a worker that passes only circuits that mean the same.

**QcecWorkflow.** Files are contents on a `disk` that `EditFile` may change at any step until the
workflow is over; `captured`, `snapshots` and `seen` are what was read, copied, and read by the
worker. A request may name the same file twice, give both the same reference, and name an input as
the output, by the same or by another name.

**SemanticConformance.** A behaviour is a sequence of validations in one process, because the cache
outlives them. One action judges one subject, in the code's order. Graphs are given by their
`Contents` (a constant): artifacts with references, profile, readiness and whether they match the
replay, relations likewise, and one Boolean each for what F0 and the digests of F1 come to. The
native validator is modelled; the circuit validator is any validator: it may answer any set of
statuses, raise, break the result contract, flood or stay silent.

**PathExpansion.** The recursion of `append_body` is an explicit `stack` of paths with their next
statement. A statement is what the parser's patterns make of a line; a line that no pattern matches
or that has a bad index is `invalid`. `UseRefusal` and `OperationRefusal` list the checks in the
code's order, limits included. The settings, registers and invariants of a source are taken to be
valid: they are checked before and after the expansion and do not touch its state.
`Unfold`, `WellFormed` and `Fits` define separately, without a stack, counters or a flag, what a
path stands for and what the limits admit.

**Execution** takes an accepted program from preflight to the report and the verdict, one operation
of one shot at a time. Amplitudes are exact: `<<a, b, c, d>>` is `a + b w + c w^2 + d w^3` for the eighth
root of unity `w`, which every gate of the language stays within once a positive factor is left out; the
factor is, so what remains of a probability is whether it is zero (`Possible`, `Support`). A density
matrix is the set of pure states it mixes (`Mixture`), a channel keeps which of its Kraus operators
have a weight. `quantum` is the code's state, `records` what it reports. A program whose measurements
all come last and whose gates have no condition is prepared once (`Reusable`, `Prepare`) and every
shot starts from there; other state-vector programs with measurements, conditions or assertions in the
middle start every shot from the ground state; a static program reports the exact support and samples its
shots (`RunStatic`). `ValidProgram` is what preflight requires of a program: its ceilings on registers,
shots and operations (`MaxRegister`, `MaxShots`, `MaxOperations`; 4096, 1,000,000 and 100,000 in the
code), none of which the parser knows, and its rules about the operations. Its estimate
of the host's resources may refuse anything (`BlockProgram`), the stabilizer backend may be missing, and
a MemoryError may end a run anywhere. `drawn` and `past` keep the outcomes of every measurement;
`Play` runs the whole program from the ground state with the outcomes a shot drew, and
`ReportIsOfTheShots` compares. `VerdictIsEarned` says which check each demand was given, and that none
was passed that was not looked at. A demand may have Pauli requests that say nothing (`InvalidRequest`,
answered UNSUPPORTED by the stabilizer backend), more of them than `MaxPauliChecks` (64 in the code), or
any of them on another backend; the last two raise (`Unanswerable`). Left out: the values of probabilities beyond zero or not, and the
tolerance of the normalisation check.

**LanguageRun** is `PathExpansion` followed by `Execution`; a source that is refused is never run.

**DirectoryWalk** has the walk at one action per access to the file system: `lstat`, the open of a
directory relative to its parent's descriptor, `scandir`, the open of a file, one read per block, the
`fstat` after it. Between any two, `EditStep` writes, unlinks, renames, replaces the bundle's own path,
or gives an inode number a new life. `trees` remembers every file system there has been, for
`MembersWereThere` to refer to. Assumed of the platform: every write changes the modification time,
`scandir` returns the names that were there when it was called, a descriptor keeps its inode. The
fallback without `dir_fd`, which the repository itself documents as weaker
(`docs/e7q-ir/REVIEW_HARDENING.md:633-660`), is left out.

**ExternalBundle** adds archives (captured in one read), and the checks of a record and the receipt.
A document is one block, a record of the facts that are compared with another document's; every
check of a field by itself is one fact, `sound`. A digest is the block it is of, so two blocks never
collide, abbreviated or not. `Coherent` states what a passing record amounts to, apart from the
checks; a check is made only where the code makes it.

**LegacyReceipt** reads three files one after the other, replaced by somebody in between, judges them
(`Outcome`, from sets of failures as the code from its list), records the judgement in a graph, and
validates the graph after `Tamper` edited it. Its receipt is computed by `ExecutionReceipt`. A digest
is the document it is of. `rest` stands for the fields of a receipt the workflow compares and nothing else depends on.
`Consistent` says in one piece what the checks amount to, and `Judgement` what is to be said of documents
that do not agree. Two computations raise: the frequencies of counts that add up to no shots
(`DividesByZero`) and the lookup of a status that is a list (`Unhashable`). Either ends the builder
without a graph (`phase = "raised"`). Of a graph edited to preserve such documents the validator catches
the second and answers FAIL; the first passes through it, and through `assess_receipt_binding` as well
(`part = "raised"`, see section 6).

**ReceiptBinding** is `assess_receipt_binding` with one action per part, because what a refusal is
called and which identities it carries depends on how far it came. The planning selection's replay
(`realisation.py`) is an input: its outcome, whether it replays, whether the records are linked.
`Tamper` may strike between the request and the assessment, not during it.

**SuppliedEvidence** puts the two verifications next to each other. They share no state and no
behaviour needs both; one run checks them.

**NativeProgram** holds what three modules share. An operation is a kind, its qubits and whether it
has a condition; "H" stands for the one-qubit gates and "CX" for the two-qubit gates but SWAP, which
every line that is modelled treats alike. `Meaning` is the one semantic notion: with its SWAPs taken
out, a list of operations is a sequence of operations on logical qubits and a final layout. Two lists
with the same meaning do the same on every state; the converse fails (two H cancel), so "means the
same" is never more than the program may claim. `AdmitNative` is `_admit_native`, rule by rule.

**TopologyRouting** is the compiler with its breadth-first search, one visited path a step. What it
computes is `TopologyCompiler`'s `Compile`, which knows nothing of queues: the route of a gate is the
lexicographically least among the shortest. The run shows the two to agree, and `CompilerWorkflow`
then uses the function, first in the builder and again in the validator.

**CompilerWorkflow** goes from a source, submitted coupling edges (malformed, twice, out of range) and
native gates to the graph; the check is an `IsolatedCheck` whose worker, an external program, is
trusted to pass only circuits that mean the same, and may fail to pass those. A graph is what its
artifacts say of each other; digests, names, references and criteria, which the validator compares
too, are left out, so an `Edit` is one by somebody who recomputed them. `Report` is the validator,
which compiles again. A graph whose source does not parse is built as UNSUPPORTED, but the validator
calls it inconsistent; `BuiltGraphsValidate` states that exception.

**NativeQcecWorkflow** admits both sides and the pair, runs the native program where it has a seed,
and sends the two prefixes to the check. In an external circuit the operations are the importer's,
with a bit for each measurement.

## 3. The runs

| Run | Specification | What it shows | Distinct states |
|---|---|---|---|
| `qcec_supervisor` | QcecSupervisor | conclusions are the worker's, signals are the last resort and always reported, nothing is left behind, the call ends, it refines IsolatedCheck | 221 982 |
| `qcec_lost_answer` | QcecSupervisor | finding 1 (violation) | |
| `pyzx_supervisor` | PyzxSupervisor | the assessment is exactly what a finished worker answered, and PASS only of an admitted verified pair; the call ends | 22 401 |
| `native_replay` | NativeReplay | PASS only after a complete replay inside the limit; timely answers are used; there is always a context | 14 798 |
| `native_signal` | NativeReplay | finding 2 (violation) | |
| `path_expansion` | MCPathExpansion | acceptance is exactly well-formedness of the unfolding; what preflight refuses of what the parser accepts is two families of programs; the report is of the program's shots, and each verdict of the check it names | 252 598 |
| `semantic_conformance` | MCSemanticConformance | a PASS leaves nothing out; one context per report; the cache is the recent past | 222 812 |
| `qcec_workflow` | MCQcecWorkflow | the claim is about the captured bytes, an unparsed circuit is never run and recovery never picks; the inputs survive | 381 348 |
| `topology_routing` | MCTopologyRouting | between any two operations the emitted program means the emitted part of the source; the search routes and refuses as the distances say | 95 728 |
| `compiler_workflow` | MCCompilerWorkflow | supported claims are earned; an edited graph that validates still describes a compilation; builder and validator agree | 908 463 |
| `native_qcec_workflow` | MCNativeQcecWorkflow | admission is the declared subset; a claim from a check of the prefixes holds with the measurements | 43 438 |
| `supplied_evidence` | MCSuppliedEvidence | members were there, within the limits; an undisturbed walk is exact; receipts, claims and bindings are earned | 317 999 |

Bounds, and why they are enough:

* The supervisors have no numeric bound. A worker writes at most two messages, there is one worker
  per call, and all answers, criteria and versions are enumerated. `expired` is the only clock: all
  the code ever asks of it is whether the deadline has passed.
* `path_expansion`: three paths, with up to two, two and one statements, so that a cycle through
  another path, a path used twice and a measurement before and after a use all occur; two sets of
  limits, none and one (`MCLimits`) that every one of the four counters can meet and exceed. For the
  execution, programs of one path with up to two operations out of twelve (a gate with and without an
  effect on a measurement, conditions on either bit, both noise channels that differ) and a
  measurement, on two qubits and two bits; two shots, so that one can inherit from the other; six
  demands on the verdict, one with an invalid and one with too many Pauli requests (`MaxPauliChecks` 2).
  `MaxOperations` 3 is exact for those programs and one less than what eight further ones unfold to;
  registers and shots are at their ceilings (2). That beyond those nothing is executed either is left to
  `AcceptedProgramIsExecutable`, which is proved for all sizes, shots and ceilings.
* `semantic_conformance`: eight graphs of at most two artifacts and one relation (every framework
  decision is about one subject or one relation's two endpoints), cache limit 2 where four graphs
  are seen by the native validator (the code's limit is 4).
* `qcec_workflow`: two input files, two circuits and one unparsable content. The backend's
  `Equivalent` is not symmetric, so that exchanging the inputs would be noticed.

* `topology_routing`: every coupling graph of four qubits (64), so that neighbours, one and two
  swaps, several shortest paths and disconnected operands all occur; two gates, the second of which
  meets whatever layout the first left, and a measurement. Two programs over every coupling graph of
  five qubits (1024): with four, a depth-first search would find the same routes.
* `compiler_workflow`: three qubits and one or two gates before the measurement (`MaxGates` 4, where
  routing one CX over a swap makes three and two of them six: both sides of the second budget check),
  a program of four qubits and five gates over both budgets, two edited parts (`MaxEdits`).
* `supplied_evidence`: eight inodes (a root, two directories, three files, a link, a special file) and
  three names, one of them unsafe. Undisturbed, every tree of a root and one subdirectory on either
  side of each limit; disturbed, one directory, one archive and `MaxEdits` 2: an entry replaced and
  put back, a file rewritten to its old length, a directory moved out take one or two edits. A sound
  record with five manifests, every record one fact away, and two facts away where counts, circuit or
  mapping are the second. A sound execution, each bundle, result or receipt one fact away and each
  bundle with each result; three replacements for one of them; one edit of the graph (`MaxTampering`),
  which may replace a carrier, its digest and its representation at once; thirty-eight requests.
* `native_qcec_workflow`: two qubits, `MaxGates` 2; every external prefix of up to two operations of
  six kinds with seven ways to end, against eleven programs.

No run uses symmetry. Deadlock is checked everywhere; a terminated call stutters explicitly
(`Over`, `Done`), and only once its worker is gone. Three modules have no type invariant among their
run's properties (TopologyRouting, CompilerWorkflow, NativeQcecWorkflow): their other invariants
evaluate every variable.

### Fairness

Liveness is checked of the supervisors only, under weak fairness of the clock, of the parent's own
code (it is sequential and nothing suspends it) and of two things the kernel sees to: a write that
a reader is waiting for goes on, and SIGKILL ends a process. The worker itself owes nothing: the
backend may compute for ever and ignore SIGTERM. `EveryCallEnds` of qcec says less than that of
pyzx, because qcec's call can be left by an exception that skips the reaping.

## 4. The proofs

`WorkerProofs` proves, for any set of answers, an inductive invariant of a supervised worker,
`Supervised(A)`, and that every step of `WorkerStep` and every shared step of the parent keeps it.
It has two halves: `WorkerInv` relates the worker's stage, exit code, pipe and answer (nothing is in
the pipe but the start message and the worker's own answer, and a process that is gone has an exit code), and `ParentInv` relates
the parent's locals to the worker (what was received was sent; signals imply an expired deadline and
a timeout; the endpoints held match `pc`). Three lemmas about the pipe follow from it: a message
written while the parent listens is in the pipe, `recv` loses none but the one it returns, and so an
answer is either with the parent or still in the pipe (`NothingIsLostByReceiving`).

`QcecSupervisorProofs` adds what evaluate does with it. The invariants the runs check are not
inductive by themselves: that a conclusive outcome came from a worker that exited zero depends on
`response` being what the worker sent, on `reaped` being a true statement about a process that can
only stay dead, and on `signalled` being unchanged after `reap`. The inductive invariant is

    Inv == Supervised(QcecAnswers) /\ TypeOK /\ (outcome = NoOutcome <=> pc # "done")
           /\ ConclusionIsTheWorkers /\ ForcedMeansBlocked

and from it follow, for all behaviours of `Spec` and without any bound on the pipe or the number of
steps:

| Theorem | Statement |
|---|---|
| `TypesHold` | `Spec => []TypeOK` |
| `ConclusionsHold` | `Spec => []ConclusionIsTheWorkers` |
| `ForceIsReported` | `Spec => []ForcedMeansBlocked` |
| `NothingIsLeft` | `Spec => []NothingLeftBehind` |
| `ForceIsJustified` | `Spec => ForceIsLastResort` |
| `CallIsAnIsolatedCheck` | `Spec => CheckSpec` (refinement, with the mapping `opinion <- Opinion`) |

`PyzxSupervisorProofs` and `NativeReplayProofs` add *delivery*. Their `Delivered` follows an answer from
the worker's write to the parent's `response`: as long as the deadline leaves the parent listening, it
is in the pipe or with the parent, and the parent gets past the loop only with the pipe empty and the
writer gone. For pyzx the escape is the parent's own timeout, for the replay the deadline, because
only a worker found dead before it is drained. This is the statement that fails of qcec (finding 1);
with the loop of pyzx or the replay changed to qcec's, the proof fails at the step that goes past the unread
pipe.
`Supervised` is not an invariant of the replay: a broken message ends it with the worker unreaped, so
there the parent's half is kept only until the context is built. `Inside` relates an answer to the
memory limit the worker announced, which `PassIsReplayed` needs and does not say.

| Theorem | Statement |
|---|---|
| `PyzxTypesHold` | `Spec => []TypeOK` |
| `PyzxAnswersCount` | `Spec => []AssessmentIsTheAnswer` |
| `ReplayTypesHold` | `Spec => []TypeOK` |
| `PassesAreReplays` | `Spec => []PassIsReplayed` |
| `TimelyAnswersAreUsed` | `Spec => []TimelyAnswerIsUsed` |

The supervisors have no constants, so these need no assumption.

`SemanticConformanceProofs` proves the four properties of the framework for any set of graphs, any
number of subjects, any answers of the validators and any cache limit. That a report which passes
leaves nothing out depends on the position of the walk (every subject before it has been judged or is
the reason the report does not pass), on each status in the report being one the framework has
normalised, and on the context of the report being the one the cache holds for that graph; the latter
holds because nothing between two judgements of one graph uses the cache for another, which is a
statement about the cache as a list, `CacheIsTheRecentPast`, and inductive with it.

`WorkflowProofs` is about the workflows that put a check between a source and a claim, and about the
compiler one of them calls. Its module extends all four, so that what is proved of programs once serves
everywhere.

*What programs do.* `After` says what a list of operations does, one after the other; its equations,
`AfterConcat` and `AfterSame` come by induction. From them follows that a gate routed along a path does what
it would do at the path's ends (`RoutedDoes`: its first swap conjugates the rest, `Conjugated`), that a
route is a path of the device (`RouteCorrect`, from the balls around a qubit and the distances in them), and so
that the compiled program means what the source means (`CompiledMeaning`), natively and on coupled qubits
(`CompiledOnDevice`), with every source operation still there in order (`CompiledKeeps`) and a proof the
typed trace agrees with (`CompiledTrace`).

*The search.* `TopologyRouting` finds its routes by a queue, `TopologyCompiler` defines them by distances.
The invariant between the two is `Queued` and `Reached`. Every path in the queue is `Preferred`: shortest to
its end, and before every other shortest one. The paths are in order of their lengths, those of one
length in lexicographic order, and a path that is longer by one comes, lexicographically, before every
shorter one still queued, because the path it continues was taken off before them. Every
qubit seen is at the end of a queued path or has all its neighbours seen. That the extension of the first
path to a new qubit is again preferred uses all of it: a rival would come by a qubit whose
neighbours are not all seen, hence queued, hence not before. `PreferredIsRoute` takes a preferred path to the
route of the distances; that it is not longer than the device has qubits is a pigeonhole argument.

*The compiler workflow.* `CompilerInv` follows the graph from the source to what an editor leaves of it.
`ValidatedStillCompiles` does not depend on how a graph came about: whatever it says, the validator compiled
again, and what `Compile` returns is a compilation (`CompileResult`). `BuiltGraphsValidate` needs that
the check of the typed trace never fails of what the compiler makes (`NoCompilerFailure`).

*The native-to-external workflow.* That a claim about the prefixes holds with the measurements
(`NativeClaimHolds`) is a statement about sequences: an admitted external circuit is its gates followed by one
measurement of every qubit, in some order, each into its own bit (`ExternalAdmittedIsSubset`), and what
those add to the meaning of the gates is what the full measurement adds (`SpelledMeasures`,
`MeasurementsLast`). `NativeInv` keeps the errors with what they are errors of.

*The circuit-pair workflow.* `PairInv` follows the bytes: what was captured is what was parsed, copied
and, in the order of the request, read by the worker, whatever happens to the disk.

`PairChecksOnce`, `CompilerChecksOnce` and `NativeChecksOnce` are the composition's side of the refinement: seen
through its opinion and outcome, each workflow is a behaviour of `IsolatedCheck`, which `QcecSupervisor`
implements.

`SuppliedEvidenceProofs` has five parts, each inductive once what it looks back at is kept beside it.
`WalkInv`, of the walk of a directory: an open directory stays one, and *was led to* by its path, through
a chain of moments each no earlier than the one above it (`Chain`, the witness of the recursive `Led`);
so was the entry under inspection; a file being read stays a regular file, and what was read of it is a
beginning of what it holds unless its modification time has moved, in which case it will be refused; every
member accepted is a whole state of the file its path led to; the sum of the members and the budget of
the one being read stay within the limits. Its lemmas are about the two recursive functions involved, and
about the sum over a set: `MapThenSumSet` picks its elements by `CHOOSE`, and `SumUnique`, `SumSplit` and
`SumMore` say that the order does not matter, by induction on the cardinality.
`QuietInv`, of a walk nobody disturbs: `Admissible` judges the whole of a directory at once, the walk one
name after the other, so the invariant says where the walk is in the whole. What stands under the bundle's
path (`Standing`, level by level, the witness of the recursive `Everything`) is what was inspected and what
lies `Ahead`: below a name some open directory has not returned yet, or in a directory not listed yet.
What was inspected was counted once and fits (`CountInv`), the members are its files, and together take
what these take (`TakenInv`); the open directories stand below one another, past the names they returned
(`PlacesInv`). A refusal then has a witness: with the entry refused, what was inspected or taken is part
of the whole and already too much of it (`QuietRefuses`). At the end nothing is ahead, and what was
inspected is everything (`QuietLoaded`).
`PackageInv`: a receipt is of the members that were loaded, and these stay. `ReceiptInv`: a graph is of
the three documents that were captured, and every artifact outside the ones the validator recomputes
still is what the capture made it. `BindingInv`: what witnessed a binding is what was admitted, not what
is on disk by now. Most of the work is in between: that the checks the code makes, one list of failures
at a time, come to the statement of `Consistent` and `Coherent`.

A further one, `Typing`, adds what the types of graphs and captures need.

`LanguageRunProofs` is about the parser first, for any finite set of paths, any bodies and any limits. Its
invariant says where in the unfolding of the verified path the parser is:

* `Walked`: the statements met so far, followed by what is left of every path on the stack, the top
  first, are the unfolding; the operations, the uses and the counter are those of the statements met.
* `Shape`: the stack is a walk from the target along uses, and no path is on it twice, so it is never
  longer than there are paths, which is why an unfolding of as many levels is enough.
* `Explored`: no use that has been expanded leads further than the stack may still grow. Without it
  nothing says at the end that the uses of an accepted program end, since the parser never looks.
* `Budget` and `FullLast`: no limit has been passed; the flag says whether a full measurement was met.

That a refusal is right needs the opposite direction: an open name or a depth exceeded are found on the
stack, and `EndlessChains` and `DepthIsReached` take them to the unfolding, where there is no stack.
`FlattenSeq`, `Chains` and `Unfold` are recursive functions. Their equations are proved by induction over
the natural numbers, and induction itself from the library's fact that the finite sets are
well-founded under strict inclusion (`LeastNumber`, `Induction`): the library's induction theorem has an
operator parameter, which no installed prover instantiates.

Its second half is about the execution of what was accepted, for any number of qubits and shots and
whatever is drawn. `Play` is a shot by itself: all operations from the ground state, with a given list of
outcomes. The run interleaves its shots with counting and starts them at a state prepared once, so the
invariant `RunInv` relates the two one operation at a time:

* `UnderWay`, of the shot that is running: *whatever is drawn from here on*, the play of what was drawn so
  far and of that, up to the current operation, is at this state, with these bits and this log. The
  quantifier is what makes it inductive: the list a shot will have drawn is not known before its end.
  Where the shot started from the prepared state, its play may be behind it by the first gates only, has
  met no measurement there and draws nothing, which `PreparedPlay` takes from `Reusable`. Of the
  statistics it says that they are the completed plays' and this one's up to here.
* `PastInv`, of the completed shots: each was possible, drew exactly what it used, and the counts and
  statistics are the cardinalities of the sets of plays that they count.
* `CourseInv`: which of the program, the demand and the report stands in which phase.

`ReportIsOfTheShots` is what this says at the end of a run. `VerdictIsEarned` needs that a failed
assertion is counted somewhere (`FailuresAreCounted`), that a label observed belongs to a play
(`ReportedIsWitnessed`), and that the state the stabilizer backend is asked about is the one every play
has at its first measurement (`ExpectedOfPrepared`). `AcceptedIsExecutable` says what preflight refuses in
terms of the unfolding alone, so its proof goes by way of `AcceptedIsUnfolded`. The amplitudes enter only through their types: no
theorem depends on what a gate does, except that it takes states to states.

| Theorem | Statement |
|---|---|
| `SemanticConformanceProofs!TypeCorrect` | `Spec => []TypeOK` |
| `PassIsComplete` | `Spec => []PassLeavesNothingOut` |
| `OneContextJudges` | `Spec => []OneContextPerReport` |
| `CacheIsRecent` | `Spec => []CacheIsTheRecentPast` |
| `PairTypeCorrect` | `PairSpec => []TypeOK` |
| `ClaimsAreAboutTheCapture` | `PairSpec => []ClaimIsAboutTheCapture` |
| `WorkflowSparesInputs` | `PairSpec => InputsSurvive` |
| `PairChecksOnce` | `PairSpec => Check!Spec` (refinement) |
| `RoutingDoesTheSource` | `RoutingSpec => []RoutedDoesWhatTheSourceDoes` |
| `RoutingFollowsDistances` | `RoutingSpec => []CompilesByDistance` |
| `CompilerClaimIsEarned` | `Spec => []ClaimIsEarned` |
| `CompilerClaimsStand` | `Spec => []ValidatedStillCompiles` |
| `CompilerGraphsValidate` | `Spec => []BuiltGraphsValidate` |
| `CompilerChecksOnce` | `Spec => Check!Spec` (refinement) |
| `NativeAdmissionIsTheSubset` | `ComparisonSpec => []AdmissionIsTheSubset` |
| `NativeClaimHolds` | `ComparisonSpec => []ClaimHoldsInFull` |
| `NativeChecksOnce` | `ComparisonSpec => Check!Spec` (refinement) |
| `EveryMemberWasThere` | `Spec => []MembersWereThere` |
| `QuietWalksAreExact` | `Spec => []QuietWalkIsExact` |
| `PackageReceiptIsEarned` | `Spec => []ReceiptIsEarned` |
| `ClaimOfReceiptIsEarned` | `Spec => []LegacyClaimIsEarned` |
| `BindingOfSelectionIsEarned` | `Spec => []BindingIsEarned` |
| `SuppliedEvidenceProofs!TypeCorrect` | `Spec => []TypeOK` |
| `ParserIsExact` | `Spec => []Inv`, the parser's invariant |
| `AcceptedProgramIsUnfolded` | `Spec => []AcceptedIsUnfolded` |
| `ParserRefusalsAreExact` | `Spec => []RefusalsAreExact` |
| `AcceptedProgramIsExecutable` | `Spec => []AcceptedIsExecutable` |
| `RunIsThatOfShots` | `Spec => []RunInv`, the invariant of an execution |
| `ReportIsTheShots` | `Spec => []ReportIsOfTheShots` |
| `VerdictsAreEarned` | `Spec => []VerdictIsEarned` |
| `LanguageRunProofs!TypeCorrect` | `Spec => []TypeOK` |

Their assumptions are the ones the modules state of their constants, and all of them are that an
instance is well-formed: the artifacts and relations of a graph are finite sequences of the declared
kinds and the cache holds at least one context (`ConformanceAssumption`), the markers for a missing or
torn file are no contents (`WorkflowAssumption`, `NoneAssumption`), the programs and circuits are ones their
parsers accept and the markers for none of them are none of them (`RoutingAssumption`, `CompilerAssumption`,
`NativeExternalAssumption`), the budgets are numbers (`BudgetAssumption`), supplied documents are records of
their fields (`SuppliedAssumption`), the contents of files and the listings of archives are finite
sequences and the limits numbers (`WalkAssumption`, `ArchiveAssumption`), the number of edits is bounded by
some number (`TamperingAssumption`), there are finitely many paths and bodies are sequences of statements
(`PathAssumption`), a field of no use is not a status (`FieldAssumption`), and there is at least one shot and something to
ask of it, under positive ceilings (`ExecutionAssumption`). Every one is evaluated by a run.
`WorkflowProofs` has those of four modules at once; they are about different constants, but for `None`, and hold
together of the runs' instances. Each invariant was model-checked on its run's
instance before it was proved (`Walked` with its witnesses given: what was met is the part of the
unfolding that was visited), and each proof was tried against changed modules: without the flag's check,
without the open name's, with a bound noticed one late or a return that leaves the path above it too, the proof of
`ParserIsExact` fails at the step that uses what was changed.

Every safety invariant a passing run checks is the subject of a theorem. Only model-checked: the liveness
properties, which need fairness and `ENABLED` and are out of the prover's reach.

Proving corrected the models. `CASE` with arms that can both hold is a choice TLC resolves by order and a
proof cannot: the classifications that list checks in the code's order are now `IF` chains. A full
measurement is an operation only of a program with a bit for every qubit, which the parser checks and
`Operations` did not say. The walk's limit on depth does not hold of archives, whose members are listed
without one (`external_bundles.py:76-121`): `MembersWereThere` says so now. A bound on modification times
was a bound of the model that no step respected. And a state prepared once, or none, was a state or a
constant assumed to be no state, which nothing could know of functions: it is a sequence of one or none.
In the workflows, sequences were made by `SelectSeq` and by folds, which the prover cannot expand: they are
recursive functions now, `Sorted` is by counting, and what a list of operations does is said one operation at a time
(`Doing`). That `None` and `Unparsed` differ from every program and status was used and not assumed.

## 5. What is not modelled, and why

The values of probabilities, statistics and exact algebra are pure functions of data; they have no
states for a model checker to explore and are covered by the repository's own reference tests. Lexing of a
source, OpenQASM import and export and the SDK adapters are conversions; the models take their result
as accepted or not. Identities (canonical JSON, SHA-256) are taken as injective names. Argument
validation and each command's write of its result are left out, but for the circuit-pair workflow's
output check, which is modelled. Hard resource limits of the worker appear
only as "in force or not". Two validations at once in one process do not occur (the program has no
threads). `process.start()` failing *after* the child exists is not modelled: Python does not
document it. A link created between the workflow's output check and its write is not modelled, nor a
FIFO put at an archive's path between the look at it and its opening.
Two hazards have no property: a transient outcome of a replay is cached like any other, and a failed write
leaves a torn output. Both are in the models as they are in the code, and nothing in the repository says
what should be the case instead.
`validate_receipt_binding_result` assesses once more and compares, and is left out.
`PROJECT.json` lists every component with its status and reason.

## 6. What the models found

1. **qcec drops the answer of a worker that exits quickly** (`qcec_lost_answer`). `_run_isolated`
   leaves its loop when `is_alive()` is false without reading what arrived since the last `poll`
   (`src/e7q/ir/qcec.py:331`). The pyzx adapter describes this very race and drains the pipe
   (`src/e7q/ir/pyzx.py:213-215`); `tests/test_ir_qcec.py:228` assumes it does not happen. The
   outcome is a non-passing one, so nothing false is claimed, but the result is lost.
2. **A killed replay worker can turn into FAIL** (`native_signal`). If the worker dies inside a
   write larger than the pipe's buffer, `recv` raises `OSError` rather than `EOFError`, and
   `_reconstruct`'s `except Exception` reports a failed reconstruction
   (`src/e7q/ir/native_semantic.py:625`), where `docs/e7q-ir/NATIVE_EXECUTION.md:60-61` promises a
   worker failure distinct from it.

Two further observations are recorded by properties that hold.

`BindingIsEarned` allows for an assessment that raises instead of refusing. A result of no shots whose
counts are all zero adds up, and `_count_summary` divides each count by the shots
(`src/e7q/ir/legacy_receipt_workflow.py:353-355`). Neither `validate_legacy_receipt_evidence` (1163) nor
`assess_receipt_binding` (`src/e7q/ir/receipt_binding.py:504`) catches a ZeroDivisionError, where
`docs/e7q-ir/RECEIPT_BINDING.md:85` has contradictory and rehashed backing answered as `invalid_input`.
The property shows that only an edited graph can do this, since the builder raises before there is
one, and `LegacyClaimIsEarned` that no documents that agree are lost that way.

`AcceptedIsExecutable` records a difference without calling it wrong: what the parser accepts
and preflight refuses is two families. The parser asks that registers and shots are positive and, unless
its caller gives limits, lets a source unfold to any length, where preflight has ceilings
(`src/e7q/resources.py:59-64`); and it accepts density-matrix programs with mid-circuit measurement,
conditions or assertions as long as they have no noise, all of which preflight refuses (`:104-107`).

## 7. Plan

Done: the isolated-worker core, the three adapters, the framework and the cache, the circuit-pair,
compiler and native-to-external workflows, routing, the language from a source to its verdict,
external evidence packages, legacy receipts and their binding; the proofs of the safety properties of
the adapters, the framework, routing, the three workflows with a check, the language from its parser to its
verdict and the judgements of supplied evidence. Next, in this order:

1. **Records with linkage**: realisation, whose replay is an input of `ReceiptBinding`, on candidate
   families and transformation histories; campaigns and trends on receipts.
