------------------------- MODULE NativeQcecWorkflow -------------------------
(***************************************************************************)
(* The native-to-external comparison (e7q.ir.native_qcec_workflow): a      *)
(* native program and an OpenQASM 2 circuit are admitted each for itself   *)
(* and as a pair, their measurements are taken off, and QCEC compares what *)
(* is left.  The claim that comes of it is about the two circuits.         *)
(*                                                                         *)
(* In an external circuit "rz" stands for the gates outside the subset,    *)
(* with parameters or not; a measurement of a whole register is the        *)
(* measurements the importer makes of it.                                  *)
(***************************************************************************)
EXTENDS NativeComparison

CONSTANTS
  Natives,      \* the programs the native source may parse to
  Externals     \* the circuits the external source may be imported as

ExternalKinds == Executable \cup {"rz", "barrier", "measure"}
ExternalOperations == [gate : ExternalKinds, qubits : Seq(Nat), when : BOOLEAN, bit : Nat]

\* What import_openqasm2 returns: the registers, of which the first are the
\* operands' where there is one of each, whether qelib1.inc is all that is included.
WellFormedExternal(circuit) ==
  LET ops == circuit.operations
      Measures == {i \in DOMAIN ops : ops[i].gate = "measure"}
  IN  /\ circuit.single \in BOOLEAN /\ circuit.qelib1 \in BOOLEAN
      /\ circuit.width \in Nat \ {0} /\ circuit.bits \in Nat \ {0}
      /\ ops \in Seq(ExternalOperations)
      /\ \A i \in Measures : Len(ops[i].qubits) = 1
      /\ Measures # {}
      /\ \A i \in DOMAIN ops :
           /\ ToSet(ops[i].qubits) \subseteq Qubits(circuit)
           /\ ops[i].when => i \notin Measures /\ ops[i].gate # "barrier"
           /\ ops[i].bit < circuit.bits
      /\ \A i, j \in Measures : ops[i].bit = ops[j].bit => i = j

VARIABLES
  nativeSource, externalSource,     \* what the preserved sources parse to
  seeded,       \* the native program names a seed
  execution     \* the native verifier's status, where the program was run

sources == <<nativeSource, externalSource, seeded>>
comparisonVars == <<sources, errors, execution, sent, opinion, outcome, graph, pc>>

\* What the worker is given of a circuit.
Projections == [width : Nat, gates : Seq(Executable \X Seq(Nat))]

ASSUME NativeExternalAssumption ==
  /\ \A program \in Natives : WellFormed(program)
  /\ \A circuit \in Externals : WellFormedExternal(circuit)
  /\ Unparsed \notin Natives \cup Externals
  /\ None \notin Statuses \cup (Projections \X Projections)

-----------------------------------------------------------------------------
(* Admission.                                                              *)

IsMeasure(op) == op.gate = "measure"

Measurements(ops) == Chosen(ops, {i \in DOMAIN ops : IsMeasure(ops[i])})

\* A mutant: every bit is taken to be the measured qubit's.
MeasuredInPlace(circuit) ==
  LET ms == Measurements(circuit.operations)
  IN  [i \in DOMAIN ms |-> <<ms[i].qubits[1], ms[i].qubits[1]>>]

\* Which qubit goes into which bit, in order.
Measured(circuit) ==
  LET ms == Measurements(circuit.operations)
  IN  [i \in DOMAIN ms |-> <<ms[i].qubits[1], ms[i].bit>>]

Identity(width) == [i \in 1 .. width |-> <<i - 1, i - 1>>]

Gates(circuit) ==
  LET ops == circuit.operations
      gs  == Chosen(ops, {i \in DOMAIN ops : ops[i].gate \in Executable /\ ~ops[i].when})
  IN  [i \in DOMAIN gs |-> <<gs[i].gate, gs[i].qubits>>]

\* A mutant: a gate after a measurement is just a gate.
GateErrorsAnywhere(ops, i) ==
  IF ops[i].when THEN Error(TRUE, "dynamic_control", "UNSUPPORTED")
  ELSE IF ops[i].gate = "barrier" THEN Error(TRUE, "barrier", "UNSUPPORTED")
  ELSE Error(ops[i].gate \notin Executable, "unsupported_gate", "UNSUPPORTED")

\* What is wrong with the i-th operation, a gate or a barrier.
GateErrors(ops, i) ==
  Error(\E k \in 1 .. i - 1 : IsMeasure(ops[k]), "nonterminal_measurement", "UNSUPPORTED")
  \cup (IF ops[i].when THEN Error(TRUE, "dynamic_control", "UNSUPPORTED")
        ELSE IF ops[i].gate = "barrier" THEN Error(TRUE, "barrier", "UNSUPPORTED")
        ELSE Error(ops[i].gate \notin Executable, "unsupported_gate", "UNSUPPORTED"))

AdmitExternal(circuit) ==
  IF ~circuit.single THEN Error(TRUE, "register_count", "UNSUPPORTED")
  ELSE Error(circuit.width > MaxQubits, "qubit_budget", "BLOCKED")
       \cup Error(circuit.bits # circuit.width, "external_register_widths", "UNSUPPORTED")
       \cup Error(~circuit.qelib1, "include_contract", "UNSUPPORTED")
       \cup (UNION {GateErrors(circuit.operations, i) :
                      i \in {k \in DOMAIN circuit.operations : ~IsMeasure(circuit.operations[k])}})
       \cup Error(Len(Gates(circuit)) > MaxGates, "gate_budget", "BLOCKED")
       \cup Error(Measured(circuit) # Identity(circuit.width),
                  "terminal_measurement_mapping", "UNSUPPORTED")

\* A circuit with more registers has neither width nor measurements to compare.
AdmitPair ==
  IF nativeSource = Unparsed \/ externalSource = Unparsed THEN {}
  ELSE Error(~externalSource.single \/ nativeSource.width # externalSource.width,
             "quantum_width_mismatch", "UNSUPPORTED")
       \cup Error(~externalSource.single \/ nativeSource.bits # externalSource.bits,
                  "classical_width_mismatch", "UNSUPPORTED")
       \cup Error(~externalSource.single \/ Identity(nativeSource.width) # Measured(externalSource),
                  "measurement_mapping_mismatch", "UNSUPPORTED")

AllErrors == errors.native \cup errors.external \cup errors.pair

\* _projection_qasm of the external circuit.
ExternalProjection(circuit) == [width |-> circuit.width, gates |-> Gates(circuit)]

\* projection_status of an evaluation representation.
ProjectionStatus(role) ==
  LET known == errors[role] \cup errors.pair
  IN  IF known = {} THEN "PASS" ELSE WorstOf(known)

-----------------------------------------------------------------------------
ComparisonInit ==
  /\ nativeSource \in Natives \cup {Unparsed} /\ externalSource \in Externals \cup {Unparsed}
  /\ seeded \in BOOLEAN
  /\ errors = None /\ execution = None /\ sent = None
  /\ Check!Init
  /\ graph = None
  /\ pc = "admit"

Advance(next) == pc' = next /\ UNCHANGED sources

\* Both sources are parsed and admitted, each for itself and as a pair.
AdmitSources ==
  /\ pc = "admit"
  /\ errors' = [native   |-> IF nativeSource = Unparsed
                             THEN Error(TRUE, "native_parse_error", "UNSUPPORTED")
                             ELSE AdmitNative(nativeSource),
                external |-> IF externalSource = Unparsed
                             THEN Error(TRUE, "external_parse_error", "UNSUPPORTED")
                             ELSE AdmitExternal(externalSource),
                pair     |-> AdmitPair]
  /\ Advance("execute")
  /\ UNCHANGED <<execution, sent, opinion, outcome, graph>>

\* An admitted program with a seed is run and verified, whatever comes of it; the
\* preflight of the run may refuse it, which ends the workflow.
ExecuteNative ==
  /\ pc = "execute" /\ AllErrors = {} /\ seeded
  /\ \/ execution' \in {"PASS", "FAIL"} /\ Advance("assess")
     \/ UNCHANGED execution /\ Advance("raised")
  /\ UNCHANGED <<errors, sent, opinion, outcome, graph>>

SkipExecution ==
  /\ pc = "execute" /\ (AllErrors # {} \/ ~seeded)
  /\ Advance("assess")
  /\ UNCHANGED <<errors, execution, sent, opinion, outcome, graph>>

\* Without a worker.
AssessAdmission ==
  /\ pc = "assess" /\ AllErrors # {}
  /\ outcome' = WorstOf(AllErrors)
  /\ Advance("build")
  /\ UNCHANGED <<errors, execution, sent, opinion, graph>>

\* The two unitary prefixes go to a worker of their own.
SendPrefixes ==
  /\ pc = "assess" /\ AllErrors = {}
  /\ sent' = <<Projection(nativeSource), ExternalProjection(externalSource)>>
  /\ Advance("evaluate")
  /\ UNCHANGED <<errors, execution, opinion, outcome, graph>>

\* The worker answers; it passes only circuits that do the same.
BackendAnswers ==
  /\ pc = "evaluate"
  /\ Check!FormOpinion
  /\ opinion' = "PASS" => SameUnitary(sent[1], sent[2])
  /\ UNCHANGED <<sources, errors, execution, sent, graph, pc>>

Compare ==
  /\ pc = "evaluate"
  /\ Check!Conclude
  /\ Advance("build")
  /\ UNCHANGED <<errors, execution, sent, graph>>

CompareRaises ==
  /\ pc = "evaluate"
  /\ Advance("raised")
  /\ UNCHANGED <<errors, execution, sent, opinion, outcome, graph>>

\* The claim, the relations and the graph.
BuildClaim ==
  /\ pc = "build"
  /\ graph' = [represents |-> [native |-> nativeSource # Unparsed, external |-> externalSource # Unparsed],
               projections |-> [role \in {"native", "external"} |-> ProjectionStatus(role)],
               execution |-> execution,
               status |-> outcome,
               supported |-> outcome = "PASS"]
  /\ Advance("built")
  /\ UNCHANGED <<errors, execution, sent, opinion, outcome>>

ComparisonOver == pc \in {"built", "raised"} /\ UNCHANGED comparisonVars

ComparisonNext ==
  \/ AdmitSources \/ ExecuteNative \/ SkipExecution \/ AssessAdmission \/ SendPrefixes
  \/ BackendAnswers \/ Compare \/ CompareRaises \/ BuildClaim \/ ComparisonOver

ComparisonSpec == ComparisonInit /\ [][ComparisonNext]_comparisonVars

-----------------------------------------------------------------------------
(* Properties.                                                             *)

\* The subset of external circuits that LIMITATIONS declares: one register of each
\* kind, as wide as each other, gates, then each qubit measured into its own bit.
ExternalInSubset(circuit) ==
  LET ops == circuit.operations
      n   == Len(ops) - circuit.width
  IN  /\ circuit.single /\ circuit.qelib1
      /\ circuit.bits = circuit.width /\ circuit.width <= MaxQubits
      /\ n \in 0 .. MaxGates
      /\ \A i \in 1 .. n : ops[i].gate \in Executable /\ ~ops[i].when
      /\ \A i \in 1 .. circuit.width :
           /\ ops[n + i].gate = "measure"
           /\ ops[n + i].qubits = <<i - 1>> /\ ops[n + i].bit = i - 1

\* Admission, rule by rule and then as a pair, amounts to the declared subset; the
\* projections that look evaluated in the graph are those that were.
AdmissionIsTheSubset ==
  errors # None =>
    /\ AllErrors = {} <=> /\ nativeSource # Unparsed /\ externalSource # Unparsed
                          /\ InCommonSubset(nativeSource) /\ ExternalInSubset(externalSource)
                          /\ nativeSource.width = externalSource.width
    /\ graph # None => ((\A role \in {"native", "external"} : graph.projections[role] = "PASS")
                          <=> sent # None)

\* A circuit with its measurements: what each bit finally holds included.
Spelled(op, width) ==
  IF op.gate = "FULL"
  THEN [i \in 1 .. width |->
          [gate |-> "measure", qubits |-> <<i - 1>>, when |-> FALSE, bit |-> i - 1]]
  ELSE IF op.gate = "measure" THEN <<op>>
  ELSE <<[gate |-> op.gate, qubits |-> op.qubits, when |-> op.when, bit |-> 0]>>

WithMeasurements(ops, width) ==
  LET All[n \in 0 .. Len(ops)] == IF n = 0 THEN <<>> ELSE All[n - 1] \o Spelled(ops[n], width)
  IN  All[Len(ops)]

BitsOf(ops) == [i \in DOMAIN ops |-> ops[i].bit]

\* A supported claim, though QCEC never saw a measurement and the native program's
\* own execution has no say in it, is about two circuits that are the same in full,
\* whose prefixes a worker passed.
ClaimHoldsInFull ==
  graph # None /\ graph.supported =>
    LET left  == WithMeasurements(nativeSource.operations, nativeSource.width)
        right == WithMeasurements(externalSource.operations, externalSource.width)
    IN  /\ opinion = "PASS"
        /\ nativeSource.width = externalSource.width
        /\ Meaning(nativeSource.width, left) = Meaning(externalSource.width, right)
        /\ BitsOf(Measurements(left)) = BitsOf(Measurements(right))
        /\ graph.represents.native /\ graph.represents.external
=============================================================================
