---------------------------- MODULE NativeProgram ----------------------------
(***************************************************************************)
(* Native E7Q programs as the compiler and the comparison workflows see    *)
(* them: the operations parse returns, what a list of them does to the     *)
(* qubits, and the static noiseless subset whose unitary prefix QCEC is    *)
(* given.  "H" stands for the one-qubit gates, "CX" for the two-qubit      *)
(* gates other than SWAP, "FULL" for the measurement of the whole          *)
(* register; `when' says whether an operation has a classical condition.   *)
(***************************************************************************)
EXTENDS Integers, FiniteSets, SequencesExt

CONSTANTS
  MaxQubits,    \* MAX_QUBITS of the comparison workflows
  MaxGates      \* MAX_GATES

ASSUME BudgetAssumption == MaxQubits \in Nat /\ MaxGates \in Nat

TwoQubit   == {"CX", "SWAP"}
Executable == {"H"} \cup TwoQubit
Kinds      == Executable \cup {"NOISE", "ASSERT", "MEASURE", "FULL"}
Operations == [gate : Kinds, qubits : Seq(Nat), when : BOOLEAN]
Backends   == {"statevector", "densitymatrix", "stabilizer"}
ProgramRecords == [backend : Backends, width : Nat \ {0}, bits : Nat \ {0}, operations : Seq(Operations)]

Qubits(program) == 0 .. program.width - 1

\* What parse accepts, as far as the workflows can tell.
WellFormed(program) ==
  LET ops == program.operations
  IN  /\ program \in ProgramRecords
      /\ \E i \in DOMAIN ops : ops[i].gate \in {"MEASURE", "FULL"}
      /\ \A i \in DOMAIN ops :
           /\ ToSet(ops[i].qubits) \subseteq Qubits(program) /\ IsInjective(ops[i].qubits)
           /\ Len(ops[i].qubits) = CASE ops[i].gate \in TwoQubit -> 2
                                     [] ops[i].gate \in {"FULL", "ASSERT"} -> 0
                                     [] OTHER -> 1
           /\ ops[i].when => ops[i].gate \in {"H", "ASSERT"}
           /\ ops[i].gate = "FULL" => i = Len(ops) /\ program.bits >= program.width
           /\ ops[i].gate = "NOISE" => program.backend = "densitymatrix"

-----------------------------------------------------------------------------
(* What a list of operations does, with its SWAPs taken out: the other     *)
(* operations in order, each on the logical qubits then at its operands,   *)
(* and where the logical qubits are in the end.                            *)

Exchange(at, op) ==
  [at EXCEPT ![op.qubits[1]] = at[op.qubits[2]], ![op.qubits[2]] = at[op.qubits[1]]]

\* The logical qubits an operation is on.
Operands(width, at, op) ==
  IF op.gate = "FULL" THEN [i \in 1 .. width |-> at[i - 1]]
  ELSE [i \in DOMAIN op.qubits |-> at[op.qubits[i]]]

\* One operation more.
Doing(width, met, op) ==
  IF op.gate = "SWAP" THEN [done |-> met.done, at |-> Exchange(met.at, op)]
  ELSE [done |-> Append(met.done, <<op.gate, op.when, Operands(width, met.at, op)>>), at |-> met.at]

\* All of them, in order.
After(width, met, ops) ==
  LET Met[n \in 0 .. Len(ops)] == IF n = 0 THEN met ELSE Doing(width, Met[n - 1], ops[n])
  IN  Met[Len(ops)]

Untouched(width) == [done |-> <<>>, at |-> [q \in 0 .. width - 1 |-> q]]

Meaning(width, ops) == After(width, Untouched(width), ops)

-----------------------------------------------------------------------------
\* The elements of a sequence at some of its positions, in order.
Chosen(s, positions) ==
  LET Kept[n \in 0 .. Len(s)] ==
        IF n = 0 THEN <<>>
        ELSE IF n \in positions THEN Append(Kept[n - 1], s[n]) ELSE Kept[n - 1]
  IN  Kept[Len(s)]

-----------------------------------------------------------------------------
(* _admit_native and the projection of what it admits.                     *)

Error(cond, code, status) == {e \in {[code |-> code, status |-> status]} : cond}

Prefix(program) == IF program.operations = <<>> THEN <<>> ELSE Front(program.operations)

OperationErrors(op) ==
  IF op.gate = "NOISE" THEN Error(TRUE, "noise", "UNSUPPORTED")
  ELSE IF op.gate = "ASSERT" THEN Error(TRUE, "assertion", "UNSUPPORTED")
  ELSE IF op.gate \in {"MEASURE", "FULL"} THEN Error(TRUE, "dynamic_measurement", "UNSUPPORTED")
  ELSE Error(op.when, "dynamic_control", "UNSUPPORTED")

AdmitNative(program) ==
  LET prefix == Prefix(program)
  IN  Error(program.backend # "statevector", "noise_or_nonunitary_backend", "UNSUPPORTED")
      \cup Error(program.width > MaxQubits, "qubit_budget", "BLOCKED")
      \cup Error(program.bits # program.width, "native_register_widths", "UNSUPPORTED")
      \cup Error(program.operations = <<>> \/ Last(program.operations).gate # "FULL",
                 "terminal_measurement", "UNSUPPORTED")
      \cup Error(Len(prefix) > MaxGates, "gate_budget", "BLOCKED")
      \cup UNION {OperationErrors(op) : op \in ToSet(prefix)}

\* _projection_qasm of an admitted program.
Projection(program) ==
  [width |-> program.width,
   gates |-> [i \in DOMAIN Prefix(program) |->
                <<Prefix(program)[i].gate, Prefix(program)[i].qubits>>]]

WorstOf(errors) ==
  IF \E e \in errors : e.status = "BLOCKED" THEN "BLOCKED" ELSE "UNSUPPORTED"

-----------------------------------------------------------------------------
\* The common subset as the workflows' LIMITATIONS declare it: static, noiseless,
\* registers of one width, and one terminal measurement of the whole register.
InCommonSubset(program) ==
  /\ program.backend = "statevector"
  /\ program.bits = program.width /\ program.width <= MaxQubits
  /\ Len(program.operations) \in 1 .. MaxGates + 1
  /\ \A i \in DOMAIN program.operations :
       IF i = Len(program.operations) THEN program.operations[i].gate = "FULL"
       ELSE program.operations[i].gate \in Executable /\ ~program.operations[i].when
=============================================================================
