-------------------------- MODULE NativeComparison --------------------------
(***************************************************************************)
(* What the comparisons of a native program share: it is admitted for      *)
(* itself, and a worker is sent the unitary prefixes of two circuits.      *)
(***************************************************************************)
EXTENDS NativeProgram, Comparison

CONSTANT Unparsed   \* a source that does not parse

VARIABLES
  errors,     \* what the workflow found wrong so far
  sent        \* the two circuits the worker was given

\* What the gates of a projection do.
Unitary(circuit) ==
  Meaning(circuit.width, [i \in DOMAIN circuit.gates |->
    [gate |-> circuit.gates[i][1], qubits |-> circuit.gates[i][2], when |-> FALSE]])

SameUnitary(left, right) == left.width = right.width /\ Unitary(left) = Unitary(right)
=============================================================================
