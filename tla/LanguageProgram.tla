--------------------------- MODULE LanguageProgram ---------------------------
(***************************************************************************)
(* The operations of an E7Q path (e7q.language.Operation), by the kinds of *)
(* statement the parser and the simulators tell apart.                     *)
(***************************************************************************)
EXTENDS Integers, FiniteSets, SequencesExt

CONSTANTS
  Width,        \* qubits of the quantum register
  BitWidth      \* bits of the classical register

VARIABLES
  operations,   \* the operations of the program
  backend       \* the context's backend

ASSUME WidthAssumption == Width \in Nat \ {0} /\ BitWidth \in Nat \ {0}

Qubits == 0 .. Width - 1
Bits   == 0 .. BitWidth - 1

OneQubit == {"X", "Y", "Z", "H", "S", "T"}
TwoQubit == {"CX", "CZ", "SWAP"}
Channels == {"bit_flip", "phase_flip", "depolarizing"}

\* A probability, as far as a channel's outcomes depend on it: 0, between, 1.
Chances == {"never", "some", "always"}

OperationKinds == {"gate", "conditional", "measure", "full", "assert", "noise"}

Operations ==
  [op : {"gate"}, gate : OneQubit, qubits : [1 .. 1 -> Qubits]]
    \cup [op : {"gate"}, gate : TwoQubit, qubits : {p \in [1 .. 2 -> Qubits] : p[1] # p[2]}]
    \cup [op : {"conditional"}, gate : OneQubit, qubits : [1 .. 1 -> Qubits],
          bit : Bits, equals : {0, 1}]
    \cup [op : {"measure"}, qubit : Qubits, bit : Bits]
    \cup (IF Width <= BitWidth THEN [op : {"full"}] ELSE {})
    \cup [op : {"assert"}, bit : Bits, equals : {0, 1}]
    \cup [op : {"noise"}, channel : Channels, chance : Chances, qubit : Qubits]

Backends == {"statevector", "densitymatrix", "stabilizer"}

Kinds(body) == {o.op : o \in ToSet(body)}
=============================================================================
