------------------------ MODULE MCNativeQcecWorkflow ------------------------
(***************************************************************************)
(* Two qubits, at most two gates (three are over the budget, as are three  *)
(* qubits).  Every prefix of up to two operations from a set that has each *)
(* gate kind, with every ending of a set of measurements; native programs  *)
(* on either side of each admission rule.                                  *)
(***************************************************************************)
EXTENDS NativeQcecWorkflow

Operation(gate, qubits) == [gate |-> gate, qubits |-> qubits, when |-> FALSE]
Full == Operation("FULL", <<>>)
CX(q, r) == Operation("CX", <<q, r>>)
H(q) == Operation("H", <<q>>)

Program(width, bits, backend, ops) ==
  [backend |-> backend, width |-> width, bits |-> bits, operations |-> ops]

MCNatives ==
  {Program(2, 2, "statevector", Append(gates, Full)) :
     gates \in {<<>>, <<CX(0, 1)>>, <<H(0), CX(0, 1)>>, <<Operation("SWAP", <<0, 1>>), H(0)>>,
                <<H(0), H(1), H(0)>>, <<[H(1) EXCEPT !.when = TRUE]>>,
                <<Operation("MEASURE", <<0>>)>>}}
  \cup {Program(2, 3, "statevector", <<H(0), Full>>), Program(3, 3, "statevector", <<H(0), Full>>),
        Program(2, 2, "densitymatrix", <<Operation("NOISE", <<0>>), Full>>),
        Program(2, 2, "statevector", <<Operation("MEASURE", <<0>>), Operation("ASSERT", <<>>)>>)}

Gate(gate, qubits) == [gate |-> gate, qubits |-> qubits, when |-> FALSE, bit |-> 0]
Measure(q, b) == [gate |-> "measure", qubits |-> <<q>>, when |-> FALSE, bit |-> b]

Gates1 == {Gate("CX", <<0, 1>>), Gate("H", <<0>>), Gate("SWAP", <<1, 0>>), Gate("rz", <<1>>),
           Gate("barrier", <<0, 1>>), [Gate("H", <<1>>) EXCEPT !.when = TRUE]}
GateLists == UNION {[1 .. n -> Gates1] : n \in 0 .. 2}

\* In order, out of order, crossed, one missing, one qubit twice, and with a gate
\* between the measurements and after them.
Endings == {<<Measure(0, 0), Measure(1, 1)>>, <<Measure(1, 1), Measure(0, 0)>>,
            <<Measure(0, 1), Measure(1, 0)>>, <<Measure(0, 0)>>,
            <<Measure(0, 0), Measure(0, 1)>>,
            <<Measure(0, 0), Gate("H", <<1>>), Measure(1, 1)>>,
            <<Measure(0, 0), Measure(1, 1), Gate("CX", <<0, 1>>)>>}

Circuit(width, bits, ops, single, qelib1) ==
  [width |-> width, bits |-> bits, operations |-> ops, single |-> single, qelib1 |-> qelib1]

MCExternals ==
  LET two == <<Measure(0, 0), Measure(1, 1)>>
      three == <<Measure(0, 0), Measure(1, 1), Measure(2, 2)>>
  IN  {Circuit(2, 2, prefix \o ending, TRUE, TRUE) : prefix \in GateLists, ending \in Endings}
      \cup {Circuit(2, 2, two, FALSE, TRUE), Circuit(2, 2, two, TRUE, FALSE),
            Circuit(2, 3, two, TRUE, TRUE), Circuit(3, 3, three, TRUE, TRUE),
            Circuit(2, 2, <<Gate("H", <<0>>), Gate("H", <<1>>), Gate("H", <<0>>)>> \o two, TRUE, TRUE)}
=============================================================================
