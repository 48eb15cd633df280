------------------------- MODULE MCCompilerWorkflow -------------------------
(***************************************************************************)
(* Three qubits and four gates are the budgets.  Programs on either side   *)
(* of each admission rule; one that routing takes over the gate budget;    *)
(* coupling graphs that route it and that do not, and submissions with an  *)
(* edge to itself, out of range and twice.                                 *)
(***************************************************************************)
EXTENDS CompilerWorkflow

Operation(gate, qubits) == [gate |-> gate, qubits |-> qubits, when |-> FALSE]
Full == Operation("FULL", <<>>)
Program(width, bits, backend, gates) ==
  [backend |-> backend, width |-> width, bits |-> bits, operations |-> gates]
Static(gates) == Program(3, 3, "statevector", Append(gates, Full))

CX(q, r) == Operation("CX", <<q, r>>)
H(q)     == Operation("H", <<q>>)

MCPrograms ==
  {Static(<<CX(0, 2)>>), Static(<<CX(0, 1)>>), Static(<<CX(0, 2), CX(2, 0)>>),
   Static(<<Operation("SWAP", <<0, 2>>)>>),
   Static(<<H(0), Operation("MEASURE", <<0>>)>>),
   Static(<<[H(0) EXCEPT !.when = TRUE]>>),
   Program(3, 4, "statevector", <<H(1), Full>>),
   Program(3, 3, "densitymatrix", <<Operation("NOISE", <<0>>), Full>>),
   Program(3, 3, "statevector", <<Operation("MEASURE", <<1>>), Operation("ASSERT", <<>>)>>),
   Program(4, 4, "stabilizer", <<H(0), H(1), H(2), H(3), H(0), Full>>)}

MCSubmissions ==
  {<<<<0, 1>>, <<1, 2>>>>, <<<<2, 0>>>>, <<<<0, 1>>>>,
   <<<<0, 1>>, <<1, 0>>>>, <<<<1, 1>>, <<0, 2>>>>, <<<<0, 3>>, <<1>>>>}

MCNativeSets == {Executable, {"H", "CX"}, {"SWAP", "U"}}
=============================================================================
