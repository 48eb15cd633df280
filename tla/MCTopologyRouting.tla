-------------------------- MODULE MCTopologyRouting --------------------------
(***************************************************************************)
(* Every coupling graph of five qubits, connected or not.  Programs of     *)
(* four qubits, which use the graphs of four, have three operations: any   *)
(* first one, a routed or a copied second one, the full measurement; those *)
(* of five qubits have a route that a search in the wrong order gets too   *)
(* long.  Native sets without a gate, without SWAP and with a gate nobody  *)
(* knows.                                                                  *)
(***************************************************************************)
EXTENDS TopologyRouting

Operation(gate, qubits) == [gate |-> gate, qubits |-> qubits, when |-> FALSE]

Pairs == {<<q, r>> \in (0 .. 3) \X (0 .. 3) : q # r}

First  == {Operation("CX", p) : p \in Pairs}
            \cup {Operation("SWAP", p) : p \in {<<0, 3>>, <<1, 0>>}}
            \cup {Operation("H", <<0>>), Operation("MEASURE", <<3>>),
                  [Operation("H", <<2>>) EXCEPT !.when = TRUE]}
Second == {Operation("CX", <<0, 2>>), Operation("SWAP", <<3, 1>>), Operation("H", <<1>>)}

Program(width, ops) ==
  [backend |-> "statevector", width |-> width, bits |-> width,
   operations |-> Append(ops, Operation("FULL", <<>>))]

MCPrograms ==
  {Program(4, <<first, second>>) : first \in First, second \in Second}
  \cup {Program(5, <<Operation("CX", <<0, 4>>)>>),
        Program(5, <<Operation("CX", <<3, 1>>), Operation("SWAP", <<0, 2>>)>>)}

MCTopologies == SUBSET {{q, r} : <<q, r>> \in {p \in (0 .. 4) \X (0 .. 4) : p[1] < p[2]}}

MCNativeSets == {Executable, {"H", "CX"}, {"H", "SWAP"}, {"H", "CX", "U"}}
=============================================================================
