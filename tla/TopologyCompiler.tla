--------------------------- MODULE TopologyCompiler ---------------------------
(***************************************************************************)
(* What e7q.language.compile_topology returns, as a function of the        *)
(* program, the coupling graph (a set of two-element sets of qubits) and   *)
(* the native gates.  Routes are defined by distances here; that the       *)
(* breadth-first search of the code finds the same ones is a property of   *)
(* TopologyRouting.                                                        *)
(***************************************************************************)
EXTENDS NativeProgram

CONSTANTS
  Programs,     \* the programs a source may parse to
  NativeSets    \* the sets of native gates

Neighbours(edges, q) == {r \in UNION edges : r # q /\ {q, r} \in edges}

\* The qubits at most n couplings away from q.
Ball(edges, q, n) ==
  LET B[k \in 0 .. n] ==
        IF k = 0 THEN {q} ELSE B[k - 1] \cup UNION {Neighbours(edges, r) : r \in B[k - 1]}
  IN  B[n]

Joined(program, edges, q, r) == r \in Ball(edges, q, program.width)

Distance(program, edges, q, r) ==
  CHOOSE n \in 0 .. program.width :
    r \in Ball(edges, q, n) /\ (n = 0 \/ r \notin Ball(edges, q, n - 1))

Least(S) == CHOOSE x \in S : \A y \in S : x <= y

\* Of the shortest paths, the one that prefers lower qubits early on.
Route(program, edges, start, goal) ==
  LET hops == Distance(program, edges, start, goal)
      Step(q, left) == Least({r \in Neighbours(edges, q) :
                                Joined(program, edges, r, goal)
                                  /\ Distance(program, edges, r, goal) = left})
      path[i \in 1 .. hops + 1] == IF i = 1 THEN start ELSE Step(path[i - 1], hops + 1 - i)
  IN  path

SwapsAlong(path) ==
  [i \in 1 .. Len(path) - 2 |->
     [gate |-> "SWAP", qubits |-> <<path[i], path[i + 1]>>, when |-> FALSE]]

\* A mutant: the swaps are undone in the order they were made.
RoutedUnreversed(op, path) ==
  SwapsAlong(path) \o <<[op EXCEPT !.qubits = <<path[Len(path) - 1], path[Len(path)]>>]>>
    \o SwapsAlong(path)

\* One gate, its first operand swapped next to the second and back.
Routed(op, path) ==
  (SwapsAlong(path) \o <<[op EXCEPT !.qubits = <<path[Len(path) - 1], path[Len(path)]>>]>>)
    \o Reverse(SwapsAlong(path))

\* What the proof says of a routed gate.
RouteRecord(step, op, path) ==
  [step |-> step, gate |-> op.gate, qubits |-> op.qubits, path |-> path,
   swaps |-> 2 * Len(SwapsAlong(path))]

\* Compilation of the operation after those that made `met'.
CompileStep(program, edges, native, met, step) ==
  LET op   == program.operations[step]
      path == Route(program, edges, op.qubits[1], op.qubits[2])
      Refuse(reason) == [met EXCEPT !.verdict = reason]
  IN  IF met.verdict # "compiled" THEN met
      ELSE IF op.gate \notin Executable THEN [met EXCEPT !.operations = Append(@, op)]
      ELSE IF op.gate \notin native THEN Refuse("unsupported_gate")
      ELSE IF op.gate \notin TwoQubit THEN [met EXCEPT !.operations = Append(@, op)]
      ELSE IF ~Joined(program, edges, op.qubits[1], op.qubits[2]) THEN Refuse("disconnected")
      ELSE IF Len(path) > 2 /\ "SWAP" \notin native THEN Refuse("missing_swap")
      ELSE [met EXCEPT !.operations = @ \o Routed(op, path),
                       !.trace = Append(@, RouteRecord(step, op, path))]

Nothing == [verdict |-> "compiled", operations |-> <<>>, trace |-> <<>>]

\* The first n operations.
CompiledTo(program, edges, native, n) ==
  LET Met[k \in 0 .. n] ==
        IF k = 0 THEN Nothing ELSE CompileStep(program, edges, native, Met[k - 1], k)
  IN  Met[n]

Compile(program, edges, native) ==
  IF ~(native \subseteq Executable) THEN [Nothing EXCEPT !.verdict = "unknown_gate"]
  ELSE CompiledTo(program, edges, native, Len(program.operations))

\* What a gate needs of the device.
OnDevice(op, edges, native) ==
  /\ op.gate \in Executable => op.gate \in native
  /\ op.gate \in TwoQubit => {op.qubits[1], op.qubits[2]} \in edges
=============================================================================
