--------------------------- MODULE TopologyRouting ---------------------------
(***************************************************************************)
(* The reference compiler e7q.language.compile_topology, step by step: the *)
(* operations of the program are copied or refused in order, and a         *)
(* two-qubit gate is routed along a path that a breadth-first search of    *)
(* the coupling graph finds.  The search is the loop of _shortest_path,    *)
(* one visited path at a time.                                             *)
(***************************************************************************)
EXTENDS TopologyCompiler

CONSTANTS
  Topologies    \* the coupling graphs

ASSUME RoutingAssumption ==
  /\ \A program \in Programs : WellFormed(program)
  /\ \A edges \in Topologies : \A e \in edges : Cardinality(e) = 2

VARIABLES
  program, edges, basis,   \* the request
  step,         \* the source operation being compiled
  queue,        \* the paths the search has still to visit
  visited,      \* the qubits it has reached
  routed,       \* the operations emitted
  trace,        \* the route records of the proof
  verdict       \* scanning, searching, compiled, or why it was refused

job == <<program, edges, basis>>
routingVars == <<job, step, queue, visited, routed, trace, verdict>>

Refusals == {"unknown_gate", "unsupported_gate", "disconnected", "missing_swap"}

Op == program.operations[step]
Goal == Op.qubits[2]
Path == Head(queue)

-----------------------------------------------------------------------------
RoutingInit ==
  /\ program \in Programs /\ edges \in {g \in Topologies : UNION g \subseteq Qubits(program)}
  /\ basis \in NativeSets
  /\ step = 1
  /\ queue = <<>> /\ visited = {}
  /\ routed = <<>> /\ trace = <<>>
  /\ verdict = IF basis \subseteq Executable THEN "scanning" ELSE "unknown_gate"

Refuse(reason) ==
  /\ verdict' = reason
  /\ UNCHANGED <<job, step, queue, visited, routed, trace>>

Scanning == verdict = "scanning" /\ step <= Len(program.operations)

\* An operation that is not routed.
CopyOperation ==
  /\ Scanning /\ Op.gate \notin TwoQubit
  /\ Op.gate \in Executable => Op.gate \in basis
  /\ routed' = Append(routed, Op)
  /\ step' = step + 1
  /\ UNCHANGED <<job, queue, visited, trace, verdict>>

RefuseGate ==
  /\ Scanning /\ Op.gate \in Executable \ basis
  /\ Refuse("unsupported_gate")

\* A two-qubit gate, adjacent or not, is searched a path for.
StartSearch ==
  /\ Scanning /\ Op.gate \in TwoQubit \cap basis
  /\ queue' = <<<<Op.qubits[1]>>>>
  /\ visited' = {Op.qubits[1]}
  /\ verdict' = "searching"
  /\ UNCHANGED <<job, step, routed, trace>>

\* sorted: the i-th number is the one that i - 1 are smaller than.
Sorted(S) == [i \in 1 .. Cardinality(S) |-> CHOOSE x \in S : Cardinality({y \in S : y < x}) = i - 1]

Fresh == Sorted(Neighbours(edges, Last(Path)) \ visited)

\* A mutant: depth first.
ExtendDepthFirst ==
  /\ verdict = "searching" /\ queue # <<>> /\ Last(Path) # Goal
  /\ visited' = visited \cup ToSet(Fresh)
  /\ queue' = [i \in DOMAIN Fresh |-> Append(Path, Fresh[i])] \o Tail(queue)
  /\ UNCHANGED <<job, step, routed, trace, verdict>>

\* The next path does not end at the goal: it is extended to every new neighbour.
ExtendPath ==
  /\ verdict = "searching" /\ queue # <<>> /\ Last(Path) # Goal
  /\ visited' = visited \cup ToSet(Fresh)
  /\ queue' = Tail(queue) \o [i \in DOMAIN Fresh |-> Append(Path, Fresh[i])]
  /\ UNCHANGED <<job, step, routed, trace, verdict>>

Disconnected ==
  /\ verdict = "searching" /\ queue = <<>>
  /\ Refuse("disconnected")

MissingSwap ==
  /\ verdict = "searching" /\ queue # <<>> /\ Last(Path) = Goal
  /\ Len(Path) > 2 /\ "SWAP" \notin basis
  /\ Refuse("missing_swap")

\* The next path does: the gate is routed along it.
RouteGate ==
  /\ verdict = "searching" /\ queue # <<>> /\ Last(Path) = Goal
  /\ Len(Path) > 2 => "SWAP" \in basis
  /\ routed' = routed \o Routed(Op, Path)
  /\ trace' = Append(trace, RouteRecord(step, Op, Path))
  /\ step' = step + 1
  /\ queue' = <<>> /\ visited' = {}
  /\ verdict' = "scanning"
  /\ UNCHANGED job

Finish ==
  /\ verdict = "scanning" /\ step > Len(program.operations)
  /\ verdict' = "compiled"
  /\ UNCHANGED <<job, step, queue, visited, routed, trace>>

Halted == verdict \in Refusals \cup {"compiled"} /\ UNCHANGED routingVars

RoutingNext ==
  \/ CopyOperation \/ RefuseGate \/ StartSearch \/ ExtendPath
  \/ Disconnected \/ MissingSwap \/ RouteGate \/ Finish \/ Halted

RoutingSpec == RoutingInit /\ [][RoutingNext]_routingVars

-----------------------------------------------------------------------------
(* Properties.                                                             *)

\* Whenever the compiler is between two operations, what it has emitted does what
\* the source has done so far, to the same qubits and with the layout restored,
\* and all of it is native and on coupled qubits.
RoutedDoesWhatTheSourceDoes ==
  /\ \A i \in DOMAIN routed : OnDevice(routed[i], edges, basis)
  /\ verdict \in {"scanning", "searching", "compiled"} =>
       Meaning(program.width, routed)
         = Meaning(program.width, SubSeq(program.operations, 1, step - 1))

\* The search is as good as one that knows the distances: the compiler refuses
\* exactly the programs that cannot be routed, for the first reason there is, and
\* otherwise takes shortest routes, the same ones every time.
CompilesByDistance ==
  LET result == Compile(program, edges, basis)
  IN  /\ verdict \in Refusals \cup {"compiled"} => verdict = result.verdict
      /\ verdict = "compiled" => routed = result.operations /\ trace = result.trace
=============================================================================
