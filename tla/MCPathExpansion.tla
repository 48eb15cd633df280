--------------------------- MODULE MCPathExpansion ---------------------------
(***************************************************************************)
(* Three paths, for the uses: the verified one has a statement of any kind *)
(* and then one of the kinds that may end it; the second has up to two     *)
(* statements, enough for a detour back, a second use and a measurement    *)
(* before either; the third at most one.  Every such program is parsed     *)
(* without limits and with limits small enough for each of them to be met  *)
(* and exceeded.                                                           *)
(*                                                                         *)
(* One path, for the execution: up to two statements of any kind and one   *)
(* that measures, on two qubits, with two shots.  The operations admitted  *)
(* are three: those of every such program, one less than those of the      *)
(* programs with three gates before the measurement.                       *)
(***************************************************************************)
EXTENDS LanguageRun, TLC

CONSTANTS main, sub, leaf

Call(p) == [op |-> "use", target |-> p]
UpTo(n, S) == UNION {[1 .. k -> S] : k \in 0 .. n}

One(g, q)   == [op |-> "gate", gate |-> g, qubits |-> <<q>>]
Two(g, p, q) == [op |-> "gate", gate |-> g, qubits |-> <<p, q>>]
If(g, q, b, v) == [op |-> "conditional", gate |-> g, qubits |-> <<q>>, bit |-> b, equals |-> v]
Measure(q, b) == [op |-> "measure", qubit |-> q, bit |-> b]
Full == [op |-> "full"]
Require(b, v) == [op |-> "assert", bit |-> b, equals |-> v]
Noise(c, chance, q) == [op |-> "noise", channel |-> c, chance |-> chance, qubit |-> q]

Plain == [gate |-> One("X", 0), conditional |-> If("X", 1, 0, 1), measure |-> Measure(0, 0),
          full |-> Full, assert |-> Require(0, 0), noise |-> Noise("bit_flip", "some", 0)]
Of(kinds) == {Plain[k] : k \in kinds}

MainBodies ==
  {<<s, t>> : s \in {Call(sub), Call(leaf), Call(Unknown), Invalid} \cup Of(OperationKinds),
              t \in {Call(sub), Call(leaf)} \cup Of({"gate", "measure", "full"})}
SubBodies  == UpTo(2, {Call(main), Call(leaf)} \cup Of({"gate", "full"}))
LeafBodies == UpTo(1, {Call(sub)} \cup Of({"gate", "noise"}))

Nested ==
  {main :> m @@ sub :> s @@ leaf :> l : m \in MainBodies, s \in SubBodies, l \in LeafBodies}

Steps ==
  {One("H", 0), One("X", 0), One("T", 1), Two("CX", 0, 1),
   If("X", 1, 0, 1), If("H", 0, 1, 0), Measure(0, 1), Measure(1, 0), Full,
   Require(0, 0), Noise("phase_flip", "some", 0), Noise("bit_flip", "always", 1)}

Straight ==
  {main :> Append(body, end) @@ sub :> <<>> @@ leaf :> <<>> :
     body \in UpTo(2, Steps), end \in {Measure(0, 0), Full}}

Long ==
  {main :> Append(body, Full) @@ sub :> <<>> @@ leaf :> <<>> :
     body \in [1 .. 3 -> {One("H", 0), One("X", 0)}]}

MCPrograms == Nested \cup Straight \cup Long

NoLimits == [operations |-> Unbounded, invocations |-> Unbounded,
             visits |-> Unbounded, depth |-> Unbounded]

MCLimits ==
  {NoLimits, [operations |-> 3, invocations |-> 2, visits |-> 5, depth |-> 2]}

Demand(n, a, p) == [normalized |-> n, allowed |-> a, paulis |-> p]
Diagonal == {l \in Labels : l[0] = l[1]}
ZZ(n) == [pauli |-> [q \in Qubits |-> "Z"], expected |-> n]
ZI(n) == [pauli |-> [q \in Qubits |-> IF q = 0 THEN "Z" ELSE "I"], expected |-> n]
XI(n) == [pauli |-> [q \in Qubits |-> IF q = 0 THEN "X" ELSE "I"], expected |-> n]

MCDemands ==
  {Demand(FALSE, AnyOutcome, {}), Demand(TRUE, Diagonal, {}),
   Demand(FALSE, AnyOutcome, {ZZ(1)}), Demand(TRUE, AnyOutcome, {ZZ(-1), XI(0)}),
   Demand(TRUE, AnyOutcome, {ZI(1), InvalidRequest}),
   Demand(FALSE, AnyOutcome, {ZZ(1), ZI(1), XI(0)})}
=============================================================================
