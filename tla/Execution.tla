------------------------------ MODULE Execution ------------------------------
(***************************************************************************)
(* The reference execution of a parsed program and its verification:       *)
(* e7q.language.run and verify, the stabilizer backend and the structural  *)
(* part of preflight.  A program with measurements in the middle, and any  *)
(* program of the stabilizer backend, is run shot by shot; one that is     *)
(* unconditional up to its measurements starts every shot from a state     *)
(* prepared once.                                                          *)
(*                                                                         *)
(* Amplitudes are exact: <<a, b, c, d>> is a + b w + c w^2 + d w^3 for the *)
(* eighth root of unity w, and a state is known up to a positive factor.   *)
(* What is left of a probability is whether it is zero.                    *)
(***************************************************************************)
EXTENDS LanguageProgram

CONSTANTS
  Shots,           \* the context's shots
  MaxRegister,     \* preflight's ceiling on qubits and on bits: 4096
  MaxShots,        \* ... on shots: 1,000,000
  MaxOperations,   \* ... on operations: 100,000
  MaxPauliChecks,  \* the requests verify_stabilizer takes in a call: 64
  Demands,         \* what a program or a caller may want verified
  AnyOutcome,      \* no invariant on the outcomes
  InvalidRequest   \* a request that is no Pauli observable with an expected value

\* Powers of two, as a function that can be reasoned about.
Power[n \in 0 .. Width] == IF n = 0 THEN 1 ELSE 2 * Power[n - 1]

Basis  == 0 .. Power[Width] - 1
Labels == [Bits -> {0, 1}]
Paulis == [pauli : [Qubits -> {"I", "X", "Y", "Z"}], expected : {-1, 0, 1}]

ASSUME ExecutionAssumption ==
  /\ Shots \in Nat \ {0} /\ Demands # {}
  /\ {MaxRegister, MaxShots, MaxOperations, MaxPauliChecks} \subseteq Nat \ {0}
  /\ InvalidRequest \notin Paulis
  /\ Demands \subseteq [normalized : BOOLEAN, allowed : SUBSET Labels \cup {AnyOutcome},
                        paulis : SUBSET (Paulis \cup {InvalidRequest})]

VARIABLES
  phase,        \* see TypeOK
  prepared,     \* the state every shot starts from, if one was prepared: one or none
  state,        \* the state of this shot
  classical,    \* its bits
  at,           \* its next operation
  shot,         \* shots completed
  stats,        \* per operation, how often it was executed, skipped, failed
  counts,       \* how often each label came out
  observed,     \* the labels reported with a probability
  drawn,        \* history: the outcomes of this shot's measurements
  past,         \* history: those of the shots before
  demand,       \* what was asked of verify
  answer        \* what it answered

source == <<operations, backend>>
quantum == <<prepared, state, classical, at>>
records == <<shot, stats, counts, observed>>
history == <<drawn, past>>
executionVars == <<source, phase, quantum, records, history, demand, answer>>

-----------------------------------------------------------------------------
(* The simulator's arithmetic.                                             *)

Nought == <<0, 0, 0, 0>>
Plus(a, b)  == [i \in 1 .. 4 |-> a[i] + b[i]]
Minus(a, b) == [i \in 1 .. 4 |-> a[i] - b[i]]

\* a times the n-th power of w.
Turned(a, n) ==
  LET t[k \in 0 .. n] == IF k = 0 THEN a ELSE <<-t[k-1][4], t[k-1][1], t[k-1][2], t[k-1][3]>>
  IN  t[n]

\* Qubit 0 is the leftmost bit of an index.
Stride(q)  == Power[Width - 1 - q]
Bit(i, q)  == (i \div Stride(q)) % 2
Flip(i, q) == IF Bit(i, q) = 0 THEN i + Stride(q) ELSE i - Stride(q)
Exchange(i, p, q) == IF Bit(i, p) = Bit(i, q) THEN i ELSE Flip(Flip(i, p), q)

Ground == [i \in Basis |-> IF i = 0 THEN <<1, 0, 0, 0>> ELSE Nought]

ApplyOne(v, gate, q) ==
  [i \in Basis |->
     LET one == Bit(i, q) = 1
     IN  CASE gate = "X" -> v[Flip(i, q)]
           [] gate = "Y" -> Turned(v[Flip(i, q)], IF one THEN 2 ELSE 6)
           [] gate = "Z" -> Turned(v[i], IF one THEN 4 ELSE 0)
           [] gate = "S" -> Turned(v[i], IF one THEN 2 ELSE 0)
           [] gate = "T" -> Turned(v[i], IF one THEN 1 ELSE 0)
           [] gate = "H" -> IF one THEN Minus(v[Flip(i, q)], v[i]) ELSE Plus(v[i], v[Flip(i, q)])]

ApplyTwo(v, gate, p, q) ==
  [i \in Basis |->
     CASE gate = "CX"   -> v[IF Bit(i, p) = 1 THEN Flip(i, q) ELSE i]
       [] gate = "CZ"   -> Turned(v[i], 4 * Bit(i, p) * Bit(i, q))
       [] gate = "SWAP" -> v[Exchange(i, p, q)]]

Apply(v, o) ==
  IF o.gate \in OneQubit THEN ApplyOne(v, o.gate, o.qubits[1])
  ELSE ApplyTwo(v, o.gate, o.qubits[1], o.qubits[2])

\* The outcomes of a qubit's measurement that do not have probability zero.
Possible(v, q) == {b \in {0, 1} : \E i \in Basis : Bit(i, q) = b /\ v[i] # Nought}

Collapse(v, q, b) == [i \in Basis |-> IF Bit(i, q) = b THEN v[i] ELSE Nought]

\* The states a channel may leave behind: the Kraus operators with a weight.
Channel(v, o) ==
  LET flips == CASE o.channel = "bit_flip"     -> {"X"}
                 [] o.channel = "phase_flip"   -> {"Z"}
                 [] o.channel = "depolarizing" -> {"X", "Y", "Z"}
  IN  (IF o.chance = "always" THEN {} ELSE {v})
        \cup (IF o.chance = "never" THEN {} ELSE {ApplyOne(v, g, o.qubit) : g \in flips})

\* A density matrix, as the pure states it is a mixture of.
MixedBy(listing) ==
  FoldLeft(LAMBDA mixed, o :
             CASE o.op = "gate"  -> {Apply(v, o) : v \in mixed}
               [] o.op = "noise" -> UNION {Channel(v, o) : v \in mixed}
               [] OTHER          -> mixed,
           {Ground}, listing)

Mixture == MixedBy(operations)

\* What a basis state reads as; the bits beyond the qubits stay zero.
Label(i) == [b \in Bits |-> IF b \in Qubits THEN Bit(i, b) ELSE 0]

Support(mixed) == {Label(i) : i \in {j \in Basis : \E v \in mixed : v[j] # Nought}}

-----------------------------------------------------------------------------
(* Preflight, and which way a program is run.                              *)

\* A mutant: the operations are not counted.
ValidProgramAnyLength ==
  /\ Width <= MaxRegister /\ BitWidth <= MaxRegister /\ Shots <= MaxShots
  /\ \A i \in 1 .. Len(operations) - 1 : operations[i].op # "full"
  /\ "full" \in Kinds(operations) => BitWidth >= Width
  /\ backend = "densitymatrix" =>
       Kinds(operations) \cap {"conditional", "assert", "measure"} = {}
  /\ backend = "statevector" => "noise" \notin Kinds(operations)

\* resources.validate_program: the ceilings, then the operations, of which it can
\* refuse what their types leave open.
ValidProgram ==
  /\ Width <= MaxRegister /\ BitWidth <= MaxRegister /\ Shots <= MaxShots
  /\ Len(operations) <= MaxOperations
  /\ \A i \in 1 .. Len(operations) - 1 : operations[i].op # "full"
  /\ "full" \in Kinds(operations) => BitWidth >= Width
  /\ backend = "densitymatrix" =>
       Kinds(operations) \cap {"conditional", "assert", "measure"} = {}
  /\ backend = "statevector" => "noise" \notin Kinds(operations)

Measured == Kinds(operations) \cap {"measure", "full"} # {}

Dynamic == Kinds(operations) \cap {"conditional", "assert", "measure"} # {}

ShotByShot == backend = "stabilizer" \/ (backend = "statevector" /\ Dynamic)

\* The stabilizer backend's own admission.
Clifford ==
  \A o \in ToSet(operations) :
    /\ o.op # "noise"
    /\ o.op \in {"gate", "conditional"} => o.gate # "T"

IsMeasurement(o) == o.op \in {"measure", "full"}

FirstMeasurement ==
  CHOOSE i \in DOMAIN operations :
    IsMeasurement(operations[i]) /\ \A j \in 1 .. i - 1 : ~IsMeasurement(operations[j])

\* A mutant: conditions are not looked at.
ReusableDespiteConditions ==
  \A i \in DOMAIN operations :
    IF i < FirstMeasurement THEN operations[i].op \in {"gate", "conditional"}
    ELSE IsMeasurement(operations[i])

\* Only gates without a condition before the first measurement, only measurements
\* from there on: the state the gates prepare serves every shot.
Reusable ==
  \A i \in DOMAIN operations :
    IF i < FirstMeasurement THEN operations[i].op = "gate"
    ELSE IsMeasurement(operations[i])

PrefixLength == IF Reusable THEN FirstMeasurement - 1 ELSE 0

\* The state after the first gates.
Prepare ==
  LET After[n \in 0 .. PrefixLength] == IF n = 0 THEN Ground ELSE Apply(After[n - 1], operations[n])
  IN  After[PrefixLength]

-----------------------------------------------------------------------------
Untouched == [executed |-> 0, skipped |-> 0, failed |-> 0, zeros |-> 0, ones |-> 0]
Cleared == [b \in Bits |-> 0]

\* A program no call of run has seen.
Fresh ==
  /\ phase = "loaded"
  /\ prepared = <<>> /\ state = Ground /\ classical = Cleared /\ at = 1
  /\ shot = 0 /\ stats = <<>>
  /\ counts = [l \in Labels |-> 0] /\ observed = {}
  /\ drawn = <<>> /\ past = <<>>
  /\ demand \in {CHOOSE d \in Demands : TRUE} /\ answer = "none"

End(how) ==
  /\ phase' = how
  /\ UNCHANGED <<source, quantum, records, history, demand, answer>>

\* preflight raises: E7QError of the structure ...
RefuseProgram == phase = "loaded" /\ ~(ValidProgram /\ Measured) /\ End("refused")

\* ... or ResourceBlocked of the estimate, whatever the host leaves.
BlockProgram == phase = "loaded" /\ ValidProgram /\ Measured /\ End("blocked")

\* The stabilizer backend does not admit it, or is not installed.
Unsupported ==
  /\ phase = "loaded" /\ ValidProgram /\ Measured /\ backend = "stabilizer"
  /\ End("unsupported")

Begin ==
  /\ phase = "loaded" /\ ValidProgram /\ Measured /\ ShotByShot
  /\ backend = "stabilizer" => Clifford
  /\ prepared' = IF Reusable THEN <<Prepare>> ELSE <<>>
  /\ stats' = [i \in DOMAIN operations |-> Untouched]
  /\ phase' = "between"
  /\ UNCHANGED <<source, state, classical, at, shot, counts, observed, history, demand, answer>>

StartShot ==
  /\ phase = "between" /\ shot < Shots
  /\ state' = IF prepared # <<>> THEN prepared[1] ELSE Ground
  /\ classical' = Cleared /\ at' = 1 /\ drawn' = <<>>
  /\ phase' = "shot"
  /\ UNCHANGED <<source, prepared, records, past, demand, answer>>

-----------------------------------------------------------------------------
(* One operation of a shot.                                                *)

Op == operations[at]
Running(kinds) == phase = "shot" /\ at <= Len(operations) /\ Op.op \in kinds
Holds(o) == classical[o.bit] = o.equals

\* An operation is accounted for under the given heads, and the next one is up.
Account(heads) ==
  /\ stats' = [stats EXCEPT ![at] = [h \in DOMAIN @ |-> @[h] + (IF h \in heads THEN 1 ELSE 0)]]
  /\ at' = at + 1
  /\ UNCHANGED <<source, phase, prepared, shot, counts, observed, past, demand, answer>>

\* The prepared state is past this gate already.
PassPrepared ==
  /\ Running({"gate"}) /\ prepared # <<>> /\ at <= PrefixLength
  /\ Account({"executed"}) /\ UNCHANGED <<state, classical, drawn>>

ApplyGate ==
  /\ Running({"gate", "conditional"})
  /\ prepared # <<>> => at > PrefixLength
  /\ Op.op = "conditional" => Holds(Op)
  /\ state' = Apply(state, Op)
  /\ Account({"executed"}) /\ UNCHANGED <<classical, drawn>>

SkipConditional ==
  /\ Running({"conditional"}) /\ ~Holds(Op)
  /\ Account({"skipped"}) /\ UNCHANGED <<state, classical, drawn>>

AssertBit ==
  /\ Running({"assert"})
  /\ Account({"executed"} \cup (IF Holds(Op) THEN {} ELSE {"failed"}))
  /\ UNCHANGED <<state, classical, drawn>>

MeasureQubit ==
  /\ Running({"measure"})
  /\ \E b \in Possible(state, Op.qubit) :
       /\ state' = Collapse(state, Op.qubit, b)
       /\ classical' = [classical EXCEPT ![Op.bit] = b]
       /\ drawn' = Append(drawn, b)
       /\ Account({"executed", IF b = 1 THEN "ones" ELSE "zeros"})

\* The qubits one after the other: in the end, one basis state is left.
MeasureRegister ==
  /\ Running({"full"})
  /\ \E i \in {j \in Basis : state[j] # Nought} :
       /\ state' = [j \in Basis |-> IF j = i THEN state[i] ELSE Nought]
       /\ classical' = [b \in Bits |-> IF b \in Qubits THEN Bit(i, b) ELSE classical[b]]
       /\ drawn' = drawn \o [q \in 1 .. Width |-> Bit(i, q - 1)]
       /\ Account({"executed"})

EndShot ==
  /\ phase = "shot" /\ at > Len(operations)
  /\ counts' = [counts EXCEPT ![classical] = @ + 1]
  /\ shot' = shot + 1
  /\ past' = Append(past, drawn)
  /\ phase' = "between"
  /\ UNCHANGED <<source, quantum, stats, observed, drawn, demand, answer>>

\* The shots are over; only the state vector backend calls the frequencies probabilities.
Conclude ==
  /\ phase = "between" /\ shot = Shots
  /\ observed' = IF backend = "stabilizer" THEN {} ELSE {l \in Labels : counts[l] > 0}
  /\ phase' = "ran"
  /\ UNCHANGED <<source, quantum, shot, stats, counts, history, demand, answer>>

\* A static program, all at once: the exact support is reported, the shots are sampled.
RunStatic ==
  /\ phase = "loaded" /\ ValidProgram /\ Measured /\ ~ShotByShot
  /\ observed' = Support(Mixture)
  /\ \E sample \in [1 .. Shots -> Support(Mixture)] :
       counts' = [l \in Labels |-> Cardinality({s \in 1 .. Shots : sample[s] = l})]
  /\ shot' = Shots
  /\ phase' = "ran"
  /\ UNCHANGED <<source, quantum, stats, history, demand, answer>>

\* A MemoryError anywhere in the simulation.
AllocationFails ==
  /\ phase \in {"loaded", "between", "shot"} /\ ValidProgram /\ Measured
  /\ End("failed")

-----------------------------------------------------------------------------
(* verify and verify_stabilizer.                                           *)

Apart(v, q, letter) == IF letter = "I" THEN v ELSE ApplyOne(v, letter, q)

\* The expectation of a Pauli observable in a stabilizer state.
Expectation(v, pauli) ==
  LET image == FoldFunctionOnSet(LAMBDA pair, w : Apart(w, pair[1], pair[2]), v,
                                 [q \in Qubits |-> <<q, pauli[q]>>], Qubits)
  IN  CASE image = v -> 1
        [] image = [i \in Basis |-> Turned(v[i], 4)] -> -1
        [] OTHER -> 0

Assertions == {i \in DOMAIN stats : operations[i].op = "assert"}

\* A mutant: what was sampled stands for what is possible.
DenseChecksOfSamples(d) ==
  {IF {l \in Labels : counts[l] > 0} \subseteq d.allowed THEN "PASS" ELSE "FAIL" :
     x \in {d.allowed} \ {AnyOutcome}}
  \cup {IF stats[i].failed = 0 THEN "PASS" ELSE "FAIL" : i \in Assertions}

DenseChecks(d) ==
  {IF observed \subseteq d.allowed THEN "PASS" ELSE "FAIL" : x \in {d.allowed} \ {AnyOutcome}}
  \cup {IF stats[i].failed = 0 THEN "PASS" ELSE "FAIL" : i \in Assertions}

PauliCheck(request) ==
  IF request = InvalidRequest \/ prepared = <<>> THEN "UNSUPPORTED"
  ELSE IF Expectation(prepared[1], request.pauli) = request.expected THEN "PASS" ELSE "FAIL"

StabilizerChecks(d) ==
  {"PASS" : x \in {d.normalized} \cap {TRUE}}
  \cup {"UNSUPPORTED" : x \in {d.allowed} \ {AnyOutcome}}
  \cup {PauliCheck(request) : request \in d.paulis}
  \cup {IF stats[i].failed = 0 THEN "PASS" ELSE "FAIL" : i \in Assertions}

StabilizerStatus(checks) ==
  IF "FAIL" \in checks THEN "FAIL"
  ELSE IF checks = {} \/ "UNSUPPORTED" \in checks THEN "NOT_ASSESSED" ELSE "PASS"

\* Only the stabilizer backend takes Pauli requests, and not too many of them
\* (those of a call are distinct here).
Unanswerable(d) ==
  IF backend = "stabilizer" THEN Cardinality(d.paulis) > MaxPauliChecks ELSE d.paulis # {}

\* What is demanded is part of the source (the Pauli checks, of the call); nothing
\* before reads it, so it is chosen here.
Verify ==
  /\ phase = "ran"
  /\ \E d \in Demands :
       /\ demand' = d
       /\ answer' = IF Unanswerable(d) THEN "raised"
                    ELSE IF backend = "stabilizer" THEN StabilizerStatus(StabilizerChecks(d))
                    ELSE IF "FAIL" \in DenseChecks(d) THEN "FAIL" ELSE "PASS"
  /\ phase' = "verified"
  /\ UNCHANGED <<source, quantum, records, history>>

-----------------------------------------------------------------------------
Execute ==
  \/ RefuseProgram \/ BlockProgram \/ Unsupported \/ Begin \/ RunStatic
  \/ StartShot \/ PassPrepared \/ ApplyGate \/ SkipConditional \/ AssertBit
  \/ MeasureQubit \/ MeasureRegister \/ EndShot \/ Conclude \/ AllocationFails \/ Verify

Ended == phase \in {"refused", "blocked", "unsupported", "failed", "verified"}
-----------------------------------------------------------------------------
(* What a shot is, defined apart from the loops: the whole program, from   *)
(* the ground state, with the outcomes its measurements gave.              *)

Did(play, heads) == [play EXCEPT !.log = Append(@, heads)]

\* The state the first measurement finds.
Met(play) == IF play.met = <<>> THEN [play EXCEPT !.met = <<play.state>>] ELSE play

PlayMeasurement(play, o) ==
  LET n     == IF o.op = "full" THEN Width ELSE 1
      drew  == SubSeq(play.left, 1, n)
      taken == [play EXCEPT !.left = SubSeq(@, n + 1, Len(@))]
  IN  IF o.op = "measure"
      THEN Did([Met(taken) EXCEPT !.bits[o.bit] = drew[1],
                                  !.possible = @ /\ drew[1] \in Possible(play.state, o.qubit),
                                  !.state = Collapse(@, o.qubit, drew[1])],
               {"executed", IF drew[1] = 1 THEN "ones" ELSE "zeros"})
      ELSE Did([Met(taken) EXCEPT
                  !.bits = [b \in Bits |-> IF b \in Qubits THEN drew[b + 1] ELSE @[b]],
                  !.possible = @ /\ \E i \in Basis : /\ play.state[i] # Nought
                                                     /\ \A q \in Qubits : Bit(i, q) = drew[q + 1]],
               {"executed"})

PlayOne(play, o) ==
  CASE o.op \in {"measure", "full"} -> PlayMeasurement(play, o)
    [] o.op = "assert" ->
         Did(play, {"executed"} \cup (IF play.bits[o.bit] = o.equals THEN {} ELSE {"failed"}))
    [] o.op = "conditional" /\ play.bits[o.bit] # o.equals -> Did(play, {"skipped"})
    [] OTHER -> Did([play EXCEPT !.state = Apply(@, o)], {"executed"})

Begun(outcomes) ==
  [state |-> Ground, bits |-> Cleared, left |-> outcomes, met |-> <<>>, possible |-> TRUE, log |-> <<>>]

\* The first n operations.
PlayTo(outcomes, n) ==
  LET Played[k \in 0 .. n] == IF k = 0 THEN Begun(outcomes) ELSE PlayOne(Played[k - 1], operations[k])
  IN  Played[n]

Play(outcomes) == PlayTo(outcomes, Len(operations))

Plays == [s \in 1 .. Shots |-> Play(past[s])]

Completed == phase \in {"ran", "verified"}

\* Every variable has its type.
ExecutionTypeOK ==
  /\ operations \in Seq(Operations) /\ backend \in Backends
  /\ phase \in {"loaded", "between", "shot", "ran", "verified",
                "refused", "blocked", "unsupported", "failed"}
  /\ prepared = <<>> \/ prepared \in [1 .. 1 -> [Basis -> [1 .. 4 -> Int]]]
  /\ state \in [Basis -> [1 .. 4 -> Int]]
  /\ classical \in Labels /\ at \in Nat \ {0} /\ shot \in 0 .. Shots
  /\ stats \in Seq([DOMAIN Untouched -> 0 .. Shots])
  /\ counts \in [Labels -> 0 .. Shots] /\ observed \subseteq Labels
  /\ drawn \in Seq({0, 1}) /\ past \in Seq(Seq({0, 1}))
  /\ demand \in Demands
  /\ answer \in {"none", "PASS", "FAIL", "NOT_ASSESSED", "raised"}

\* The report of a program run shot by shot is that of independent shots of the
\* whole program, each from the ground state: whatever was prepared once for all of
\* them, every outcome drawn had a probability, the counts are the labels of the
\* shots and each operation's record says how often it was executed, skipped, failed.
ReportIsOfTheShots ==
  Completed /\ ShotByShot =>
    LET plays == Plays
    IN  /\ \A s \in 1 .. Shots : plays[s].possible /\ plays[s].left = <<>>
        /\ counts = [l \in Labels |-> Cardinality({s \in 1 .. Shots : plays[s].bits = l})]
        /\ \A i \in DOMAIN operations : \A head \in DOMAIN Untouched :
             stats[i][head] = Cardinality({s \in 1 .. Shots : head \in plays[s].log[i]})

\* The labels an invariant on the outcomes is about: of a static program every label
\* that is possible, of a dynamic one those of its shots.
Witnessed ==
  IF ShotByShot THEN {play.bits : play \in ToSet(Plays)} ELSE Support(Mixture)

AssertionsHold ==
  ShotByShot => \A play \in ToSet(Plays) : \A heads \in ToSet(play.log) : "failed" \notin heads

OutcomesAllowed == demand.allowed = AnyOutcome \/ Witnessed \subseteq demand.allowed

\* A Pauli observable has the expected value in the state every shot measures first.
Expected(request) ==
  \A play \in ToSet(Plays) : Expectation(play.met[1], request.pauli) = request.expected

\* verify passes only what it looked at and what held: every assertion in every shot,
\* every outcome allowed (never on the stabilizer backend, which cannot tell), every
\* Pauli request valid and its expectation exact before the measurement; and it fails
\* only what did not hold, never for a request it could not read.
VerdictIsEarned ==
  /\ answer = "PASS" =>
       /\ AssertionsHold /\ OutcomesAllowed
       /\ \A request \in demand.paulis : request # InvalidRequest /\ Expected(request)
       /\ backend = "stabilizer" => /\ demand.allowed = AnyOutcome
                                    /\ demand.normalized \/ demand.paulis # {}
                                         \/ "assert" \in Kinds(operations)
       /\ backend # "stabilizer" => demand.paulis = {}
  /\ answer = "FAIL" =>
       \/ ~AssertionsHold
       \/ backend # "stabilizer" /\ ~OutcomesAllowed
       \/ \E request \in demand.paulis \ {InvalidRequest} : ~Expected(request)
=============================================================================
