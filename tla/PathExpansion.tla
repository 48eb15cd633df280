---------------------------- MODULE PathExpansion ----------------------------
(***************************************************************************)
(* The expansion of reusable paths in e7q.language.parse: the statements   *)
(* of the verified path are visited in order, a `use' expands another path *)
(* in place, and caller-owned limits bound the work (ParseLimits, given by *)
(* the native replay and the Cirq adapter for untrusted sources).          *)
(*                                                                         *)
(* The recursion of append_body is the explicit stack here.  A statement   *)
(* is what the parser's patterns made of a line: a use, or one of the      *)
(* operations; a line no pattern matches, and one whose indices or         *)
(* arguments are out of range, are both "invalid".                         *)
(***************************************************************************)
EXTENDS LanguageProgram

CONSTANTS
  Paths,        \* the declared path names
  Target,       \* the path named by verify
  Unknown,      \* a name no path has
  Unbounded,    \* no limit
  Programs,     \* the bodies considered: functions from Paths to statements
  LimitChoices  \* the limits considered

Invalid == [op |-> "invalid"]
Statements == [op : {"use"}, target : Paths \cup {Unknown}] \cup Operations \cup {Invalid}
Bounds == (Nat \ {0}) \cup {Unbounded}
Limits == [operations : Bounds, invocations : Bounds, visits : Bounds, depth : Bounds]

ASSUME PathAssumption ==
  /\ IsFiniteSet(Paths) /\ Target \in Paths /\ Unknown \notin Paths
  /\ Unbounded \notin Nat
  /\ \A bodies \in Programs : bodies \in [Paths -> Seq(Statements)]
  /\ LimitChoices \subseteq Limits

VARIABLES
  program,      \* the bodies of the declared paths
  limits,       \* the caller's limits
  stack,        \* the paths being expanded, each with its next statement
  used,         \* the reusable paths entered so far
  fullMeasured, \* a full-register measurement was appended
  visits,       \* statements visited
  verdict       \* parsing, accepted, invalid (E7QError) or limit (E7QResourceLimitError)

parserVars == <<program, backend, limits, stack, operations, used, fullMeasured, visits, verdict>>

-----------------------------------------------------------------------------
Frame(p, at) == [path |-> p, at |-> at]
Top == Last(stack)
AtEnd == Top.at > Len(program[Top.path])
Statement == program[Top.path][Top.at]
Open == {stack[i].path : i \in DOMAIN stack}
Advanced == [stack EXCEPT ![Len(stack)].at = @ + 1]

\* A mutant: a bound is noticed one too late.
ExceedsLate(n, bound) == bound # Unbounded /\ n > bound + 1

Exceeds(n, bound) == bound # Unbounded /\ n > bound

\* A mutant: the name of a use is not looked up.
UseRefusalAnyName ==
  IF Exceeds(visits + 1, limits.visits) THEN "limit"
  ELSE IF Statement.target \in Open THEN "invalid"
  ELSE IF Exceeds(Len(used) + 1, limits.invocations) THEN "limit"
  ELSE IF Exceeds(Len(stack) + 1, limits.depth) THEN "limit"
  ELSE "none"

\* What becomes of a use: the first check it fails, in the code's order.
UseRefusal ==
  IF Exceeds(visits + 1, limits.visits) THEN "limit"
  ELSE IF Statement.target \notin Paths THEN "invalid"
  ELSE IF Statement.target \in Open THEN "invalid"
  ELSE IF Exceeds(Len(used) + 1, limits.invocations) THEN "limit"
  ELSE IF Exceeds(Len(stack) + 1, limits.depth) THEN "limit"
  ELSE "none"

\* A mutant: operations may follow the full measurement.
OperationRefusalOpen ==
  IF Exceeds(visits + 1, limits.visits) THEN "limit"
  ELSE IF Statement.op = "invalid" THEN "invalid"
  ELSE IF Exceeds(Len(operations) + 1, limits.operations) THEN "limit"
  ELSE "none"

\* What becomes of any other statement.
OperationRefusal ==
  IF Exceeds(visits + 1, limits.visits) THEN "limit"
  ELSE IF fullMeasured THEN "invalid"
  ELSE IF Statement.op = "invalid" THEN "invalid"
  ELSE IF Exceeds(Len(operations) + 1, limits.operations) THEN "limit"
  ELSE "none"

\* The checks of the whole path once it is expanded.
Complete ==
  LET kinds == Kinds(operations)
  IN  /\ kinds \cap {"measure", "full"} # {}
      /\ "noise" \in kinds =>
           backend = "densitymatrix" /\ kinds \cap {"conditional", "measure", "assert"} = {}

-----------------------------------------------------------------------------
ParserInit ==
  /\ program \in Programs
  /\ backend \in Backends
  /\ limits \in LimitChoices
  /\ stack = <<Frame(Target, 1)>>
  /\ operations = <<>> /\ used = <<>>
  /\ fullMeasured = FALSE
  /\ visits = 0
  /\ verdict = "parsing"

\* parse raises.
Refuse(reason) ==
  /\ verdict' = reason
  /\ UNCHANGED <<program, backend, limits, stack, operations, used, fullMeasured, visits>>

\* use PathName.
Use ==
  /\ verdict = "parsing" /\ ~AtEnd /\ Statement.op = "use"
  /\ \/ UseRefusal # "none" /\ Refuse(UseRefusal)
     \/ /\ UseRefusal = "none"
        /\ stack' = Append(Advanced, Frame(Statement.target, 1))
        /\ used' = Append(used, Statement.target)
        /\ visits' = visits + 1
        /\ UNCHANGED <<program, backend, limits, operations, fullMeasured, verdict>>

\* Any other statement.
AppendOperation ==
  /\ verdict = "parsing" /\ ~AtEnd /\ Statement.op # "use"
  /\ \/ OperationRefusal # "none" /\ Refuse(OperationRefusal)
     \/ /\ OperationRefusal = "none"
        /\ stack' = Advanced
        /\ operations' = Append(operations, Statement)
        /\ fullMeasured' = (fullMeasured \/ Statement.op = "full")
        /\ visits' = visits + 1
        /\ UNCHANGED <<program, backend, limits, used, verdict>>

\* A mutant: a use ends the path it is in.
ReturnOut ==
  /\ verdict = "parsing" /\ AtEnd /\ Len(stack) > 1
  /\ stack' = LET below == Front(stack)
              IN  [below EXCEPT ![Len(below)].at = Len(program[Last(below).path]) + 1]
  /\ UNCHANGED <<program, backend, limits, operations, used, fullMeasured, visits, verdict>>

\* append_body returns to the path that used this one.
Return ==
  /\ verdict = "parsing" /\ AtEnd /\ Len(stack) > 1
  /\ stack' = Front(stack)
  /\ UNCHANGED <<program, backend, limits, operations, used, fullMeasured, visits, verdict>>

\* ... or to parse, which checks what it got.
Finish ==
  /\ verdict = "parsing" /\ AtEnd /\ Len(stack) = 1
  /\ verdict' = IF Complete THEN "accepted" ELSE "invalid"
  /\ UNCHANGED <<program, backend, limits, stack, operations, used, fullMeasured, visits>>

Parse == Use \/ AppendOperation \/ Return \/ Finish

-----------------------------------------------------------------------------
(* What a path stands for, defined apart from the parser: the unfolding of *)
(* its uses, as deep as there are paths.                                   *)

IsUse(s) == s.op = "use"

Uses(p) == {s.target : s \in {t \in ToSet(program[p]) : IsUse(t)}} \cap Paths

\* The paths one can go on from through n uses.
Chains[n \in 0 .. Cardinality(Paths)] ==
  IF n = 0 THEN Paths ELSE {p \in Paths : Uses(p) \cap Chains[n - 1] # {}}

Acyclic == Target \notin Chains[Cardinality(Paths)]
Depth == Cardinality({n \in 0 .. Cardinality(Paths) : Target \in Chains[n]})

\* The statements of a body, a use followed by what it stands for.
Inlined(body, meaning) ==
  FlattenSeq([i \in DOMAIN body |->
                <<body[i]>> \o (IF IsUse(body[i]) /\ body[i].target \in Paths
                                 THEN meaning[body[i].target] ELSE <<>>)])

\* Every statement met on the way through a path, in order, n uses deep.
Unfold[n \in 0 .. Cardinality(Paths)] ==
  [p \in Paths |-> Inlined(program[p], IF n = 0 THEN [q \in Paths |-> <<>>] ELSE Unfold[n - 1])]

Visited == Unfold[Cardinality(Paths)][Target]

OperationsOf(met) == FlattenSeq([i \in DOMAIN met |-> IF IsUse(met[i]) THEN <<>> ELSE <<met[i]>>])
TargetsOf(met) == FlattenSeq([i \in DOMAIN met |-> IF IsUse(met[i]) THEN <<met[i].target>> ELSE <<>>])

\* What the language asks of a path whose uses end, unfolded to met.
WellFormed(met) ==
  LET ops   == OperationsOf(met)
      kinds == {s.op : s \in ToSet(ops)}
  IN  /\ \A s \in ToSet(met) : IF IsUse(s) THEN s.target \in Paths ELSE s.op # "invalid"
      /\ \A i \in DOMAIN ops : ops[i].op = "full" => i = Len(ops)
      /\ kinds \cap {"measure", "full"} # {}
      /\ "noise" \in kinds => /\ backend = "densitymatrix"
                              /\ kinds \subseteq {"noise", "gate", "full"}

Within(n, bound) == bound = Unbounded \/ n <= bound

Fits(met) ==
  /\ Within(Len(met), limits.visits)
  /\ Within(Len(TargetsOf(met)), limits.invocations)
  /\ Within(Len(OperationsOf(met)), limits.operations)
  /\ Within(Depth, limits.depth)

\* Every variable has its type.
ParserTypeOK ==
  /\ program \in [Paths -> Seq(Statements)]
  /\ backend \in Backends /\ limits \in LimitChoices
  /\ stack \in Seq([path : Paths, at : Nat \ {0}])
  /\ operations \in Seq(Operations)
  /\ used \in Seq(Paths)
  /\ fullMeasured \in BOOLEAN
  /\ visits \in Nat
  /\ verdict \in {"parsing", "accepted", "invalid", "limit"}

\* An accepted program is the unfolding of its verified path: every operation
\* of every use, in order and as often as it is used, and nothing else.
AcceptedIsUnfolded ==
  verdict = "accepted" =>
    operations = OperationsOf(Visited) /\ used = TargetsOf(Visited)

\* The parser's running checks add up to a static one: a program is accepted
\* exactly if its uses end and its unfolding is well formed and within the
\* limits, and a limit is blamed only if the unfolding breaks one.
RefusalsAreExact ==
  /\ verdict \in {"accepted", "invalid"} =>
       (verdict = "accepted" <=> Acyclic /\ WellFormed(Visited) /\ Fits(Visited))
  /\ verdict = "limit" => ~Acyclic \/ ~Fits(Visited)
=============================================================================
