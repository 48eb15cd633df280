----------------------------- MODULE LanguageRun -----------------------------
(***************************************************************************)
(* A source from parse to verify: what the parser accepts is executed as   *)
(* it stands, and what it refuses is never run.                            *)
(***************************************************************************)
EXTENDS PathExpansion, Execution

vars == <<program, limits, stack, used, fullMeasured, visits, verdict, executionVars>>

Init == ParserInit /\ Fresh

ParseStep ==
  /\ Parse
  /\ UNCHANGED <<phase, quantum, records, history, demand, answer>>

RunStep ==
  /\ verdict = "accepted" /\ Execute
  /\ UNCHANGED <<program, limits, stack, used, fullMeasured, visits, verdict>>

Done ==
  /\ verdict \in {"invalid", "limit"} \/ Ended
  /\ UNCHANGED vars

Next == ParseStep \/ RunStep \/ Done

Spec == Init /\ [][Next]_vars

-----------------------------------------------------------------------------
\* Every variable has its type.
TypeOK == ParserTypeOK /\ ExecutionTypeOK

\* Preflight's own structural validation, written apart from the parser, refuses two
\* families of what the parser accepts, and nothing else: sizes beyond ceilings the
\* parser does not know (it asks that registers and shots are positive, and without
\* the caller's limits lets uses unfold to any length), and measurement in the
\* middle, conditions and assertions on the density-matrix backend without noise.
\* Both are told from the source alone, by the unfolding of its verified path.
AcceptedIsExecutable ==
  verdict = "accepted" =>
    LET ops   == OperationsOf(Visited)
        kinds == {o.op : o \in ToSet(ops)}
    IN  ValidProgram /\ Measured <=>
          /\ Width <= MaxRegister /\ BitWidth <= MaxRegister /\ Shots <= MaxShots
          /\ Len(ops) <= MaxOperations
          /\ backend = "densitymatrix" => kinds \subseteq {"gate", "noise", "full"}
=============================================================================
