------------------------ MODULE MCSemanticConformance ------------------------
(***************************************************************************)
(* Graphs of at most two artifacts and one relation, one for each way a    *)
(* graph can be judged, and a cache too small for the four of them that    *)
(* the native validator sees.                                              *)
(***************************************************************************)
EXTENDS SemanticConformance

CONSTANTS good, tampered, alien, mixed, circuit, bare, dangling, broken

MCGraphs == {good, tampered, alien, mixed, circuit, bare, dangling, broken}

Artifact(i, p) == [id |-> i, refs |-> {}, profile |-> p, ready |-> TRUE, matches |-> TRUE]
Relation(i, j) == [source |-> i, target |-> j, matches |-> TRUE]
Content(artifacts, relations) ==
  [artifacts |-> artifacts, relations |-> relations,
   structured |-> TRUE, identified |-> TRUE, replays |-> TRUE]

Native == <<Artifact(1, "native"), [Artifact(2, "native") EXCEPT !.refs = {1}]>>

MCContents ==
  [g \in MCGraphs |->
     CASE g = good     -> Content(Native, <<Relation(1, 2)>>)
       [] g = tampered -> Content(Native, <<[Relation(1, 2) EXCEPT !.matches = FALSE]>>)
       [] g = alien    -> [Content(Native, <<Relation(2, 1)>>) EXCEPT !.replays = FALSE]
       [] g = mixed    -> Content(<<Native[1], Artifact(2, "circuit")>>, <<Relation(1, 2)>>)
       [] g = circuit  -> Content(<<Artifact(1, "circuit")>>, <<>>)
       [] g = bare     -> Content(<<Artifact(1, "core"), [Native[2] EXCEPT !.ready = FALSE]>>,
                                  <<Relation(1, 2)>>)
       [] g = dangling -> Content(<<Native[1]>>, <<Relation(1, 2)>>)
       [] g = broken   -> [Content(<<Native[1], Native[1]>>, <<>>) EXCEPT !.structured = FALSE]]
=============================================================================
