--------------------------- MODULE MCQcecWorkflow ---------------------------
(***************************************************************************)
(* Two circuits the importer accepts and one file it does not.  The        *)
(* backend passes a circuit against itself, and one of the two orders of   *)
(* the different ones, so that no swap of the inputs goes unnoticed.       *)
(***************************************************************************)
EXTENDS QcecWorkflow

CONSTANTS circuit1, circuit2, garbage

MCEquivalent == {<<circuit1, circuit1>>, <<circuit2, circuit2>>, <<circuit1, circuit2>>}
=============================================================================
