----------------------------- MODULE Comparison -----------------------------
(***************************************************************************)
(* What the comparison workflows share: each leaves one isolated QCEC      *)
(* check to a worker, and makes an evidence graph of its outcome.          *)
(***************************************************************************)
CONSTANT None   \* what is not there yet, or not at all

VARIABLES
  opinion,      \* the status the worker's answer stands for
  outcome,      \* the status of the assessment
  graph,        \* the evidence graph
  pc            \* the next step of the workflow

Statuses  == {"PASS", "FAIL", "BLOCKED", "UNSUPPORTED", "NOT_ASSESSED"}
Fallbacks == {"BLOCKED", "UNSUPPORTED", "NOT_ASSESSED"}

Check == INSTANCE IsolatedCheck WITH Opinions <- Statuses, Pending <- None
=============================================================================
