---------------------------- MODULE IsolatedCheck ----------------------------
(***************************************************************************)
(* What an isolated check promises its caller, whatever happens to the     *)
(* worker: at most one outcome, and a conclusive one only when the worker  *)
(* itself came to that opinion.  Everything else that can go wrong ends in *)
(* one of the Fallbacks.                                                   *)
(***************************************************************************)
CONSTANTS
  Opinions,    \* the outcomes a worker's answer can stand for
  Fallbacks,   \* the outcomes of a check that was not answered or not heard
  Pending      \* no opinion, no outcome

VARIABLES
  opinion,     \* the outcome the worker's answer stands for
  outcome      \* the outcome the caller was given

Init == opinion = Pending /\ outcome = Pending

\* The worker makes up its mind, once; the caller may have given up on it.
FormOpinion ==
  /\ opinion = Pending
  /\ opinion' \in Opinions
  /\ UNCHANGED outcome

\* The check ends, with the worker's opinion or without it.
Conclude ==
  /\ outcome = Pending
  /\ outcome' \in Fallbacks \cup ({opinion} \ {Pending})
  /\ UNCHANGED opinion

Next == FormOpinion \/ Conclude

Spec == Init /\ [][Next]_<<opinion, outcome>>
=============================================================================
