--------------------------- MODULE PyzxSupervisor ---------------------------
(***************************************************************************)
(* One call of e7q.ir.pyzx.evaluate: admission of the two circuits, then a *)
(* PyZX rewrite check in an isolated worker.  A successful reduction is    *)
(* one-sided evidence: nothing PyZX does can refute equivalence.           *)
(***************************************************************************)
EXTENDS WorkerSupervisor

VARIABLES
  request,    \* what admission found of the two circuits; the backend version
  outcome,    \* the assessment's outcome, NoOutcome before
  memory      \* the memory enforcement the assessment records

vars == <<workerVars, parentVars, request, outcome, memory>>

-----------------------------------------------------------------------------
\* _admit of one circuit: the status of the first rule it breaks, or ok.
Admissions == {"ok", "UNSUPPORTED", "BLOCKED"}

Requests ==
  [left : Admissions, right : Admissions, sameWidth : BOOLEAN,
   version : {"supported", "unavailable", "other"}]

\* The errors of admission; the widths are compared of admitted circuits only.
AdmissionErrors ==
  LET sides == {request.left, request.right} \ {"ok"}
  IN IF sides = {} /\ ~request.sameWidth THEN {"UNSUPPORTED"} ELSE sides

Results    == [kind : {"result"}, verified : BOOLEAN]
Failures   == [kind : {"protocol_error", "resource_exhaustion", "unsupported_input", "backend_error"}]
PyzxAnswers == Results \cup Failures

Statuses == {"PASS", "BLOCKED", "UNSUPPORTED", "NOT_ASSESSED"}
Established     == [status |-> "PASS", conclusion |-> "ESTABLISHED"]
Inconclusive(s) == [status |-> s, conclusion |-> "INCONCLUSIVE"]
NoOutcome       == [status |-> "pending", conclusion |-> "pending"]

\* A mutant: a reduction that fails is read as a refutation.
JudgedBothWays(r) ==
  IF r.kind = "result" THEN
    IF r.verified THEN Established ELSE [status |-> "FAIL", conclusion |-> "REFUTED"]
  ELSE Inconclusive("NOT_ASSESSED")

\* evaluate's reading of a response r.
Judged(r) ==
  IF r.kind = "result" THEN
    IF request.version = "other" THEN Inconclusive("UNSUPPORTED")
    ELSE IF r.verified THEN Established
    ELSE Inconclusive("NOT_ASSESSED")
  ELSE IF r.kind = "unsupported_input"
          \/ (r.kind = "backend_error" /\ request.version = "unavailable")
    THEN Inconclusive("UNSUPPORTED")
  ELSE IF r.kind = "resource_exhaustion" THEN Inconclusive("BLOCKED")
  ELSE Inconclusive("NOT_ASSESSED")

\* ... and of an execution that ended for this reason.
Assessed(reason) ==
  IF reason = "wall_clock_timeout" THEN Inconclusive("BLOCKED")
  ELSE IF reason \in ExecutionFailures THEN Inconclusive("NOT_ASSESSED")
  ELSE Judged(response)

-----------------------------------------------------------------------------
Init ==
  /\ WorkerInit
  /\ ParentInit
  /\ request \in Requests
  /\ outcome = NoOutcome
  /\ memory = "pending"

\* A parent that is gone already fails the worker's first send, which is inside
\* its try block: the check is not even made.
AnnounceFails ==
  /\ stage = "boot" /\ "receiving" \notin handles
  /\ stage' = "answered"
  /\ limit' \in {"enforced", "unenforced"}
  /\ answer' = [kind |-> "backend_error"]
  /\ UNCHANGED <<exitcode, torn, pipe, handles, signalled>>

\* _worker: its answers are a few hundred bytes, written whole.
PyzxWorker ==
  /\ \/ SendStarted /\ "receiving" \in handles
     \/ AnnounceFails
     \/ SendAnswer(PyzxAnswers)
     \/ CloseConnection
     \/ \E code \in {"error", "signal"} : Die(code)
     \/ Exit
  /\ UNCHANGED <<parentVars, request, outcome, memory>>

\* evaluate rejects the circuits before it opens a pipe.
Reject ==
  /\ pc = "spawn"
  /\ AdmissionErrors # {}
  /\ pc' = "done"
  /\ handles' = {}
  /\ outcome' = Inconclusive(IF "BLOCKED" \in AdmissionErrors THEN "BLOCKED" ELSE "UNSUPPORTED")
  /\ memory' = "unreported"
  /\ reaped' = TRUE
  /\ UNCHANGED <<stage, limit, answer, exitcode, torn, pipe, signalled,
                 expired, startup, response, timedOut, started, request>>

\* _run: a worker found dead is joined first, then its pipe is drained.
Run ==
  /\ \/ AdmissionErrors = {} /\ (StartFails \/ StartWorker)
     \/ ReadClock
     \/ PollNothing \/ Receive("poll", "check") \/ EndOfFile("poll", "leave")
     \/ CheckAlive("leave")
     \/ Join("drain")
     \/ Receive("drain", "drain") \/ EndOfFile("drain", "close")
     \/ CloseReceiving
     \/ TerminateAndReap
     \/ Reap
  /\ UNCHANGED <<request, outcome, memory>>

\* evaluate: the assessment of the execution, with its memory evidence.
Assess ==
  /\ pc = "assess"
  /\ pc' = "done"
  /\ outcome' = Assessed(ExecutionReason)
  /\ memory' = MemoryReported
  /\ UNCHANGED <<workerVars, expired, startup, response, timedOut, reaped, started, request>>

TimePasses == Tick /\ UNCHANGED <<request, outcome, memory>>

Over == pc = "done" /\ ~Alive /\ UNCHANGED vars

Next == PyzxWorker \/ TimePasses \/ Reject \/ Run \/ Assess \/ Over

Spec == Init /\ [][Next]_vars

\* Time passes, the parent's code runs and SIGKILL kills; the worker owes nothing.
Fairness ==
  /\ WF_vars(TimePasses)
  /\ WF_vars(Reject \/ Run \/ Assess)
  /\ WF_vars(KillTakesEffect /\ UNCHANGED <<parentVars, request, outcome, memory>>)

FairSpec == Spec /\ Fairness

-----------------------------------------------------------------------------
(* Properties.                                                             *)

\* Every variable has its type.
TypeOK ==
  /\ WorkerTypeOK(PyzxAnswers)
  /\ ParentTypeOK(PyzxAnswers)
  /\ request \in Requests
  /\ outcome \in [status : Statuses, conclusion : {"ESTABLISHED", "INCONCLUSIVE"}] \cup {NoOutcome}
  /\ memory \in {"pending", "unset", "enforced", "unenforced", "unreported"}

\* The assessment is the worker's answer, both ways.  Equivalence is established
\* exactly of a pair that was admitted and that a worker verified, exited zero and
\* was never signalled; nothing ever refutes it.  And the answer of a worker that
\* ran to its end is in the assessment unless the parent itself called a timeout:
\* the drain after the join leaves no window between the last poll and the exit.
AssessmentIsTheAnswer ==
  /\ outcome.status = "PASS" =>
       /\ {request.left, request.right} = {"ok"} /\ request.sameWidth
       /\ answer = [kind |-> "result", verified |-> TRUE]
       /\ stage = "dead" /\ exitcode = "zero" /\ signalled = "none"
       /\ memory = limit
  /\ pc = "done" /\ started /\ ~timedOut /\ exitcode = "zero" => response = answer

\* The caller gets control back, no worker is left, and the endpoints are closed.
EveryCallEnds == <>[](pc = "done" /\ handles = {} /\ ~Alive)
=============================================================================
