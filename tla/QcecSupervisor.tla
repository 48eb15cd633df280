--------------------------- MODULE QcecSupervisor ---------------------------
(***************************************************************************)
(* One call of e7q.ir.qcec.evaluate: an MQT QCEC check of two circuits in  *)
(* an isolated worker, supervised to a wall-clock deadline, and the        *)
(* assessment the adapter makes of what it saw.                            *)
(***************************************************************************)
EXTENDS WorkerSupervisor

VARIABLES
  request,    \* the selected criterion and the installed backend version
  outcome,    \* the assessment's outcome, NoOutcome before
  memory      \* the memory enforcement the assessment records

vars == <<workerVars, parentVars, request, outcome, memory>>

-----------------------------------------------------------------------------
(* The answers of the worker and what they mean.                           *)

Criteria == {"numerical-unitary", "numerical-global-phase"}

Verdicts ==
  {"equivalent", "equivalent_up_to_global_phase", "not_equivalent",
   "no_information", "equivalent_up_to_phase", "probably_equivalent",
   "probably_not_equivalent", "unrecognized"}

\* slow: the backend's own check_time reached timeout_seconds.
Results == [kind : {"result"}, verdict : Verdicts, slow : BOOLEAN]

\* missing: the message says that the backend is unavailable.
Failures ==
  [kind : {"backend_error"}, missing : BOOLEAN]
    \cup [kind : {"unsupported_input", "resource_exhaustion", "worker_protocol_error"}]

QcecAnswers == Results \cup Failures

Statuses == {"PASS", "FAIL", "BLOCKED", "UNSUPPORTED", "NOT_ASSESSED"}
Verdict(s, c) == [status |-> s, conclusion |-> c]
Inconclusive(s) == Verdict(s, "INCONCLUSIVE")
NoOutcome == Verdict("pending", "pending")

\* map_verdict: no verdict is read as more than the criterion asked for.
MapVerdict(verdict, criterion, backendTimedOut) ==
  CASE verdict = "equivalent"     -> Verdict("PASS", "ESTABLISHED")
    [] verdict = "equivalent_up_to_global_phase" ->
         IF criterion = "numerical-global-phase"
           THEN Verdict("PASS", "ESTABLISHED") ELSE Verdict("FAIL", "REFUTED")
    [] verdict = "not_equivalent" -> Verdict("FAIL", "REFUTED")
    [] verdict = "no_information" /\ backendTimedOut -> Inconclusive("BLOCKED")
    [] OTHER                      -> Inconclusive("NOT_ASSESSED")

BackendTimedOut(a) == a.verdict = "no_information" /\ a.slow

\* evaluate's reading of a response r.
Judged(r) ==
  IF r.kind = "result" THEN
    IF request.version = "other" THEN Inconclusive("UNSUPPORTED")
    ELSE MapVerdict(r.verdict, request.criterion, BackendTimedOut(r))
  ELSE IF r.kind = "unsupported_input" \/ (r.kind = "backend_error" /\ r.missing)
    THEN Inconclusive("UNSUPPORTED")
  ELSE IF r.kind = "resource_exhaustion" THEN Inconclusive("BLOCKED")
  ELSE Inconclusive("NOT_ASSESSED")

\* A mutant: a worker that says nothing is taken to agree.
SilenceIsConsent(reason) ==
  IF reason = "wall_clock_timeout" THEN Inconclusive("BLOCKED")
  ELSE IF reason = "worker_protocol_error" THEN Verdict("PASS", "ESTABLISHED")
  ELSE IF reason \in ExecutionFailures THEN Inconclusive("NOT_ASSESSED")
  ELSE Judged(response)

\* ... and of an execution that ended for this reason.
Assessed(reason) ==
  IF reason = "wall_clock_timeout" THEN Inconclusive("BLOCKED")
  ELSE IF reason \in ExecutionFailures THEN Inconclusive("NOT_ASSESSED")
  ELSE Judged(response)

-----------------------------------------------------------------------------
Init ==
  /\ WorkerInit
  /\ ParentInit
  /\ request \in [criterion : Criteria, version : {"supported", "unavailable", "other"}]
  /\ outcome = NoOutcome
  /\ memory = "pending"

\* _qcec_worker: only a raw result can outgrow the pipe's buffer.
QcecWorker ==
  /\ WorkerStep(QcecAnswers, Results)
  /\ UNCHANGED <<parentVars, request, outcome, memory>>

\* _run_isolated: the loop gives up as soon as the worker is dead.
RunIsolated ==
  /\ \/ StartFails \/ StartWorker
     \/ ReadClock
     \/ PollNothing \/ Receive("poll", "check")
     \/ EndOfFile("poll", "leave") \/ BrokenMessage("poll")
     \/ CheckAlive("leave")
     \/ Join("close")
     \/ CloseReceiving
     \/ TerminateAndReap
     \/ Reap
  /\ UNCHANGED <<request, outcome, memory>>

\* evaluate: the assessment of the execution, with its memory evidence.
Assess ==
  /\ pc = "assess"
  /\ pc' = "done"
  /\ outcome' = Assessed(ExecutionReason)
  /\ memory' = MemoryReported
  /\ UNCHANGED <<workerVars, expired, startup, response, timedOut, reaped, started, request>>

TimePasses == Tick /\ UNCHANGED <<request, outcome, memory>>

\* The call is over, and a worker that outlived it is gone too.
Over == pc \in {"done", "raised"} /\ ~Alive /\ UNCHANGED vars

Next == QcecWorker \/ TimePasses \/ RunIsolated \/ Assess \/ Over

Spec == Init /\ [][Next]_vars

\* Time passes and the parent's code runs.  The worker owes nothing but two
\* things the kernel sees to: a write the parent is reading goes on, and
\* SIGKILL kills.  The backend itself may run for ever.
Fairness ==
  /\ WF_vars(TimePasses)
  /\ WF_vars(RunIsolated) /\ WF_vars(Assess)
  /\ WF_vars(FinishAnswer /\ UNCHANGED <<parentVars, request, outcome, memory>>)
  /\ WF_vars(KillTakesEffect /\ UNCHANGED <<parentVars, request, outcome, memory>>)

FairSpec == Spec /\ Fairness

-----------------------------------------------------------------------------
(* Properties.                                                             *)

\* Every variable has its type.
TypeOK ==
  /\ WorkerTypeOK(QcecAnswers)
  /\ ParentTypeOK(QcecAnswers)
  /\ request \in [criterion : Criteria, version : {"supported", "unavailable", "other"}]
  /\ outcome \in [status : Statuses, conclusion : {"ESTABLISHED", "REFUTED", "INCONCLUSIVE"}]
                \cup {NoOutcome}
  /\ memory \in {"pending", "unset", "enforced", "unenforced", "unreported"}

\* The verdicts that decide a criterion, stated apart from MapVerdict.
Establishing(criterion) ==
  {"equivalent"} \cup
    (IF criterion = "numerical-global-phase" THEN {"equivalent_up_to_global_phase"} ELSE {})
Refuting(criterion) ==
  {"not_equivalent", "equivalent_up_to_global_phase"} \ Establishing(criterion)

\* An assessment is conclusive only about a worker that ran to its end, was
\* never signalled, exited zero, was reaped, computed a result itself, and
\* whose verdict decides the selected criterion in that direction; and it then
\* carries the worker's own memory evidence.  (evaluate over _run_isolated:
\* crash, signal, timeout and lost or partial messages never look like a verdict.)
ConclusionIsTheWorkers ==
  outcome.conclusion \in {"ESTABLISHED", "REFUTED"} =>
    /\ stage = "dead" /\ exitcode = "zero" /\ signalled = "none" /\ reaped
    /\ answer.kind = "result"
    /\ answer.verdict \in IF outcome.conclusion = "ESTABLISHED"
                             THEN Establishing(request.criterion)
                             ELSE Refuting(request.criterion)
    /\ memory = limit

\* A worker the parent had to signal is reported as stopped at the deadline and
\* as nothing else, even when its answer had already arrived.
ForcedMeansBlocked ==
  pc = "done" /\ signalled # "none" => outcome = Inconclusive("BLOCKED") /\ expired

\* The parent signals a worker only past the deadline and only while it lives,
\* and sends SIGKILL only to one that SIGTERM did not end.
ForceIsLastResort ==
  [][signalled' # signalled =>
       /\ expired /\ Alive
       /\ signalled' = "kill" => signalled = "terminate"]_vars

\* However the call ends, both pipe endpoints are closed, and the worker is on
\* its way out by itself, gone, or was sent SIGKILL and reported unreaped.
NothingLeftBehind ==
  pc \in {"done", "raised"} =>
    /\ handles = {}
    /\ stage \in {"unborn", "closed", "dead"} \/ (signalled = "kill" /\ ~reaped)

\* The caller gets control back, although the backend may compute for ever and
\* ignore SIGTERM; and unless it gets it back by an exception, which skips the
\* reaping, the worker is gone in the end.
EveryCallEnds == <>[](pc \in {"done", "raised"} /\ (pc = "done" => ~Alive))

\* A worker that finished within the deadline and delivered its answer has
\* that answer in its assessment.
FinishedAnswerIsReported ==
  pc = "done" /\ started /\ ~expired /\ exitcode = "zero" => response = answer

\* The call implements an isolated check: its outcome is the meaning of the
\* worker's answer or one of the inconclusive fallbacks, once and for all.
Fallbacks == {Inconclusive(s) : s \in {"BLOCKED", "UNSUPPORTED", "NOT_ASSESSED"}}
Opinion == IF answer = NoAnswer THEN NoOutcome ELSE Judged(answer)
Check == INSTANCE IsolatedCheck
           WITH Opinions <- {Verdict("PASS", "ESTABLISHED"), Verdict("FAIL", "REFUTED")}
                              \cup Fallbacks,
                Pending <- NoOutcome, opinion <- Opinion
CheckSpec == Check!Spec
=============================================================================
