------------------------ MODULE QcecSupervisorProofs ------------------------
(***************************************************************************)
(* Proofs about QcecSupervisor: the safety properties its runs check, and  *)
(* that the call implements an isolated check.                             *)
(***************************************************************************)
EXTENDS QcecSupervisor, WorkerProofs

\* The inductive invariant: the call is supervised, its outcome comes with its
\* end, and what it concluded is the worker's.
Inv ==
  /\ Supervised(QcecAnswers)
  /\ TypeOK
  /\ outcome = NoOutcome <=> pc # "done"
  /\ ConclusionIsTheWorkers
  /\ ForcedMeansBlocked

-----------------------------------------------------------------------------
\* No answer of the worker is one of the supervisor's own markers.
LEMMA AnswersAreNotMarkers ==
  /\ Started \notin QcecAnswers /\ NoAnswer \notin QcecAnswers
  /\ Results \subseteq QcecAnswers
BY DEF Started, NoAnswer, QcecAnswers, Results, Failures

\* A conclusive reading of an answer is of a verdict that decides the criterion
\* in that direction.
LEMMA JudgedIsDecided ==
  ASSUME NEW r \in QcecAnswers, Judged(r).conclusion \in {"ESTABLISHED", "REFUTED"}
  PROVE  /\ r.kind = "result"
         /\ r.verdict \in IF Judged(r).conclusion = "ESTABLISHED"
                             THEN Establishing(request.criterion)
                             ELSE Refuting(request.criterion)
<1>1. r.kind = "result" /\ request.version # "other"
  BY DEF Judged, Inconclusive, Verdict
<1>2. Judged(r) = MapVerdict(r.verdict, request.criterion, BackendTimedOut(r))
  BY <1>1 DEF Judged
<1>3. QED
  BY <1>1, <1>2 DEF MapVerdict, Inconclusive, Verdict, Establishing, Refuting

\* Every reading of an answer is an outcome an assessment may have.
LEMMA JudgedIsAnOutcome ==
  ASSUME NEW r
  PROVE  Judged(r) \in {Verdict("PASS", "ESTABLISHED"), Verdict("FAIL", "REFUTED")} \cup Fallbacks
<1>1. CASE r.kind = "result" /\ request.version # "other"
  <2>1. Judged(r) = MapVerdict(r.verdict, request.criterion, BackendTimedOut(r))
    BY <1>1 DEF Judged
  <2>2. QED
    BY <2>1 DEF MapVerdict, Inconclusive, Fallbacks
<1>2. CASE ~(r.kind = "result" /\ request.version # "other")
  BY <1>2 DEF Judged, Inconclusive, Fallbacks
<1>3. QED
  BY <1>1, <1>2

\* An execution is read as a verdict only if it started, ended in time and by
\* itself, was reaped, exited zero and left a response.
LEMMA ConclusiveExecution ==
  ASSUME Assessed(ExecutionReason).conclusion \in {"ESTABLISHED", "REFUTED"}
  PROVE  /\ started /\ ~timedOut /\ reaped /\ exitcode \notin {"signal", "error"}
         /\ response # NoAnswer
         /\ Assessed(ExecutionReason) = Judged(response)
BY DEF Assessed, ExecutionReason, ExecutionFailures, Inconclusive, Verdict

LEMMA AssessedIsAnOutcome ==
  /\ Assessed(ExecutionReason) \in Fallbacks \cup {Judged(response)}
  /\ response = NoAnswer => Assessed(ExecutionReason) \in Fallbacks
  /\ started /\ timedOut => Assessed(ExecutionReason) = Inconclusive("BLOCKED")
BY DEF Assessed, ExecutionReason, ExecutionFailures, Inconclusive, Fallbacks

\* Opinions and fallbacks are typed, and none is the absence of an outcome.
LEMMA OutcomesAreTyped ==
  ASSUME NEW o \in {Verdict("PASS", "ESTABLISHED"), Verdict("FAIL", "REFUTED")} \cup Fallbacks
  PROVE  /\ o \in [status : Statuses, conclusion : {"ESTABLISHED", "REFUTED", "INCONCLUSIVE"}]
         /\ o # NoOutcome
BY DEF Verdict, Fallbacks, Inconclusive, Statuses, NoOutcome

-----------------------------------------------------------------------------
LEMMA InitInv == Init => Inv
<1> SUFFICES ASSUME Init PROVE Inv
  OBVIOUS
<1>1. Supervised(QcecAnswers)
  BY SupervisedInit DEF Init
<1>2. TypeOK
  BY <1>1 DEF TypeOK, Init, Supervised, WorkerInv, ParentInv
<1>3. QED
  BY <1>1, <1>2 DEF Inv, Init, ParentInit, WorkerInit, NoOutcome, Verdict,
                    ConclusionIsTheWorkers, ForcedMeansBlocked

\* The parent's own code and its clock stop with the assessment.
LEMMA NothingAfterTheEnd ==
  ASSUME Inv, RunIsolated \/ TimePasses
  PROVE  outcome = NoOutcome /\ pc' # "done"
<1>1. pc # "done" /\ pc' # "done"
  BY DEF RunIsolated, TimePasses, Tick, StartFails, StartWorker, ReadClock, PollNothing,
         Receive, EndOfFile, BrokenMessage, CheckAlive, Join, CloseReceiving,
         TerminateAndReap, Escalate, GraceOver, Reap
<1>2. QED
  BY <1>1 DEF Inv

\* The supervision, alone, is kept by every step.
LEMMA NextSupervised ==
  ASSUME Supervised(QcecAnswers), [Next]_vars
  PROVE  Supervised(QcecAnswers)'
<1>1. CASE QcecWorker
  <2>1. WorkerStep(QcecAnswers, Results) /\ UNCHANGED parentVars
    BY <1>1 DEF QcecWorker
  <2>2. WorkerInv(QcecAnswers)'
    BY <2>1, WorkerKeepsInv, AnswersAreNotMarkers DEF Supervised
  <2>3. QED
    BY <2>1, <2>2, WorkerKeepsParent
<1>2. CASE TimePasses \/ RunIsolated
  <2>1. ParentStep
    BY <1>2 DEF TimePasses, RunIsolated, ParentStep
  <2>2. QED
    BY <2>1, ParentKeepsInv
<1>3. CASE Assess
  BY <1>3, EndKeepsInv DEF Assess
<1>4. CASE UNCHANGED vars
  BY <1>4, AbsorbStutter DEF vars
<1>5. QED
  BY <1>1, <1>2, <1>3, <1>4 DEF Next, Over

LEMMA NextInv == Inv /\ [Next]_vars => Inv'
<1> SUFFICES ASSUME Inv, [Next]_vars PROVE Inv'
  OBVIOUS
<1>1. Supervised(QcecAnswers)'
  BY NextSupervised DEF Inv
<1>2. CASE Assess
  <2>1. /\ outcome' = Assessed(ExecutionReason) /\ memory' = MemoryReported
        /\ pc = "assess" /\ pc' = "done"
        /\ UNCHANGED <<stage, limit, answer, exitcode, signalled, response, timedOut, reaped,
                       started, expired, request>>
    BY <1>2 DEF Assess, workerVars
  <2>2. /\ started => stage # "unborn"
        /\ reaped => stage \in {"unborn", "dead"}
        /\ stage = "dead" => exitcode \in {"zero", "error", "signal"}
        /\ timedOut => started /\ expired
        /\ signalled # "none" => timedOut
        /\ response \in {NoAnswer, answer} /\ answer \in QcecAnswers \cup {NoAnswer}
    BY DEF Inv, Supervised, WorkerInv, WorkerTypeOK, ParentInv, Informed, Patient, Alive
  <2>3. outcome' \in Fallbacks \cup {Judged(response)}
    BY <2>1, AssessedIsAnOutcome
  <2>4. /\ outcome' \in [status : Statuses, conclusion : {"ESTABLISHED", "REFUTED", "INCONCLUSIVE"}]
        /\ outcome' # NoOutcome
    BY <2>3, JudgedIsAnOutcome, OutcomesAreTyped
  <2>5. TypeOK'
    <3>1. memory' \in {"pending", "unset", "enforced", "unenforced", "unreported"}
      BY <2>1 DEF MemoryReported, Inv, TypeOK, WorkerTypeOK
    <3>2. QED
      BY <1>1, <2>1, <2>4, <3>1 DEF TypeOK, Inv, Supervised, WorkerInv, ParentInv
  <2>6. ConclusionIsTheWorkers'
    <3> SUFFICES ASSUME outcome'.conclusion \in {"ESTABLISHED", "REFUTED"}
                 PROVE  /\ stage = "dead" /\ exitcode = "zero" /\ signalled = "none" /\ reaped
                        /\ answer.kind = "result"
                        /\ answer.verdict \in IF outcome'.conclusion = "ESTABLISHED"
                                                 THEN Establishing(request.criterion)
                                                 ELSE Refuting(request.criterion)
                        /\ memory' = limit
      BY <2>1 DEF ConclusionIsTheWorkers, Establishing, Refuting
    <3>1. /\ started /\ ~timedOut /\ reaped /\ exitcode \notin {"signal", "error"}
          /\ response # NoAnswer /\ outcome' = Judged(response)
      BY <2>1, ConclusiveExecution
    <3>2. stage = "dead" /\ exitcode = "zero" /\ signalled = "none"
      BY <2>2, <3>1
    <3>3. response = answer /\ answer \in QcecAnswers
      BY <2>2, <3>1
    <3>4. memory' = limit
      BY <2>1, <3>1 DEF MemoryReported
    <3>5. QED
      BY <3>1, <3>2, <3>3, <3>4, JudgedIsDecided
  <2>7. ForcedMeansBlocked'
    BY <2>1, <2>2, AssessedIsAnOutcome DEF ForcedMeansBlocked, Inconclusive, Verdict
  <2>8. QED
    BY <1>1, <2>1, <2>4, <2>5, <2>6, <2>7 DEF Inv
<1>3. CASE ~Assess
  <2>1. UNCHANGED <<request, outcome, memory>>
    BY <1>3 DEF Next, QcecWorker, TimePasses, RunIsolated, Over, vars
  <2>2. TypeOK'
    BY <1>1, <2>1 DEF Inv, TypeOK, Supervised, WorkerInv, ParentInv
  <2>3. CASE UNCHANGED vars
    BY <2>2, <1>1, <2>3 DEF Inv, vars, workerVars, parentVars, ConclusionIsTheWorkers,
                            ForcedMeansBlocked, Establishing, Refuting
  <2>4. CASE QcecWorker
    <3>1. stage # "dead" /\ UNCHANGED <<pc, expired, signalled>>
      BY <2>4 DEF QcecWorker, WorkerStep, SendStarted, SendAnswer, BeginAnswer, FinishAnswer,
                  CloseConnection, Die, Exit, parentVars
    <3>2. outcome.conclusion \notin {"ESTABLISHED", "REFUTED"}
      BY <3>1 DEF Inv, ConclusionIsTheWorkers
    <3>3. QED
      BY <1>1, <2>1, <2>2, <3>1, <3>2 DEF Inv, ConclusionIsTheWorkers, ForcedMeansBlocked
  <2>5. CASE RunIsolated \/ TimePasses
    <3>1. outcome = NoOutcome /\ pc' # "done"
      BY <2>5, NothingAfterTheEnd
    <3>2. QED
      BY <1>1, <2>1, <2>2, <3>1
         DEF Inv, ConclusionIsTheWorkers, ForcedMeansBlocked, NoOutcome, Verdict
  <2>6. QED
    BY <1>3, <2>3, <2>4, <2>5 DEF Next, Over
<1>4. QED
  BY <1>2, <1>3

LEMMA InvHolds == Spec => []Inv
BY InitInv, NextInv, PTL DEF Spec

-----------------------------------------------------------------------------
\* Every variable always has its type.
THEOREM TypesHold == Spec => []TypeOK
BY InvHolds, PTL DEF Inv

\* A conclusive assessment is always that of a worker which ran to its end and
\* whose own verdict decides the criterion that was asked for.
THEOREM ConclusionsHold == Spec => []ConclusionIsTheWorkers
BY InvHolds, PTL DEF Inv

\* A worker that was signalled is always reported as stopped at the deadline.
THEOREM ForceIsReported == Spec => []ForcedMeansBlocked
BY InvHolds, PTL DEF Inv

\* However a call ends it leaves no endpoint open, and no worker that was not
\* sent SIGKILL and reported unreaped.
THEOREM NothingIsLeft == Spec => []NothingLeftBehind
<1>1. Inv => NothingLeftBehind
  BY DEF Inv, TypeOK, WorkerTypeOK, Stages, Supervised, ParentInv, Informed, Tidy,
         NothingLeftBehind, Alive
<1>2. QED
  BY <1>1, InvHolds, PTL

\* The parent uses force only past the deadline, on a living worker, and SIGKILL
\* only after SIGTERM.
THEOREM ForceIsJustified == Spec => ForceIsLastResort
<1>1. Inv /\ [Next]_vars =>
        [signalled' # signalled =>
           /\ expired /\ Alive
           /\ signalled' = "kill" => signalled = "terminate"]_vars
  <2> SUFFICES ASSUME Inv, [Next]_vars, signalled' # signalled
               PROVE  /\ expired /\ Alive
                      /\ signalled' = "kill" => signalled = "terminate"
    OBVIOUS
  <2>1. Escalate("stop", "grace", "terminate") \/ Escalate("grace", "killed", "kill")
    BY DEF Next, QcecWorker, WorkerStep, SendStarted, SendAnswer, BeginAnswer, FinishAnswer,
           CloseConnection, Die, Exit, TimePasses, Tick, RunIsolated, StartFails, StartWorker,
           ReadClock, PollNothing, Receive, EndOfFile, BrokenMessage, CheckAlive, Join,
           CloseReceiving, TerminateAndReap, GraceOver, Reap, Assess, Over, vars, workerVars
  <2>2. QED
    BY <2>1 DEF Escalate, Inv, Supervised, ParentInv, Patient
<1>2. QED
  BY <1>1, InvHolds, PTL DEF Spec, ForceIsLastResort

-----------------------------------------------------------------------------
(* The call implements an isolated check: answering forms the opinion,     *)
(* assessing concludes, and every other step is invisible to the caller.   *)

LEMMA CheckInit == Init => Check!Init
BY DEF Init, WorkerInit, Check!Init, Opinion

LEMMA CheckNext == Inv /\ [Next]_vars => [Check!Next]_<<Opinion, outcome>>
<1> SUFFICES ASSUME Inv, [Next]_vars PROVE [Check!Next]_<<Opinion, outcome>>
  OBVIOUS
<1> DEFINE Outcomes == {Verdict("PASS", "ESTABLISHED"), Verdict("FAIL", "REFUTED")} \cup Fallbacks
<1>1. CASE QcecWorker
  <2>1. UNCHANGED <<request, outcome>>
    BY <1>1 DEF QcecWorker
  <2>2. CASE answer' = answer
    BY <2>1, <2>2 DEF Opinion, Judged
  <2>3. CASE answer' # answer
    <3>1. answer = NoAnswer /\ answer' \in QcecAnswers
      BY <1>1, <2>3, AnswersAreNotMarkers
         DEF QcecWorker, WorkerStep, SendStarted, SendAnswer, BeginAnswer, FinishAnswer,
             CloseConnection, Die, Exit, Inv, Supervised, WorkerInv
    <3>2. Opinion = NoOutcome /\ Opinion' = Judged(answer')
      BY <2>1, <3>1, AnswersAreNotMarkers DEF Opinion, Judged
    <3>3. Judged(answer') \in Outcomes
      BY JudgedIsAnOutcome
    <3>4. QED
      BY <2>1, <3>2, <3>3 DEF Check!Next, Check!FormOpinion
  <2>4. QED
    BY <2>2, <2>3
<1>2. CASE Assess
  <2>1. UNCHANGED <<answer, request>> /\ outcome' = Assessed(ExecutionReason) /\ outcome = NoOutcome
    BY <1>2 DEF Assess, workerVars, Inv
  <2>2. Opinion' = Opinion
    BY <2>1 DEF Opinion, Judged
  <2>3. response \in {NoAnswer, answer}
    BY DEF Inv, Supervised, ParentInv, Informed
  <2>4. outcome' \in Fallbacks \cup ({Opinion} \ {NoOutcome})
    <3>1. CASE response = NoAnswer
      BY <2>1, <3>1, AssessedIsAnOutcome
    <3>2. CASE response # NoAnswer
      <4>1. Opinion = Judged(response)
        BY <2>3, <3>2 DEF Opinion
      <4>2. Judged(response) # NoOutcome
        BY JudgedIsAnOutcome, OutcomesAreTyped
      <4>3. QED
        BY <2>1, <4>1, <4>2, AssessedIsAnOutcome
    <3>3. QED
      BY <3>1, <3>2
  <2>5. QED
    BY <2>1, <2>2, <2>4 DEF Check!Next, Check!Conclude
<1>3. CASE TimePasses \/ RunIsolated
  <2>1. UNCHANGED <<answer, request, outcome>>
    BY <1>3 DEF RunIsolated, TimePasses, Tick, StartFails, StartWorker, ReadClock, PollNothing,
         Receive, EndOfFile, BrokenMessage, CheckAlive, Join, CloseReceiving,
         TerminateAndReap, Escalate, GraceOver, Reap, workerVars
  <2>2. QED
    BY <2>1 DEF Opinion, Judged
<1>4. CASE UNCHANGED vars
  BY <1>4 DEF vars, workerVars, Opinion, Judged
<1>5. QED
  BY <1>1, <1>2, <1>3, <1>4 DEF Next, Over

\* Whatever happens to the worker, the caller gets at most one outcome, and a
\* conclusive one only when it is the worker's own opinion.
THEOREM CallIsAnIsolatedCheck == Spec => CheckSpec
BY CheckInit, CheckNext, InvHolds, PTL DEF Spec, CheckSpec, Check!Spec
=============================================================================
