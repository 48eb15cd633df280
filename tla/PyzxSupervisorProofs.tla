------------------------ MODULE PyzxSupervisorProofs ------------------------
(***************************************************************************)
(* Proofs about PyzxSupervisor: its types, and that the assessment is the  *)
(* worker's answer, both ways.                                             *)
(***************************************************************************)
EXTENDS PyzxSupervisor, WorkerProofs

\* An answer written in time is in the pipe or with the parent; with the parent,
\* once it has left the loop and drained what a dead worker wrote.
Delivered ==
  /\ stage \notin {"closed", "dead"} => exitcode = "running"
  /\ (stage = "answered" \/ exitcode = "zero") /\ ~timedOut => response = answer \/ InPipe(answer)
  /\ pc \in {"close", "reap", "assess", "done"} /\ started /\ ~timedOut /\ exitcode = "zero" =>
       response = answer

\* Only an admitted pair is given to a worker.
AdmittedFirst == started => AdmissionErrors = {}

\* The inductive invariant.
Inv ==
  /\ Supervised(PyzxAnswers)
  /\ TypeOK
  /\ Listening
  /\ Delivered
  /\ AdmittedFirst
  /\ outcome = NoOutcome <=> pc # "done"
  /\ AssessmentIsTheAnswer

-----------------------------------------------------------------------------
\* No answer of the worker is one of the supervisor's own markers.
LEMMA AnswersAreNotMarkers ==
  Started \notin PyzxAnswers /\ NoAnswer \notin PyzxAnswers
BY DEF Started, NoAnswer, PyzxAnswers, Results, Failures

\* A pair without errors is two admitted circuits of one width.
LEMMA AdmittedPair ==
  ASSUME request \in Requests, AdmissionErrors = {}
  PROVE  {request.left, request.right} = {"ok"} /\ request.sameWidth
BY DEF AdmissionErrors, Requests

\* Only a verified result passes.
LEMMA JudgedVerified ==
  ASSUME NEW r \in PyzxAnswers, Judged(r).status = "PASS"
  PROVE  r = [kind |-> "result", verified |-> TRUE]
<1>1. r.kind = "result" /\ r.verified
  BY DEF Judged, Inconclusive, Established
<1>2. r \in Results
  BY <1>1 DEF PyzxAnswers, Failures
<1>3. QED
  BY <1>1, <1>2 DEF Results

\* Every assessment of an execution is typed, and is not the absence of one.
LEMMA AssessedIsTyped ==
  /\ Assessed(ExecutionReason) \in [status : Statuses, conclusion : {"ESTABLISHED", "INCONCLUSIVE"}]
  /\ Assessed(ExecutionReason) # NoOutcome
BY DEF Assessed, Judged, Inconclusive, Established, Statuses, NoOutcome

\* Only an execution that ended by itself, in time, and left a response is passed.
LEMMA PassingExecution ==
  ASSUME Assessed(ExecutionReason).status = "PASS"
  PROVE  /\ started /\ ~timedOut /\ reaped /\ exitcode \notin {"signal", "error"}
         /\ response # NoAnswer
         /\ Assessed(ExecutionReason) = Judged(response)
BY DEF Assessed, ExecutionReason, ExecutionFailures, Inconclusive

-----------------------------------------------------------------------------
(* Supervision.                                                            *)

\* A worker that finds its parent gone answers without being heard.
LEMMA AnnounceKeeps ==
  ASSUME Supervised(PyzxAnswers), AnnounceFails, UNCHANGED parentVars
  PROVE  Supervised(PyzxAnswers)'
<1>1. answer = NoAnswer /\ answer' \in PyzxAnswers /\ answer' # NoAnswer /\ pipe' = pipe
  BY AnswersAreNotMarkers
     DEF AnnounceFails, Supervised, WorkerInv, PyzxAnswers, Failures, NoAnswer
<1>2. Sent \subseteq Sent'
  BY <1>1 DEF Sent
<1>3. pipe' \in Seq(Sent')
  BY <1>1, <1>2, SeqMonotone DEF Supervised, WorkerInv
<1>4. WorkerInv(PyzxAnswers)'
  BY <1>1, <1>3 DEF AnnounceFails, Supervised, WorkerInv, WorkerTypeOK, Stages
<1>5. ParentInv(PyzxAnswers)'
  BY <1>1 DEF AnnounceFails, parentVars, Supervised, ParentInv, ParentTypeOK, Informed, Patient,
              Tidy, Alive
<1>6. QED
  BY <1>4, <1>5 DEF Supervised

LEMMA RejectKeeps ==
  ASSUME Supervised(PyzxAnswers), Reject
  PROVE  Supervised(PyzxAnswers)'
<1>1. WorkerInv(PyzxAnswers)'
  BY SameWorkerInv DEF Reject, Supervised, WorkerInv, WorkerTypeOK
<1>2. ParentInv(PyzxAnswers)'
  BY DEF Reject, Supervised, ParentInv, ParentTypeOK, ParentPoints, Informed, Patient, Tidy, Alive
<1>3. QED
  BY <1>1, <1>2 DEF Supervised

LEMMA NextSupervised ==
  ASSUME Supervised(PyzxAnswers), [Next]_vars
  PROVE  Supervised(PyzxAnswers)'
<1>1. CASE PyzxWorker /\ ~AnnounceFails
  <2>1. WorkerStep(PyzxAnswers, {}) /\ UNCHANGED parentVars
    BY <1>1 DEF PyzxWorker, WorkerStep
  <2>2. WorkerInv(PyzxAnswers)'
    BY <2>1, WorkerKeepsInv, AnswersAreNotMarkers DEF Supervised
  <2>3. QED
    BY <2>1, <2>2, WorkerKeepsParent
<1>2. CASE PyzxWorker /\ AnnounceFails
  BY <1>2, AnnounceKeeps DEF PyzxWorker
<1>3. CASE TimePasses \/ Run
  <2>1. ParentStep
    BY <1>3 DEF TimePasses, Run, ParentStep
  <2>2. QED
    BY <2>1, ParentKeepsInv
<1>4. CASE Reject
  BY <1>4, RejectKeeps
<1>5. CASE Assess
  BY <1>5, EndKeepsInv DEF Assess
<1>6. CASE UNCHANGED vars
  BY <1>6, AbsorbStutter DEF vars
<1>7. QED
  BY <1>1, <1>2, <1>3, <1>4, <1>5, <1>6 DEF Next, Over

-----------------------------------------------------------------------------
(* Delivery.                                                               *)

\* A parent that has not timed out has a living worker only while it listens.
LEMMA HeardWhileAlive ==
  ASSUME Supervised(PyzxAnswers), Listening, Alive, ~timedOut, pc # "raised"
  PROVE  "receiving" \in handles
BY DEF Supervised, ParentInv, ParentTypeOK, ParentPoints, Informed, Patient, Tidy, Listening, Alive

\* The worker's steps keep it: a parent that has not timed out hears the answer.
LEMMA WorkerDelivers ==
  ASSUME Supervised(PyzxAnswers), Listening, Delivered, PyzxWorker
  PROVE  Listening' /\ Delivered'
<1>0. /\ pipe \in Seq(PyzxAnswers \cup {Started}) /\ answer \in PyzxAnswers \cup {NoAnswer}
      /\ UNCHANGED <<handles, pc, response, timedOut, reaped, started>>
      /\ pc \in {"close", "reap", "assess", "done"} /\ started /\ ~timedOut => stage = "dead"
      /\ stage \notin {"unborn", "dead"} => started
  BY DEF Supervised, WorkerInv, WorkerTypeOK, ParentInv, ParentTypeOK, ParentPoints, Informed,
         Tidy, Alive, PyzxWorker, SendStarted, AnnounceFails, SendAnswer, CloseConnection, Die,
         Exit, parentVars
<1>1. Listening'
  BY <1>0 DEF Listening
<1>2. stage # "dead"
  BY DEF PyzxWorker, SendStarted, AnnounceFails, SendAnswer, CloseConnection, Die, Exit
<1>3. CASE SendStarted
  BY <1>0, <1>1, <1>2, <1>3 DEF SendStarted, Delivered
<1>4. CASE AnnounceFails
  <2>1. timedOut
    <3>1. pc # "raised" /\ Alive
      BY <1>4 DEF AnnounceFails, Alive, Supervised, ParentInv, Tidy
    <3>2. QED
      BY <1>4, <3>1, HeardWhileAlive DEF AnnounceFails
  <2>2. QED
    BY <1>0, <1>1, <1>2, <1>4, <2>1 DEF AnnounceFails, Delivered
<1>5. CASE SendAnswer(PyzxAnswers)
  <2>1. CASE timedOut
    BY <1>0, <1>1, <1>2, <1>5, <2>1 DEF SendAnswer, Delivered
  <2>2. CASE ~timedOut
    <3>1. "receiving" \in handles
      <4>1. pc # "raised" /\ Alive
        BY <1>5 DEF SendAnswer, Alive, Supervised, ParentInv, Tidy
      <4>2. QED
        BY <2>2, <4>1, HeardWhileAlive
    <3>2. InPipe(answer)'
      <4>1. answer' \in PyzxAnswers \cup {Started} /\ Write(answer')
        BY <1>5 DEF SendAnswer
      <4>2. \E i \in 1 .. Len(pipe') : pipe'[i] = answer'
        BY <1>0, <3>1, <4>1, WrittenIsInPipe
      <4>3. QED
        BY <4>2 DEF InPipe
    <3>3. QED
      BY <1>0, <1>1, <1>2, <1>5, <3>2 DEF SendAnswer, Delivered
  <2>3. QED
    BY <2>1, <2>2
<1>6. CASE CloseConnection \/ Exit \/ \E code \in {"error", "signal"} : Die(code)
  <2>1. UNCHANGED <<pipe, answer>>
    BY <1>6 DEF CloseConnection, Exit, Die
  <2>2. InPipe(answer) => InPipe(answer)'
    BY <2>1 DEF InPipe
  <2>3. CASE CloseConnection
    BY <1>0, <1>1, <1>2, <2>1, <2>2, <2>3 DEF CloseConnection, Delivered
  <2>4. CASE Exit
    BY <1>0, <1>1, <1>2, <2>1, <2>2, <2>4 DEF Exit, Delivered
  <2>5. CASE \E code \in {"error", "signal"} : Die(code)
    BY <1>0, <1>1, <1>2, <2>1, <2>2, <2>5 DEF Die, Delivered
  <2>6. QED
    BY <1>6, <2>3, <2>4, <2>5
<1>7. QED
  BY <1>1, <1>3, <1>4, <1>5, <1>6 DEF PyzxWorker

\* The parent's steps keep it: it lets go of the pipe only when it is drained.
LEMMA ParentDelivers ==
  ASSUME Supervised(PyzxAnswers), Listening, Delivered, TimePasses \/ Run
  PROVE  Listening' /\ Delivered'
<1>0. /\ pipe \in Seq(PyzxAnswers \cup {Started})
      /\ UNCHANGED <<stage, answer, exitcode>> \/ StartWorker
      /\ pc \in ParentPoints /\ timedOut \in BOOLEAN
  BY DEF Supervised, WorkerInv, WorkerTypeOK, ParentInv, ParentTypeOK, TimePasses, Tick, Run,
         StartFails, ReadClock, PollNothing, Receive, EndOfFile, CheckAlive, Join,
         CloseReceiving, TerminateAndReap, Escalate, GraceOver, Reap, workerVars
<1>1. CASE Receive("poll", "check") \/ Receive("drain", "drain")
  <2>1. /\ pipe # <<>> /\ pipe' = Tail(pipe)
        /\ UNCHANGED <<stage, answer, exitcode, handles, timedOut, started>>
        /\ pc' \in {"check", "drain"} /\ pc \in {"poll", "drain"}
    BY <1>1 DEF Receive
  <2>2. response = answer \/ InPipe(answer) => response' = answer' \/ InPipe(answer)'
    BY <1>1, AnswersAreNotMarkers, NothingIsLostByReceiving
  <2>3. QED
    BY <2>1, <2>2 DEF Listening, Delivered
<1>2. CASE ~(Receive("poll", "check") \/ Receive("drain", "drain"))
  <2>1. UNCHANGED <<pipe, response, answer>>
    BY <1>2 DEF TimePasses, Tick, Run, StartFails, StartWorker, ReadClock, PollNothing,
         EndOfFile, CheckAlive, Join, CloseReceiving, TerminateAndReap, Escalate,
         GraceOver, Reap, workerVars
  <2>2. InPipe(answer) => InPipe(answer)'
    BY <2>1 DEF InPipe
  <2>3. CASE EndOfFile("drain", "close")
    <3>1. pipe = <<>> /\ pc' = "close" /\ UNCHANGED <<stage, exitcode, handles, timedOut, started>>
      BY <2>3 DEF EndOfFile, workerVars
    <3>2. ~InPipe(answer)
      BY <3>1, EmptyPipe
    <3>3. pc = "drain"
      BY <2>3 DEF EndOfFile
    <3>4. QED
      BY <2>1, <3>1, <3>2, <3>3 DEF Listening, Delivered
  <2>4. CASE StartFails \/ StartWorker
    BY <2>1, <2>2, <2>4 DEF StartFails, StartWorker, Listening, Delivered, Supervised, WorkerInv,
                            ParentInv, Informed, Patient, Alive
  <2>5. CASE TimePasses \/ ReadClock \/ PollNothing \/ EndOfFile("poll", "leave")
             \/ CheckAlive("leave") \/ Join("drain")
    BY <2>1, <2>2, <2>5
       DEF TimePasses, Tick, ReadClock, PollNothing, EndOfFile, CheckAlive, Join, workerVars,
           Listening, Delivered, Supervised, ParentInv, Patient
  <2>6. CASE CloseReceiving \/ TerminateAndReap \/ Reap
    BY <2>1, <2>2, <2>6
       DEF CloseReceiving, TerminateAndReap, Escalate, GraceOver, Reap, workerVars,
           Listening, Delivered, Supervised, ParentInv, Patient
  <2>7. QED
    BY <1>2, <2>3, <2>4, <2>5, <2>6 DEF Run
<1>3. QED
  BY <1>1, <1>2

\* The steps that end the call touch neither the pipe nor the response.
LEMMA EndDelivers ==
  ASSUME Supervised(PyzxAnswers), Listening, Delivered, Reject \/ Assess \/ UNCHANGED vars
  PROVE  Listening' /\ Delivered'
<1>1. /\ UNCHANGED <<stage, exitcode, answer, pipe, response, timedOut, started>>
      /\ pc' = "done" \/ UNCHANGED <<pc, handles>>
      /\ pc' = "done" => pc \in {"assess", "done"} \/ ~started
  BY DEF Reject, Assess, vars, workerVars, parentVars, Supervised, ParentInv, Informed
<1>2. InPipe(answer)' <=> InPipe(answer)
  BY <1>1 DEF InPipe
<1>3. QED
  BY <1>1, <1>2 DEF Listening, Delivered

-----------------------------------------------------------------------------
LEMMA InitInv == Init => Inv
<1> SUFFICES ASSUME Init PROVE Inv
  OBVIOUS
<1>1. Supervised(PyzxAnswers)
  BY SupervisedInit DEF Init
<1>2. TypeOK
  BY <1>1 DEF TypeOK, Init, Supervised, WorkerInv, ParentInv
<1>3. Listening /\ Delivered /\ AdmittedFirst
  BY DEF Init, WorkerInit, ParentInit, Listening, Delivered, AdmittedFirst
<1>4. AssessmentIsTheAnswer /\ (outcome = NoOutcome <=> pc # "done")
  BY DEF Init, ParentInit, NoOutcome, AssessmentIsTheAnswer
<1>5. QED
  BY <1>1, <1>2, <1>3, <1>4 DEF Inv

LEMMA NextInv == Inv /\ [Next]_vars => Inv'
<1> SUFFICES ASSUME Inv, [Next]_vars PROVE Inv'
  OBVIOUS
<1>1. Supervised(PyzxAnswers)'
  BY NextSupervised DEF Inv
<1>2. Listening' /\ Delivered'
  BY WorkerDelivers, ParentDelivers, EndDelivers DEF Inv, Next, Over
<1>3. request' = request /\ request \in Requests
  BY DEF Inv, TypeOK, Next, PyzxWorker, TimePasses, Reject, Run, Assess, Over, vars
<1>4. AdmittedFirst'
  <2>1. AdmissionErrors' = AdmissionErrors
    BY <1>3 DEF AdmissionErrors
  <2>2. started' = started \/ AdmissionErrors = {}
    BY DEF Next, PyzxWorker, TimePasses, Tick, Reject, Run, StartFails, StartWorker, ReadClock,
           PollNothing, Receive, EndOfFile, CheckAlive, Join, CloseReceiving, TerminateAndReap,
           Escalate, GraceOver, Reap, Assess, Over, vars, parentVars
  <2>3. QED
    BY <2>1, <2>2 DEF Inv, AdmittedFirst
<1>5. CASE Assess
  <2>1. /\ outcome' = Assessed(ExecutionReason) /\ memory' = MemoryReported
        /\ pc = "assess" /\ pc' = "done"
        /\ UNCHANGED <<stage, limit, answer, exitcode, signalled, response, timedOut, reaped,
                       started, expired>>
    BY <1>5 DEF Assess, workerVars
  <2>2. /\ started => stage # "unborn"
        /\ reaped => stage \in {"unborn", "dead"}
        /\ stage = "dead" => exitcode \in {"zero", "error", "signal"}
        /\ signalled # "none" => timedOut
        /\ response \in {NoAnswer, answer} /\ answer \in PyzxAnswers \cup {NoAnswer}
    BY DEF Inv, Supervised, WorkerInv, WorkerTypeOK, ParentInv, Informed, Patient, Alive
  <2>3. TypeOK' /\ outcome' # NoOutcome
    <3>1. memory' \in {"pending", "unset", "enforced", "unenforced", "unreported"}
      BY <2>1 DEF MemoryReported, Inv, TypeOK, WorkerTypeOK
    <3>2. QED
      BY <1>1, <1>3, <2>1, <3>1, AssessedIsTyped DEF TypeOK, Supervised, WorkerInv, ParentInv
  <2>4. AssessmentIsTheAnswer'
    <3>1. ASSUME outcome'.status = "PASS"
          PROVE  /\ {request.left, request.right} = {"ok"} /\ request.sameWidth
                 /\ answer = [kind |-> "result", verified |-> TRUE]
                 /\ stage = "dead" /\ exitcode = "zero" /\ signalled = "none"
                 /\ memory' = limit
      <4>1. /\ started /\ ~timedOut /\ reaped /\ exitcode \notin {"signal", "error"}
            /\ response # NoAnswer /\ outcome' = Judged(response)
        BY <2>1, <3>1, PassingExecution
      <4>2. {request.left, request.right} = {"ok"} /\ request.sameWidth
        BY <1>3, <4>1, AdmittedPair DEF Inv, AdmittedFirst
      <4>3. response = answer /\ answer \in PyzxAnswers
        BY <2>2, <4>1
      <4>4. answer = [kind |-> "result", verified |-> TRUE]
        BY <3>1, <4>1, <4>3, JudgedVerified
      <4>5. memory' = limit
        BY <2>1, <4>1 DEF MemoryReported
      <4>6. QED
        BY <2>2, <4>1, <4>2, <4>4, <4>5
    <3>2. QED
      BY <1>2, <1>3, <2>1, <3>1 DEF AssessmentIsTheAnswer, Delivered
  <2>5. QED
    BY <1>1, <1>2, <1>4, <2>1, <2>3, <2>4 DEF Inv
<1>6. CASE Reject
  <2>1. /\ outcome' \in {Inconclusive("BLOCKED"), Inconclusive("UNSUPPORTED")}
        /\ memory' = "unreported" /\ pc' = "done" /\ started' = started /\ ~started
    BY <1>6 DEF Reject, Inv, Supervised, ParentInv, Informed
  <2>2. TypeOK' /\ outcome' # NoOutcome /\ outcome'.status # "PASS"
    BY <1>1, <1>3, <2>1 DEF TypeOK, Supervised, WorkerInv, ParentInv, Inconclusive, Statuses, NoOutcome
  <2>3. QED
    BY <1>1, <1>2, <1>4, <2>1, <2>2 DEF Inv, AssessmentIsTheAnswer
<1>7. CASE ~Assess /\ ~Reject
  <2>1. UNCHANGED <<outcome, memory>> /\ (pc' = "done" <=> pc = "done")
    BY <1>7 DEF Next, PyzxWorker, TimePasses, Tick, Run, StartFails, StartWorker, ReadClock,
           PollNothing, Receive, EndOfFile, CheckAlive, Join, CloseReceiving, TerminateAndReap,
           Escalate, GraceOver, Reap, Over, vars, parentVars
  <2>2. TypeOK'
    BY <1>1, <1>3, <2>1 DEF Inv, TypeOK, Supervised, WorkerInv, ParentInv
  <2>3. outcome.status = "PASS" => UNCHANGED <<stage, exitcode, answer, signalled, limit>>
    <3>1. outcome.status = "PASS" => pc = "done" /\ stage = "dead"
      BY DEF Inv, AssessmentIsTheAnswer, NoOutcome
    <3>2. QED
      BY <1>7, <3>1 DEF Next, PyzxWorker, SendStarted, AnnounceFails, SendAnswer, CloseConnection,
           Die, Exit, TimePasses, Tick, Run, StartFails, StartWorker, ReadClock, PollNothing,
           Receive, EndOfFile, CheckAlive, Join, CloseReceiving, TerminateAndReap, Escalate,
           GraceOver, Reap, Over, vars, workerVars
  <2>4. AssessmentIsTheAnswer'
    BY <1>2, <1>3, <2>1, <2>3 DEF Inv, AssessmentIsTheAnswer, Delivered
  <2>5. QED
    BY <1>1, <1>2, <1>4, <2>1, <2>2, <2>4 DEF Inv
<1>8. QED
  BY <1>5, <1>6, <1>7

LEMMA InvHolds == Spec => []Inv
BY InitInv, NextInv, PTL DEF Spec

-----------------------------------------------------------------------------
\* Every variable of a PyZX call always has its type.
THEOREM PyzxTypesHold == Spec => []TypeOK
BY InvHolds, PTL DEF Inv

\* PyZX passes a pair only on a finished worker's verification of it, and the answer
\* of a worker that ended by itself and in time is never lost.
THEOREM PyzxAnswersCount == Spec => []AssessmentIsTheAnswer
BY InvHolds, PTL DEF Inv
=============================================================================
