------------------------- MODULE NativeReplayProofs -------------------------
(***************************************************************************)
(* Proofs about NativeReplay: its types, that a graph is passed only on a  *)
(* complete replay, and that a timely answer is used.                      *)
(*                                                                         *)
(* A replay left by a broken message is not reaped, so Supervised holds    *)
(* only until the context is there; what is said after that is carried by  *)
(* Delivered.                                                              *)
(***************************************************************************)
EXTENDS NativeReplay, WorkerProofs

\* Unless the deadline has passed, an answer is in the pipe or with the parent once
\* it is written, and the parent leaves the pipe only when it is drained and its
\* writer gone.
Delivered ==
  /\ started <=> stage # "unborn"
  /\ stage \notin {"closed", "dead"} => exitcode = "running"
  /\ torn => exitcode \in {"error", "signal"}
  /\ pc = "raised" => torn
  /\ pc \in {"stop", "grace", "killed"} => expired
  /\ (stage = "answered" \/ exitcode = "zero") /\ ~expired => response = answer \/ InPipe(answer)
  /\ pc \in {"drain", "leave", "close", "reap", "assess", "raised", "done"} /\ started /\ ~expired =>
       stage \in {"closed", "dead"}
  /\ pc \in {"leave", "close", "reap", "assess", "done"} /\ started /\ ~expired /\ exitcode = "zero" =>
       response = answer

\* A worker without an enforced limit has one answer, and it is no replay.
Inside == answer # NoAnswer => (answer.kind = "unsupported_platform" <=> limit # "enforced")

\* Only a graph of the right shape is replayed.
ShapedFirst == started => graph.shape = "ok"

\* The inductive invariant.
Inv ==
  /\ WorkerInv(NativeAnswers)
  /\ pc # "done" => ParentInv(NativeAnswers)
  /\ TypeOK
  /\ Listening
  /\ Delivered
  /\ Inside
  /\ ShapedFirst
  /\ outcome = NoOutcome <=> pc # "done"
  /\ PassIsReplayed

-----------------------------------------------------------------------------
\* No answer of the worker is one of the supervisor's own markers.
LEMMA AnswersAreNotMarkers ==
  Started \notin NativeAnswers /\ NoAnswer \notin NativeAnswers
BY DEF Started, NoAnswer, NativeAnswers, Results, Refusals

\* Only a replay's result has the status PASS, and only a graph that agrees with it
\* is judged so.
LEMMA JudgedReplayed ==
  ASSUME NEW r \in NativeAnswers, Judged(r) = "PASS"
  PROVE  r \in Results /\ r.kind # "unsupported_platform" /\ graph.relations
<1>1. r.status = "PASS" /\ graph.relations
  BY DEF Judged
<1>2. r \in Results
  BY <1>1 DEF NativeAnswers, Refusals
<1>3. QED
  BY <1>1, <1>2 DEF Results

\* The status of an answer is one a context may have.
LEMMA JudgedIsAStatus ==
  ASSUME NEW r \in NativeAnswers
  PROVE  Judged(r) \in Statuses
BY DEF Judged, NativeAnswers, Results, Refusals, Statuses

\* An execution is passed only if it started, ended in time and by itself, was reaped
\* and left a response.
LEMMA PassingExecution ==
  ASSUME Reconstructed(ExecutionReason) = "PASS"
  PROVE  /\ started /\ ~timedOut /\ reaped /\ exitcode \notin {"signal", "error"}
         /\ response # NoAnswer
         /\ Judged(response) = "PASS"
BY DEF Reconstructed, ExecutionReason, ExecutionFailures

LEMMA ReconstructedIsAStatus ==
  ASSUME response \in NativeAnswers \cup {NoAnswer}
  PROVE  Reconstructed(ExecutionReason) \in Statuses
<1>1. Reconstructed(ExecutionReason) \in {"BLOCKED", "NOT_ASSESSED"} \/
      (response # NoAnswer /\ Reconstructed(ExecutionReason) = Judged(response))
  BY DEF Reconstructed, ExecutionReason, ExecutionFailures
<1>2. QED
  BY <1>1, JudgedIsAStatus DEF Statuses

-----------------------------------------------------------------------------
(* Supervision, as long as the parent is at it.                            *)

LEMMA NextSupervised ==
  ASSUME Inv, [Next]_vars
  PROVE  WorkerInv(NativeAnswers)' /\ (pc' # "done" => ParentInv(NativeAnswers)')
<1>1. CASE NativeReplayWorker
  <2>1. WorkerStep(Possible(NativeAnswers), Possible(Results)) /\ UNCHANGED parentVars
    BY <1>1 DEF NativeReplayWorker
  <2>2. Possible(NativeAnswers) \subseteq NativeAnswers /\ Possible(Results) \subseteq NativeAnswers
    BY DEF Possible, NativeAnswers
  <2>3. WorkerInv(NativeAnswers)'
    BY <2>1, <2>2, WorkerKeepsInv, AnswersAreNotMarkers DEF Inv
  <2>4. ASSUME pc # "done" PROVE ParentInv(NativeAnswers)'
    BY <2>1, <2>3, <2>4, WorkerKeepsParent DEF Inv, Supervised
  <2>5. QED
    BY <2>1, <2>3, <2>4 DEF parentVars
<1>2. CASE TimePasses \/ RunIsolated
  <2>1. ParentStep
    BY <1>2 DEF TimePasses, RunIsolated, ParentStep
  <2>2. pc # "done"
    BY <1>2 DEF RunIsolated, TimePasses, Tick, StartFails, StartWorker, ReadClock, PollNothing,
         Receive, EndOfFile, BrokenMessage, CheckAlive, Join, CloseReceiving, TerminateAndReap,
         Escalate, GraceOver, Reap
  <2>3. QED
    BY <2>1, <2>2, ParentKeepsInv DEF Inv, Supervised
<1>3. CASE Refuse \/ Reconstruct
  <2>1. WorkerInv(NativeAnswers)'
    BY <1>3, SameWorkerInv DEF Refuse, Reconstruct, workerVars, Inv, WorkerInv, WorkerTypeOK
  <2>2. QED
    BY <1>3, <2>1 DEF Refuse, Reconstruct
<1>4. CASE UNCHANGED vars
  <2>1. WorkerInv(NativeAnswers)'
    BY <1>4, SameWorkerInv DEF vars, workerVars, Inv, WorkerInv, WorkerTypeOK
  <2>2. ASSUME pc # "done" PROVE ParentInv(NativeAnswers)'
    BY <1>4, <2>2, AbsorbStutter DEF Inv, Supervised, vars
  <2>3. QED
    BY <1>4, <2>1, <2>2 DEF vars, parentVars
<1>5. QED
  BY <1>1, <1>2, <1>3, <1>4 DEF Next, Over

-----------------------------------------------------------------------------
(* Delivery.                                                               *)

LEMMA WorkerDelivers ==
  ASSUME Inv, NativeReplayWorker
  PROVE  Listening' /\ Delivered'
<1>0. /\ pipe \in Seq(NativeAnswers \cup {Started})
      /\ WorkerStep(Possible(NativeAnswers), Possible(Results))
      /\ UNCHANGED <<handles, pc, expired, response, started>>
      /\ stage \notin {"unborn", "dead"} /\ stage' # "unborn"
      /\ pc \in ParentPoints
  BY DEF Inv, TypeOK, WorkerTypeOK, ParentTypeOK, NativeReplayWorker, parentVars, WorkerStep,
         SendStarted, SendAnswer, BeginAnswer, FinishAnswer, CloseConnection, Die, Exit
<1>1. Listening' /\ Listening /\ Delivered
  BY <1>0 DEF Listening, Inv
<1>2. ASSUME stage \notin {"closed", "dead"}, ~expired
      PROVE  "receiving" \in handles
  BY <1>0, <1>1, <1>2 DEF Delivered, Listening, ParentPoints, Inv, ParentInv, Informed
<1>3. CASE SendStarted \/ BeginAnswer(Possible(Results))
  BY <1>0, <1>1, <1>3 DEF SendStarted, BeginAnswer, Delivered
<1>4. ASSUME \/ SendAnswer(Possible(NativeAnswers))
             \/ FinishAnswer
      PROVE  Delivered'
  <2>1. /\ stage \in {"running", "answering"} /\ stage' = "answered"
        /\ UNCHANGED <<exitcode, torn>>
        /\ Write(answer') /\ answer' \in NativeAnswers \cup {Started}
    <3>1. CASE SendAnswer(Possible(NativeAnswers))
      BY <3>1 DEF SendAnswer, Possible
    <3>2. CASE FinishAnswer
      BY <3>2 DEF FinishAnswer, Inv, WorkerInv, WorkerTypeOK
    <3>3. QED
      BY <1>4, <3>1, <3>2
  <2>2. ~expired => InPipe(answer)'
    <3>1. ASSUME ~expired PROVE \E i \in 1 .. Len(pipe') : pipe'[i] = answer'
      BY <1>0, <1>2, <2>1, <3>1, WrittenIsInPipe
    <3>2. QED
      BY <3>1 DEF InPipe
  <2>3. QED
    BY <1>0, <1>1, <2>1, <2>2 DEF Delivered
<1>5. ASSUME CloseConnection \/ Exit \/ \E code \in {"error", "signal"} : Die(code)
      PROVE  Delivered'
  <2>1. UNCHANGED <<pipe, answer>>
    BY <1>5 DEF CloseConnection, Exit, Die
  <2>2. InPipe(answer) => InPipe(answer)'
    BY <2>1 DEF InPipe
  <2>3. CASE CloseConnection
    BY <1>0, <1>1, <2>1, <2>2, <2>3 DEF CloseConnection, Delivered
  <2>4. CASE Exit
    BY <1>0, <1>1, <2>1, <2>2, <2>4 DEF Exit, Delivered
  <2>5. CASE \E code \in {"error", "signal"} : Die(code)
    BY <1>0, <1>1, <2>1, <2>2, <2>5 DEF Die, Delivered
  <2>6. QED
    BY <1>5, <2>3, <2>4, <2>5
<1>6. QED
  BY <1>0, <1>1, <1>3, <1>4, <1>5 DEF WorkerStep

LEMMA ParentDelivers ==
  ASSUME Inv, TimePasses \/ RunIsolated
  PROVE  Listening' /\ Delivered'
<1>0. /\ UNCHANGED <<stage, answer, exitcode, torn>> \/ StartWorker
      /\ pc \in ParentPoints /\ expired \in BOOLEAN /\ Listening /\ Delivered
      /\ pc # "done" => Supervised(NativeAnswers)
  BY DEF Inv, Supervised, WorkerInv, TypeOK, WorkerTypeOK, ParentTypeOK, TimePasses, Tick,
         RunIsolated, StartFails, ReadClock, PollNothing, Receive, EndOfFile, BrokenMessage,
         CheckAlive, Join, CloseReceiving, TerminateAndReap, Escalate, GraceOver, Reap, workerVars
<1>1. ASSUME Receive("poll", "check") \/ Receive("drain", "drain")
      PROVE  Listening' /\ Delivered'
  <2>1. /\ UNCHANGED <<stage, exitcode, torn, handles, expired, started>>
        /\ (pc = "poll" /\ pc' = "check") \/ (pc = "drain" /\ pc' = "drain")
    BY <1>1 DEF Receive
  <2>2. response = answer \/ InPipe(answer) => response' = answer' \/ InPipe(answer)'
    BY <1>0, <1>1, <2>1, AnswersAreNotMarkers, NothingIsLostByReceiving
  <2>3. QED
    BY <1>0, <2>1, <2>2 DEF Listening, Delivered
<1>2. ASSUME ~(Receive("poll", "check") \/ Receive("drain", "drain"))
      PROVE  Listening' /\ Delivered'
  <2>1. UNCHANGED <<pipe, response, answer>>
    BY <1>2 DEF TimePasses, Tick, RunIsolated, StartFails, StartWorker, ReadClock, PollNothing,
         EndOfFile, BrokenMessage, CheckAlive, Join, CloseReceiving, TerminateAndReap, Escalate,
         GraceOver, Reap, workerVars
  <2>2. InPipe(answer) => InPipe(answer)'
    BY <2>1 DEF InPipe
  <2>3. CASE EndOfFile("poll", "leave") \/ EndOfFile("drain", "leave")
    <3>1. /\ pipe = <<>> /\ pc \in {"poll", "drain"} /\ pc' = "leave"
          /\ stage \in {"closed", "dead"}
          /\ UNCHANGED <<stage, exitcode, torn, handles, expired, started>>
      BY <2>3 DEF EndOfFile, WriterGone, workerVars
    <3>2. ~InPipe(answer)
      BY <3>1, EmptyPipe
    <3>3. QED
      BY <1>0, <2>1, <3>1, <3>2 DEF Listening, Delivered
  <2>4. CASE \E from \in {"poll", "drain"} : BrokenMessage(from)
    BY <1>0, <2>1, <2>2, <2>4 DEF BrokenMessage, WriterGone, Listening, Delivered
  <2>5. CASE StartFails \/ StartWorker
    BY <1>0, <2>1, <2>2, <2>5 DEF StartFails, StartWorker, Listening, Delivered, Supervised,
                            WorkerInv, ParentInv, Informed, Alive
  <2>6. CASE TimePasses \/ ReadClock \/ PollNothing \/ CheckAlive("drain") \/ Join("close")
    BY <1>0, <2>1, <2>2, <2>6
       DEF TimePasses, Tick, ReadClock, PollNothing, CheckAlive, Join, workerVars,
           Listening, Delivered, Alive
  <2>7. CASE CloseReceiving \/ TerminateAndReap \/ Reap
    BY <1>0, <2>1, <2>2, <2>7
       DEF CloseReceiving, TerminateAndReap, Escalate, GraceOver, Reap, workerVars,
           Listening, Delivered, Supervised, ParentInv, Patient
  <2>8. QED
    BY <1>2, <2>3, <2>4, <2>5, <2>6, <2>7 DEF RunIsolated
<1>3. QED
  BY <1>1, <1>2

LEMMA EndDelivers ==
  ASSUME Inv, Refuse \/ Reconstruct \/ UNCHANGED vars
  PROVE  Listening' /\ Delivered'
<1>1. /\ UNCHANGED <<stage, exitcode, answer, pipe, torn, response, expired, started>>
      /\ pc' = "done" \/ UNCHANGED <<pc, handles>>
      /\ pc' = "done" => pc \in {"assess", "raised", "done"} \/ ~started
  BY DEF Refuse, Reconstruct, vars, workerVars, parentVars, Inv, Delivered, ParentInv, Informed
<1>2. InPipe(answer)' <=> InPipe(answer)
  BY <1>1 DEF InPipe
<1>3. QED
  BY <1>1, <1>2 DEF Inv, Listening, Delivered

-----------------------------------------------------------------------------
LEMMA InitInv == Init => Inv
<1> SUFFICES ASSUME Init PROVE Inv
  OBVIOUS
<1>1. Supervised(NativeAnswers)
  BY SupervisedInit DEF Init
<1>2. TypeOK
  BY <1>1 DEF TypeOK, Init, Supervised, WorkerInv, ParentInv
<1>3. Listening /\ Delivered /\ Inside /\ ShapedFirst
  BY DEF Init, WorkerInit, ParentInit, Listening, Delivered, Inside, ShapedFirst
<1>4. PassIsReplayed /\ (outcome = NoOutcome <=> pc # "done")
  BY DEF Init, ParentInit, NoOutcome, PassIsReplayed
<1>5. QED
  BY <1>1, <1>2, <1>3, <1>4 DEF Inv, Supervised

\* The limit is applied before the answer is computed, and never changed.
LEMMA InsideKept ==
  ASSUME Inv, [Next]_vars
  PROVE  Inside'
<1>1. CASE NativeReplayWorker
  BY <1>1 DEF NativeReplayWorker, WorkerStep, SendStarted, SendAnswer, BeginAnswer, FinishAnswer,
         CloseConnection, Die, Exit, Inv, WorkerInv, Inside, Possible
<1>2. CASE ~NativeReplayWorker
  <2>1. UNCHANGED <<answer, limit>>
    BY <1>2 DEF Next, TimePasses, Tick, RunIsolated, StartFails, StartWorker, ReadClock,
         PollNothing, Receive, EndOfFile, BrokenMessage, CheckAlive, Join, CloseReceiving,
         TerminateAndReap, Escalate, GraceOver, Reap, Refuse, Reconstruct, Over, vars, workerVars
  <2>2. QED
    BY <2>1 DEF Inv, Inside
<1>3. QED
  BY <1>1, <1>2

LEMMA ShapedFirstKept ==
  ASSUME Inv, [Next]_vars
  PROVE  ShapedFirst' /\ graph' = graph
<1>1. graph' = graph /\ (started' = started \/ graph.shape = "ok")
  BY DEF Next, NativeReplayWorker, TimePasses, Tick, RunIsolated, StartFails, StartWorker,
         ReadClock, PollNothing, Receive, EndOfFile, BrokenMessage, CheckAlive, Join,
         CloseReceiving, TerminateAndReap, Escalate, GraceOver, Reap, Refuse, Reconstruct, Over,
         vars, parentVars
<1>2. QED
  BY <1>1 DEF Inv, ShapedFirst

LEMMA NextInv == Inv /\ [Next]_vars => Inv'
<1> SUFFICES ASSUME Inv, [Next]_vars PROVE Inv'
  OBVIOUS
<1>1. WorkerInv(NativeAnswers)' /\ (pc' # "done" => ParentInv(NativeAnswers)')
  BY NextSupervised
<1>2. Listening' /\ Delivered'
  BY WorkerDelivers, ParentDelivers, EndDelivers DEF Next, Over
<1>3. Inside' /\ ShapedFirst' /\ graph' = graph
  BY InsideKept, ShapedFirstKept
<1>4. WorkerTypeOK(NativeAnswers)' /\ graph' \in Graphs
  BY <1>1, <1>3 DEF WorkerInv, Inv, TypeOK
<1>5. CASE Reconstruct
  <2>1. /\ pc \in {"assess", "raised"} /\ pc' = "done"
        /\ outcome' = IF pc = "raised" THEN "FAIL" ELSE Reconstructed(ExecutionReason)
        /\ UNCHANGED <<stage, limit, answer, exitcode, signalled, expired, startup, response,
                       timedOut, reaped, started>>
    BY <1>5 DEF Reconstruct, workerVars
  <2>2. /\ started => stage # "unborn"
        /\ reaped => stage \in {"unborn", "dead"}
        /\ stage = "dead" => exitcode \in {"zero", "error", "signal"}
        /\ signalled # "none" => timedOut
        /\ response \in {NoAnswer, answer} /\ answer \in NativeAnswers \cup {NoAnswer}
    BY <2>1 DEF Inv, WorkerInv, WorkerTypeOK, ParentInv, Informed, Patient, Alive
  <2>3. outcome' \in Statuses
    BY <2>1, <2>2, ReconstructedIsAStatus DEF Statuses
  <2>4. TypeOK'
    BY <1>4, <2>1, <2>3 DEF TypeOK, Inv, ParentTypeOK, ParentPoints
  <2>5. PassIsReplayed'
    <3> SUFFICES ASSUME outcome' = "PASS"
                 PROVE  /\ graph.shape = "ok" /\ graph.relations
                        /\ limit = "enforced" /\ answer \in Results
                        /\ stage = "dead" /\ exitcode = "zero" /\ signalled = "none"
      BY <1>3, <2>1 DEF PassIsReplayed
    <3>1. /\ started /\ ~timedOut /\ reaped /\ exitcode \notin {"signal", "error"}
          /\ response # NoAnswer /\ Judged(response) = "PASS"
      BY <2>1, PassingExecution
    <3>2. response = answer /\ answer \in NativeAnswers /\ answer # NoAnswer
      BY <2>2, <3>1
    <3>3. answer \in Results /\ answer.kind # "unsupported_platform" /\ graph.relations
      BY <3>1, <3>2, JudgedReplayed
    <3>4. limit = "enforced"
      BY <3>2, <3>3 DEF Inv, Inside
    <3>5. QED
      BY <2>2, <3>1, <3>3, <3>4 DEF Inv, ShapedFirst
  <2>6. outcome' # NoOutcome
    BY <2>3 DEF Statuses, NoOutcome
  <2>7. QED
    BY <1>1, <1>2, <1>3, <2>1, <2>4, <2>5, <2>6 DEF Inv
<1>6. CASE Refuse
  <2>1. /\ graph.shape # "ok" /\ outcome' = graph.shape /\ pc' = "done" /\ reaped' = TRUE
        /\ UNCHANGED <<expired, startup, response, timedOut, started>>
    BY <1>6 DEF Refuse
  <2>2. outcome' \in Statuses /\ outcome' \notin {"PASS", NoOutcome}
    BY <2>1 DEF Inv, TypeOK, Graphs, Statuses, NoOutcome
  <2>3. TypeOK'
    BY <1>4, <2>1, <2>2 DEF TypeOK, Inv, ParentTypeOK, ParentPoints
  <2>4. QED
    BY <1>1, <1>2, <1>3, <2>1, <2>2, <2>3 DEF Inv, PassIsReplayed
<1>7. CASE ~Reconstruct /\ ~Refuse
  <2>1. outcome' = outcome /\ (pc' = "done" <=> pc = "done")
    BY <1>7 DEF Next, NativeReplayWorker, TimePasses, Tick, RunIsolated, StartFails, StartWorker,
         ReadClock, PollNothing, Receive, EndOfFile, BrokenMessage, CheckAlive, Join,
         CloseReceiving, TerminateAndReap, Escalate, GraceOver, Reap, Over, vars, parentVars
  <2>2. pc = "done" => UNCHANGED parentVars
    BY <1>7 DEF Next, NativeReplayWorker, TimePasses, Tick, RunIsolated, StartFails, StartWorker,
         ReadClock, PollNothing, Receive, EndOfFile, BrokenMessage, CheckAlive, Join,
         CloseReceiving, TerminateAndReap, Escalate, GraceOver, Reap, Over, vars, parentVars
  <2>3. TypeOK'
    <3>1. CASE pc = "done"
      BY <1>4, <2>1, <2>2, <3>1 DEF TypeOK, Inv, ParentTypeOK, parentVars
    <3>2. CASE pc # "done"
      BY <1>1, <1>4, <2>1, <3>2 DEF TypeOK, Inv, ParentInv
    <3>3. QED
      BY <3>1, <3>2
  <2>4. outcome = "PASS" => UNCHANGED <<stage, exitcode, answer, signalled, limit>>
    <3>1. outcome = "PASS" => pc = "done" /\ stage = "dead"
      BY DEF Inv, PassIsReplayed, NoOutcome
    <3>2. QED
      BY <1>7, <3>1 DEF Next, NativeReplayWorker, WorkerStep, SendStarted, SendAnswer, BeginAnswer,
           FinishAnswer, CloseConnection, Die, Exit, TimePasses, Tick, RunIsolated, StartFails,
           StartWorker, ReadClock, PollNothing, Receive, EndOfFile, BrokenMessage, CheckAlive,
           Join, CloseReceiving, TerminateAndReap, Escalate, GraceOver, Reap, Over, vars, workerVars
  <2>5. PassIsReplayed'
    BY <1>3, <2>1, <2>4 DEF Inv, PassIsReplayed
  <2>6. QED
    BY <1>1, <1>2, <1>3, <2>1, <2>3, <2>5 DEF Inv
<1>8. QED
  BY <1>5, <1>6, <1>7

LEMMA InvHolds == Spec => []Inv
BY InitInv, NextInv, PTL DEF Spec

-----------------------------------------------------------------------------
\* Every variable of a replay always has its type.
THEOREM ReplayTypesHold == Spec => []TypeOK
BY InvHolds, PTL DEF Inv

\* A graph is always passed on a complete replay inside an enforced limit, by a
\* worker that ended by itself, and never against its own shape or relations.
THEOREM PassesAreReplays == Spec => []PassIsReplayed
BY InvHolds, PTL DEF Inv

\* The answer of a worker that exited zero before the deadline is always used.
THEOREM TimelyAnswersAreUsed == Spec => []TimelyAnswerIsUsed
<1>1. Inv => TimelyAnswerIsUsed
  BY DEF Inv, Delivered, TimelyAnswerIsUsed
<1>2. QED
  BY <1>1, InvHolds, PTL
=============================================================================
