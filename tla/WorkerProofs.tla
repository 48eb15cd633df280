---------------------------- MODULE WorkerProofs ----------------------------
(***************************************************************************)
(* The inductive invariant the three adapters share, and that every step   *)
(* of a worker and of its parent keeps it, for any set A of answers.       *)
(***************************************************************************)
EXTENDS WorkerSupervisor, SequenceTheorems, TLAPS

\* Everything that can be in the pipe: the worker's own two messages.
Sent == {Started} \cup ({answer} \ {NoAnswer})

\* The worker's half: it writes nothing but what it computed, it computes before
\* it answers, and a process that is gone has an exit code.
WorkerInv(A) ==
  /\ WorkerTypeOK(A)
  /\ pipe \in Seq(Sent)
  /\ stage \in {"unborn", "boot", "running"} => answer = NoAnswer
  /\ stage \in {"answering", "answered"} => answer # NoAnswer
  /\ stage \in {"closed", "dead"} => exitcode # "running"

\* What the parent knows: only what was sent, and that it started what runs.
Informed(A) ==
  /\ response \in {NoAnswer, answer}
  /\ started <=> stage # "unborn"
  /\ ~started => pc \in {"spawn", "assess", "done"}
  /\ reaped => ~Alive
  /\ pc = "spawn" => stage = "unborn" /\ ~reaped

\* When the parent may use force: what it signals it has given up on.
Patient ==
  /\ timedOut => started /\ expired
  /\ pc \in {"spawn", "wait", "poll", "check"} => ~timedOut
  /\ pc \in {"stop", "grace", "killed"} => timedOut
  /\ signalled # "none" => timedOut
  /\ pc \in {"drain", "leave", "close", "stop"} => signalled = "none"
  /\ pc = "grace" => signalled = "terminate"
  /\ pc = "killed" => signalled = "kill"

\* What is left to clean up: it closes what it opened, and it passes by a worker
\* only when that is gone or was sent SIGKILL.
Tidy ==
  /\ started => "sending" \notin handles
  /\ pc \in {"stop", "grace", "killed", "reap", "assess", "done", "raised"} => handles = {}
  /\ pc \in {"drain", "close", "reap", "assess", "done"} /\ ~timedOut => ~Alive
  /\ pc \in {"reap", "assess", "done"} /\ Alive => signalled = "kill"
  /\ pc = "raised" => stage \in {"closed", "dead"}

ParentInv(A) == ParentTypeOK(A) /\ Informed(A) /\ Patient /\ Tidy

Supervised(A) == WorkerInv(A) /\ ParentInv(A)

-----------------------------------------------------------------------------
\* A larger set has the sequences of a smaller one.
LEMMA SeqMonotone ==
  ASSUME NEW S, NEW T, S \subseteq T, NEW s \in Seq(S)
  PROVE  s \in Seq(T)
OBVIOUS

\* Writing one of the messages that may be sent leaves only such in the pipe.
LEMMA WriteIsSent ==
  ASSUME NEW S, NEW m \in S, pipe \in Seq(S), Write(m)
  PROVE  pipe' \in Seq(S)
<1>1. pipe' = pipe \/ pipe' = Append(pipe, m)
  BY DEF Write
<1>2. Append(pipe, m) \in Seq(S)
  OBVIOUS
<1>3. QED
  BY <1>1, <1>2

\* A worker that starts, or computes an answer of A, keeps its half.
LEMMA WorkerKeepsInv ==
  ASSUME NEW A, NEW STATE small, NEW STATE large, Started \notin A, NoAnswer \notin A,
         small \subseteq A, large \subseteq A,
         WorkerInv(A), WorkerStep(small, large)
  PROVE  WorkerInv(A)'
<1> DEFINE Any == A \cup {Started}
<1>0. /\ WorkerTypeOK(A) /\ pipe \in Seq(Any) /\ pipe \in Seq(Sent)
      /\ Started \in Any /\ Started \in Sent
  BY DEF WorkerInv, WorkerTypeOK, Sent
<1>1. CASE SendStarted
  <2>1. pipe' \in Seq(Any) /\ pipe' \in Seq(Sent)
    BY <1>0, <1>1, WriteIsSent DEF SendStarted
  <2>2. Sent' = Sent
    BY <1>1 DEF SendStarted, Sent
  <2>3. QED
    BY <1>1, <2>1, <2>2 DEF SendStarted, WorkerInv, WorkerTypeOK, Stages
<1>2. ASSUME answer = NoAnswer, answer' \in A
      PROVE  /\ pipe \in Seq(Sent') /\ answer' \in Sent' /\ answer' \in Any
             /\ answer' # NoAnswer
  <2>1. Sent \subseteq Sent'
    BY <1>2 DEF Sent
  <2>2. pipe \in Seq(Sent')
    BY <1>0, <2>1, SeqMonotone
  <2>3. QED
    BY <1>2, <2>2 DEF Sent
<1>3. CASE SendAnswer(small)
  <2>1. answer = NoAnswer /\ answer' \in A
    BY <1>3 DEF SendAnswer, WorkerInv
  <2>2. Write(answer')
    BY <1>3 DEF SendAnswer
  <2>3. pipe' \in Seq(Any)
    BY <1>0, <1>2, <2>1, <2>2, WriteIsSent
  <2>4. pipe' \in Seq(Sent')
    BY <1>2, <2>1, <2>2, WriteIsSent
  <2>5. QED
    BY <1>2, <1>3, <2>1, <2>3, <2>4 DEF SendAnswer, WorkerInv, WorkerTypeOK, Stages
<1>4. CASE BeginAnswer(large)
  <2>1. answer = NoAnswer /\ answer' \in A
    BY <1>4 DEF BeginAnswer, WorkerInv
  <2>2. pipe' = pipe
    BY <1>4 DEF BeginAnswer
  <2>3. pipe' \in Seq(Any) /\ pipe' \in Seq(Sent')
    BY <1>0, <1>2, <2>1, <2>2
  <2>4. QED
    BY <1>2, <1>4, <2>1, <2>3 DEF BeginAnswer, WorkerInv, WorkerTypeOK, Stages
<1>5. CASE FinishAnswer
  <2>1. answer \in A /\ answer \in Sent /\ answer \in Any
    BY <1>5 DEF FinishAnswer, WorkerInv, WorkerTypeOK, Sent
  <2>2. pipe' \in Seq(Any) /\ pipe' \in Seq(Sent)
    BY <1>0, <1>5, <2>1, WriteIsSent DEF FinishAnswer
  <2>3. Sent' = Sent
    BY <1>5 DEF FinishAnswer, Sent
  <2>4. QED
    BY <1>5, <2>1, <2>2, <2>3 DEF FinishAnswer, WorkerInv, WorkerTypeOK, Stages
<1>6. ASSUME CloseConnection \/ (\E code \in {"error", "signal"} : Die(code)) \/ Exit
      PROVE  WorkerInv(A)'
  <2>1. pipe' = pipe /\ Sent' = Sent
    BY <1>6 DEF CloseConnection, Die, Exit, Sent
  <2>2. QED
    BY <1>0, <1>6, <2>1 DEF CloseConnection, Die, Exit, WorkerInv, WorkerTypeOK, Stages
<1>7. QED
  BY <1>1, <1>3, <1>4, <1>5, <1>6 DEF WorkerStep

-----------------------------------------------------------------------------
\* The steps of the parent that the adapters' loops are made of.
ParentStep ==
  \/ StartFails \/ StartWorker
  \/ Tick \/ ReadClock \/ PollNothing
  \/ Receive("poll", "check") \/ Receive("drain", "drain")
  \/ EndOfFile("poll", "leave") \/ EndOfFile("drain", "leave") \/ EndOfFile("drain", "close")
  \/ \E from \in {"poll", "drain"} : BrokenMessage(from)
  \/ \E to \in {"leave", "drain"} : CheckAlive(to)
  \/ \E to \in {"close", "drain"} : Join(to)
  \/ CloseReceiving
  \/ TerminateAndReap
  \/ Reap

\* The worker's half does not depend on where the parent is, on its clock or on
\* the signals it sent, beyond their types.
LEMMA SameWorkerInv ==
  ASSUME NEW A, WorkerInv(A), UNCHANGED <<stage, answer, exitcode, pipe, limit, torn>>,
         handles' \subseteq {"receiving", "sending"},
         signalled' \in {"none", "terminate", "kill"}
  PROVE  WorkerInv(A)'
<1>1. Sent' = Sent
  BY DEF Sent
<1>2. QED
  BY <1>1 DEF WorkerInv, WorkerTypeOK

\* What recv returns was sent, and is of the right type.
LEMMA ReceivedWasSent ==
  ASSUME NEW A, Supervised(A), pipe # <<>>
  PROVE  /\ Head(pipe) \in Sent
         /\ Head(pipe) # Started => Head(pipe) = answer /\ answer \in A
         /\ Tail(pipe) \in Seq(Sent)
         /\ Tail(pipe) \in Seq(A \cup {Started})
<1>1. pipe \in Seq(Sent) /\ pipe \in Seq(A \cup {Started})
  BY DEF Supervised, WorkerInv, WorkerTypeOK
<1>2. Head(pipe) \in Sent /\ Tail(pipe) \in Seq(Sent) /\ Tail(pipe) \in Seq(A \cup {Started})
  BY <1>1
<1>3. QED
  BY <1>2 DEF Sent, Supervised, WorkerInv, WorkerTypeOK

\* Every step of the parent keeps both halves.
LEMMA ParentKeepsInv ==
  ASSUME NEW A, Supervised(A), ParentStep
  PROVE  Supervised(A)'
<1>0. WorkerTypeOK(A) /\ ParentTypeOK(A) /\ WorkerInv(A) /\ ParentInv(A)
  BY DEF Supervised, WorkerInv, ParentInv
<1> USE DEF ParentTypeOK, ParentPoints, Alive, Informed, Patient, Tidy
<1>1. CASE StartFails
  <2>1. WorkerInv(A)'
    BY <1>0, <1>1, SameWorkerInv DEF StartFails, WorkerTypeOK
  <2>2. QED
    BY <1>0, <1>1, <2>1 DEF StartFails, ParentInv, Supervised
<1>2. CASE StartWorker
  <2>1. Sent' = Sent /\ pipe' = pipe
    BY <1>2 DEF StartWorker, Sent
  <2>2. WorkerInv(A)'
    BY <1>0, <1>2, <2>1 DEF StartWorker, WorkerInv, WorkerTypeOK, Stages, ParentInv
  <2>3. QED
    BY <1>0, <1>2, <2>2 DEF StartWorker, ParentInv, Supervised
<1>3. CASE Tick \/ ReadClock \/ PollNothing \/ Reap
           \/ EndOfFile("poll", "leave")
           \/ EndOfFile("drain", "leave") \/ EndOfFile("drain", "close")
           \/ (\E to \in {"leave", "drain"} : CheckAlive(to))
           \/ (\E to \in {"close", "drain"} : Join(to))
  <2>1. UNCHANGED workerVars
    BY <1>3 DEF Tick, ReadClock, PollNothing, Reap, EndOfFile, CheckAlive, Join
  <2>2. WorkerInv(A)'
    BY <1>0, <2>1, SameWorkerInv DEF workerVars, WorkerTypeOK
  <2>3. CASE Tick \/ ReadClock \/ PollNothing \/ Reap
    <3>1. CASE Tick
      BY <1>0, <2>1, <2>2, <3>1 DEF Tick, workerVars, ParentInv, Supervised
    <3>2. CASE ReadClock
      BY <1>0, <2>1, <2>2, <3>2 DEF ReadClock, workerVars, ParentInv, Supervised
    <3>3. CASE PollNothing
      BY <1>0, <2>1, <2>2, <3>3 DEF PollNothing, workerVars, ParentInv, Supervised
    <3>4. CASE Reap
      BY <1>0, <2>1, <2>2, <3>4 DEF Reap, workerVars, ParentInv, Supervised
    <3>5. QED
      BY <2>3, <3>1, <3>2, <3>3, <3>4
  <2>4. ASSUME EndOfFile("poll", "leave") \/ EndOfFile("drain", "leave") \/ EndOfFile("drain", "close")
        PROVE  Supervised(A)'
    BY <1>0, <2>1, <2>2, <2>4 DEF EndOfFile, workerVars, ParentInv, Supervised
  <2>5. ASSUME NEW to \in {"leave", "drain"}, CheckAlive(to)
        PROVE  Supervised(A)'
    BY <1>0, <2>1, <2>2, <2>5 DEF CheckAlive, workerVars, ParentInv, Supervised
  <2>6. ASSUME NEW to \in {"close", "drain"}, Join(to)
        PROVE  Supervised(A)'
    <3>1. ParentTypeOK(A)' /\ Informed(A)'
      BY <1>0, <2>1, <2>6 DEF Join, workerVars, ParentInv
    <3>2. Patient' /\ Tidy'
      BY <1>0, <2>1, <2>6 DEF Join, workerVars, ParentInv
    <3>3. QED
      BY <2>2, <3>1, <3>2 DEF ParentInv, Supervised
  <2>7. QED
    BY <1>3, <2>3, <2>4, <2>5, <2>6
<1>4. ASSUME Receive("poll", "check") \/ Receive("drain", "drain")
      PROVE  Supervised(A)'
  <2>1. /\ pipe # <<>> /\ pipe' = Tail(pipe)
        /\ UNCHANGED <<stage, limit, answer, exitcode, torn, handles, signalled>>
        /\ UNCHANGED <<expired, timedOut, reaped, started>>
    BY <1>4 DEF Receive
  <2>2. Sent' = Sent
    BY <2>1 DEF Sent
  <2>3. WorkerInv(A)'
    BY <1>0, <2>1, <2>2, ReceivedWasSent DEF WorkerInv, WorkerTypeOK
  <2>4. response' \in {NoAnswer, answer} /\ response' \in A \cup {NoAnswer} /\ startup' \in BOOLEAN
    <3>1. IF Head(pipe) = Started THEN startup' = TRUE /\ UNCHANGED response
                                  ELSE response' = Head(pipe) /\ UNCHANGED startup
      BY <1>4 DEF Receive, Noted
    <3>2. response \in {NoAnswer, answer} /\ response \in A \cup {NoAnswer} /\ startup \in BOOLEAN
      BY <1>0 DEF ParentInv
    <3>3. Head(pipe) # Started => Head(pipe) = answer /\ answer \in A
      BY <2>1, ReceivedWasSent
    <3>4. QED
      BY <3>1, <3>2, <3>3
  <2>5. (pc = "poll" /\ pc' = "check") \/ (pc = "drain" /\ pc' = "drain")
    BY <1>4 DEF Receive
  <2>6. ParentTypeOK(A)' /\ Informed(A)'
    BY <1>0, <2>1, <2>4, <2>5 DEF ParentInv
  <2>7. Patient' /\ Tidy'
    BY <1>0, <2>1, <2>5 DEF ParentInv
  <2>8. QED
    BY <2>3, <2>6, <2>7 DEF ParentInv, Supervised
<1>5. ASSUME NEW from \in {"poll", "drain"}, BrokenMessage(from)
      PROVE  Supervised(A)'
  <2>1. WorkerInv(A)'
    BY <1>0, <1>5, SameWorkerInv DEF BrokenMessage, WorkerTypeOK
  <2>2. ParentTypeOK(A)' /\ Informed(A)'
    BY <1>0, <1>5 DEF BrokenMessage, ParentInv
  <2>3. Patient' /\ Tidy'
    BY <1>0, <1>5 DEF BrokenMessage, ParentInv, WriterGone
  <2>4. QED
    BY <2>1, <2>2, <2>3 DEF ParentInv, Supervised
<1>6. CASE CloseReceiving
  <2>1. WorkerInv(A)'
    BY <1>0, <1>6, SameWorkerInv DEF CloseReceiving, WorkerTypeOK
  <2>2. ParentTypeOK(A)' /\ Informed(A)'
    BY <1>0, <1>6 DEF CloseReceiving, ParentInv
  <2>3. handles' = {}
    BY <1>0, <1>6 DEF CloseReceiving, ParentInv, WorkerTypeOK
  <2>4. Patient' /\ Tidy'
    <3>1. /\ pc = "close" /\ pc' = IF timedOut THEN "stop" ELSE "reap"
          /\ UNCHANGED <<stage, signalled, expired, timedOut, started>>
      BY <1>6 DEF CloseReceiving
    <3>2. QED
      BY <1>0, <2>3, <3>1 DEF ParentInv
  <2>5. QED
    BY <2>1, <2>2, <2>4 DEF ParentInv, Supervised
<1>7. CASE TerminateAndReap
  <2>1. UNCHANGED <<stage, answer, exitcode, pipe, limit, torn, handles>>
    BY <1>7 DEF TerminateAndReap, Escalate, GraceOver, workerVars
  <2>2. signalled' \in {"none", "terminate", "kill"}
    BY <1>0, <1>7 DEF TerminateAndReap, Escalate, GraceOver, workerVars, WorkerTypeOK
  <2>3. WorkerInv(A)'
    BY <1>0, <2>1, <2>2, SameWorkerInv DEF WorkerTypeOK
  <2>4. ASSUME NEW from, NEW to, NEW how, Escalate(from, to, how),
               \/ from = "stop" /\ to = "grace" /\ how = "terminate"
               \/ from = "grace" /\ to = "killed" /\ how = "kill"
        PROVE  ParentInv(A)'
    <3>1. ParentTypeOK(A)' /\ Informed(A)'
      BY <1>0, <2>4 DEF Escalate, ParentInv
    <3>2. Patient' /\ Tidy'
      BY <1>0, <2>4 DEF Escalate, ParentInv
    <3>3. QED
      BY <3>1, <3>2 DEF ParentInv
  <2>5. CASE GraceOver
    BY <1>0, <2>3, <2>5 DEF GraceOver, workerVars, ParentInv, Supervised
  <2>6. QED
    BY <1>7, <2>3, <2>4, <2>5 DEF TerminateAndReap, Supervised
<1>8. QED
  BY <1>1, <1>2, <1>3, <1>4, <1>5, <1>6, <1>7 DEF ParentStep

\* The initial state, and a worker step next to an idle parent.
LEMMA SupervisedInit ==
  ASSUME NEW A, WorkerInit, ParentInit
  PROVE  Supervised(A)
<1>1. pipe \in Seq(Sent) /\ pipe \in Seq(A \cup {Started})
  BY DEF WorkerInit
<1>2. WorkerInv(A)
  BY <1>1 DEF WorkerInit, WorkerInv, WorkerTypeOK, Stages
<1>3. ParentInv(A)
  BY DEF WorkerInit, ParentInit, ParentInv, ParentTypeOK, ParentPoints, Informed, Patient, Tidy, Alive
<1>4. QED
  BY <1>2, <1>3 DEF Supervised

\* A worker's step, with the parent where it was.
LEMMA WorkerKeepsParent ==
  ASSUME NEW A, Supervised(A), WorkerInv(A)', UNCHANGED parentVars,
         NEW STATE small, NEW STATE large, WorkerStep(small, large)
  PROVE  Supervised(A)'
<1> USE DEF parentVars
<1>1. /\ stage \notin {"unborn", "dead"} /\ stage' # "unborn"
      /\ stage = "closed" => stage' \in {"closed", "dead"}
      /\ UNCHANGED <<signalled, handles>>
  BY DEF WorkerStep, SendStarted, SendAnswer, BeginAnswer, FinishAnswer, CloseConnection, Die, Exit
<1>2. response' \in {NoAnswer, answer'}
  BY DEF Supervised, WorkerInv, ParentInv, Informed, WorkerStep, SendStarted, SendAnswer,
         BeginAnswer, FinishAnswer, CloseConnection, Die, Exit
<1>3. ParentTypeOK(A)' /\ Informed(A)'
  BY <1>1, <1>2 DEF Supervised, ParentInv, ParentTypeOK, Informed, Alive
<1>4. Patient'
  BY <1>1 DEF Supervised, ParentInv, Patient
<1>5. Tidy'
  BY <1>1 DEF Supervised, ParentInv, Tidy, Alive
<1>6. QED
  BY <1>3, <1>4, <1>5 DEF Supervised, ParentInv

\* The adapters' own steps that only move the parent to its end.
LEMMA EndKeepsInv ==
  ASSUME NEW A, Supervised(A), UNCHANGED workerVars, pc \in {"assess", "done"}, pc' \in {pc, "done"},
         UNCHANGED <<expired, startup, response, timedOut, reaped, started>>
  PROVE  Supervised(A)'
<1>1. WorkerInv(A)'
  BY SameWorkerInv DEF workerVars, Supervised, WorkerInv, WorkerTypeOK
<1>2. ParentTypeOK(A)' /\ Informed(A)' /\ Patient' /\ Tidy'
  BY DEF workerVars, Supervised, ParentInv, ParentTypeOK, ParentPoints, Informed, Patient, Tidy, Alive
<1>3. QED
  BY <1>1, <1>2 DEF Supervised, ParentInv

LEMMA AbsorbStutter ==
  ASSUME NEW A, Supervised(A), UNCHANGED <<workerVars, parentVars>>
  PROVE  Supervised(A)'
<1>1. WorkerInv(A)'
  BY SameWorkerInv DEF workerVars, Supervised, WorkerInv, WorkerTypeOK
<1>2. QED
  BY <1>1 DEF workerVars, parentVars, Supervised, ParentInv, ParentTypeOK, Informed, Patient, Tidy, Alive

-----------------------------------------------------------------------------
(* The pipe as the parent sees it.                                         *)

\* The parent holds its end of the pipe until it closes it.
Listening ==
  pc \in {"spawn", "wait", "poll", "check", "drain", "leave", "close"} => "receiving" \in handles

InPipe(m) == \E i \in 1 .. Len(pipe) : pipe[i] = m

\* What is written is in the pipe, next to what was.
LEMMA WrittenIsInPipe ==
  ASSUME NEW m, NEW S, m \in S, pipe \in Seq(S), "receiving" \in handles, Write(m)
  PROVE  \E i \in 1 .. Len(pipe') : pipe'[i] = m
<1>1. pipe' = Append(pipe, m)
  BY DEF Write
<1>2. Len(pipe') = Len(pipe) + 1 /\ pipe'[Len(pipe) + 1] = m /\ Len(pipe) \in Nat
  BY <1>1
<1>3. QED
  BY <1>2

\* What is not received is still in the pipe.
LEMMA NotReceivedIsInPipe ==
  ASSUME NEW m, NEW S, pipe \in Seq(S), InPipe(m), Head(pipe) # m, pipe' = Tail(pipe)
  PROVE  \E i \in 1 .. Len(pipe') : pipe'[i] = m
<1>1. PICK i \in 1 .. Len(pipe) : pipe[i] = m
  BY DEF InPipe
<1>2. i # 1 /\ Len(pipe) \in Nat /\ pipe # <<>>
  BY <1>1
<1>3. i - 1 \in 1 .. Len(pipe') /\ pipe'[i - 1] = m
  BY <1>1, <1>2
<1>4. QED
  BY <1>3

LEMMA EmptyPipe ==
  ASSUME NEW m, pipe = <<>>
  PROVE  ~InPipe(m)
BY DEF InPipe

\* Receiving a message loses nothing: the answer was received, is now, or is still
\* in the pipe.
LEMMA NothingIsLostByReceiving ==
  ASSUME NEW A, Supervised(A), Started \notin A, NEW from, NEW to, Receive(from, to),
         response = answer \/ InPipe(answer)
  PROVE  response' = answer' \/ InPipe(answer)'
<1>1. pipe # <<>> /\ pipe' = Tail(pipe) /\ answer' = answer /\ pipe \in Seq(A \cup {Started})
  BY DEF Receive, Supervised, WorkerInv, WorkerTypeOK
<1>2. IF Head(pipe) = Started THEN response' = response ELSE response' = Head(pipe)
  BY DEF Receive, Noted
<1>3. answer # Started
  BY DEF Supervised, WorkerInv, WorkerTypeOK, Started, NoAnswer
<1>4. CASE Head(pipe) = Started
  <2>1. ASSUME InPipe(answer) PROVE InPipe(answer)'
    <3>1. \E i \in 1 .. Len(pipe') : pipe'[i] = answer
      BY <1>1, <1>3, <1>4, <2>1, NotReceivedIsInPipe
    <3>2. QED
      BY <1>1, <3>1 DEF InPipe
  <2>2. QED
    BY <1>1, <1>2, <1>4, <2>1
<1>5. CASE Head(pipe) # Started
  BY <1>1, <1>2, <1>5, ReceivedWasSent
<1>6. QED
  BY <1>4, <1>5
=============================================================================
