-------------------------- MODULE WorkerSupervisor --------------------------
(***************************************************************************)
(* The parent's side of one isolated call: start the worker, poll its pipe *)
(* until a parent-owned deadline, stop it if it outlives the deadline,     *)
(* reap it.  The three adapters write this loop separately; the steps here *)
(* are the ones they share, and each adapter's module puts its own loop    *)
(* together from them (which of them drains the pipe, and when, differs).  *)
(*                                                                         *)
(* pc names the point the parent's code has reached:                       *)
(*   spawn    before process.start()                                       *)
(*   wait     top of the loop, before the clock is read                    *)
(*   poll     in receiving.poll / recv                                     *)
(*   check    before the loop's own is_alive()                             *)
(*   drain    reading what is left in the pipe of a dead worker            *)
(*   leave    out of the loop, before process.join(remaining)              *)
(*   close    the finally clause that closes the receiving endpoint        *)
(*   stop, grace, killed   inside _terminate_and_reap                      *)
(*   reap     the last is_alive()                                          *)
(*   assess   classification of the execution                              *)
(*   done, raised          returned, or left by an exception               *)
(***************************************************************************)
EXTENDS IsolatedWorker

VARIABLES
  pc,         \* where the parent's code is
  expired,    \* time.monotonic() has reached the deadline
  startup,    \* the worker_started message was received
  response,   \* the last other message received, NoAnswer before
  timedOut,   \* the local timed_out
  reaped,     \* the local reaped
  started     \* process.start() succeeded

parentVars == <<pc, expired, startup, response, timedOut, reaped, started>>

ParentPoints ==
  {"spawn", "wait", "poll", "check", "drain", "leave", "close", "stop",
   "grace", "killed", "reap", "assess", "done", "raised"}

ParentTypeOK(answers) ==
  /\ pc \in ParentPoints
  /\ response \in answers \cup {NoAnswer}
  /\ expired \in BOOLEAN /\ startup \in BOOLEAN /\ timedOut \in BOOLEAN
  /\ reaped \in BOOLEAN /\ started \in BOOLEAN

ParentInit ==
  /\ pc = "spawn"
  /\ response = NoAnswer
  /\ expired = FALSE /\ startup = FALSE /\ timedOut = FALSE
  /\ reaped = FALSE /\ started = FALSE

-----------------------------------------------------------------------------
\* process.start() raises: both endpoints are closed and nothing was started.
StartFails ==
  /\ pc = "spawn"
  /\ pc' = "assess"
  /\ handles' = {}
  /\ reaped' = TRUE
  /\ UNCHANGED <<stage, limit, answer, exitcode, torn, pipe, signalled,
                 expired, startup, response, timedOut, started>>

\* The child runs, and the parent drops its own copy of the write end.
StartWorker ==
  /\ pc = "spawn"
  /\ pc' = "wait"
  /\ stage' = "boot"
  /\ handles' = handles \ {"sending"}
  /\ started' = TRUE
  /\ UNCHANGED <<limit, answer, exitcode, torn, pipe, signalled,
                 expired, startup, response, timedOut, reaped>>

\* Time passes the deadline.
Tick ==
  /\ started /\ ~expired
  /\ pc \notin {"done", "raised"}
  /\ expired' = TRUE
  /\ UNCHANGED <<workerVars, pc, startup, response, timedOut, reaped, started>>

\* remaining <= 0 ends the loop, and is a timeout only of a live worker.
ReadClock ==
  /\ pc = "wait"
  /\ IF expired THEN pc' = "leave" /\ timedOut' = Alive
                ELSE pc' = "poll" /\ UNCHANGED timedOut
  /\ UNCHANGED <<workerVars, expired, startup, response, reaped, started>>

\* poll gave up after its slice.
PollNothing ==
  /\ pc = "poll"
  /\ ~Readable
  /\ pc' = "check"
  /\ UNCHANGED <<workerVars, expired, startup, response, timedOut, reaped, started>>

\* A mutant: what a dead worker wrote is not looked at.
NotedWhileAlive(m) ==
  IF m = Started THEN startup' = TRUE /\ UNCHANGED response
  ELSE response' = (IF Alive THEN m ELSE response) /\ UNCHANGED startup

\* The parent keeps the last message of each kind.
Noted(m) ==
  IF m = Started THEN startup' = TRUE /\ UNCHANGED response
                 ELSE response' = m /\ UNCHANGED startup

\* recv returns the next complete message.  In front of an incomplete one it
\* waits, with no deadline: no step of the parent is enabled then.
Receive(from, to) ==
  /\ pc = from
  /\ pipe # <<>>
  /\ pipe' = Tail(pipe)
  /\ Noted(Head(pipe))
  /\ pc' = to
  /\ UNCHANGED <<stage, limit, answer, exitcode, torn, handles, signalled,
                 expired, timedOut, reaped, started>>

\* recv raises EOFError: no byte is left, or of a torn message only its length
\* arrived, which multiprocessing reports alike.
EndOfFile(from, to) ==
  /\ pc = from
  /\ pipe = <<>> /\ WriterGone
  /\ pc' = to
  /\ UNCHANGED <<workerVars, expired, startup, response, timedOut, reaped, started>>

\* recv meets end of file inside the message's body: an OSError nobody catches here.
BrokenMessage(from) ==
  /\ pc = from
  /\ pipe = <<>> /\ torn /\ WriterGone
  /\ pc' = "raised"
  /\ handles' = {}
  /\ UNCHANGED <<stage, limit, answer, exitcode, torn, pipe, signalled,
                 expired, startup, response, timedOut, reaped, started>>

\* The loop's own is_alive(); the adapters differ in where a dead worker
\* sends them.
CheckAlive(ifDead) ==
  /\ pc = "check"
  /\ pc' = IF Alive THEN "wait" ELSE ifDead
  /\ UNCHANGED <<workerVars, expired, startup, response, timedOut, reaped, started>>

\* Unless the loop already timed out, process.join(remaining) and the
\* is_alive() after it.
Join(ifDead) ==
  /\ pc = "leave"
  /\ \/ /\ timedOut
        /\ pc' = "close" /\ UNCHANGED timedOut
     \/ /\ ~timedOut /\ ~Alive
        /\ pc' = ifDead /\ UNCHANGED timedOut
     \/ /\ ~timedOut /\ Alive /\ expired
        /\ pc' = "close" /\ timedOut' = TRUE
  /\ UNCHANGED <<workerVars, expired, startup, response, reaped, started>>

\* A mutant: the timeout path forgets the receiving endpoint.
CloseUnlessTimedOut ==
  /\ pc = "close"
  /\ handles' = IF timedOut THEN handles ELSE handles \ {"receiving"}
  /\ pc' = IF timedOut THEN "stop" ELSE "reap"
  /\ UNCHANGED <<stage, limit, answer, exitcode, torn, pipe, signalled,
                 expired, startup, response, timedOut, reaped, started>>

\* finally: receiving.close().
CloseReceiving ==
  /\ pc = "close"
  /\ handles' = handles \ {"receiving"}
  /\ pc' = IF timedOut THEN "stop" ELSE "reap"
  /\ UNCHANGED <<stage, limit, answer, exitcode, torn, pipe, signalled,
                 expired, startup, response, timedOut, reaped, started>>

\* _terminate_and_reap: SIGTERM and a grace period, then SIGKILL and another.
Escalate(from, to, how) ==
  /\ pc = from
  /\ IF Alive THEN signalled' = how /\ pc' = to
              ELSE pc' = "reap" /\ UNCHANGED signalled
  /\ UNCHANGED <<stage, limit, answer, exitcode, torn, pipe, handles,
                 expired, startup, response, timedOut, reaped, started>>

\* The grace period after SIGKILL is over (qcec waits for a second one).
GraceOver ==
  /\ pc = "killed"
  /\ pc' = "reap"
  /\ UNCHANGED <<workerVars, expired, startup, response, timedOut, reaped, started>>

\* Mutants: SIGTERM is the last word; SIGKILL is the first.
TerminateOnly == Escalate("stop", "killed", "terminate") \/ GraceOver
KillAtOnce    == Escalate("stop", "killed", "kill") \/ GraceOver

TerminateAndReap ==
  \/ Escalate("stop", "grace", "terminate")
  \/ Escalate("grace", "killed", "kill")
  \/ GraceOver

\* reaped = not process.is_alive().
Reap ==
  /\ pc = "reap"
  /\ pc' = "assess"
  /\ reaped' = ~Alive
  /\ UNCHANGED <<workerVars, expired, startup, response, timedOut, started>>

\* A mutant: a response is believed whatever became of its worker.
ReasonFromResponse ==
  IF ~started                THEN "worker_start_error"
  ELSE IF response # NoAnswer THEN response.kind
  ELSE IF timedOut           THEN "wall_clock_timeout"
  ELSE "worker_protocol_error"

\* What the execution is reported as: the adapters' chain of early returns.
ExecutionReason ==
  IF ~started                THEN "worker_start_error"
  ELSE IF timedOut           THEN "wall_clock_timeout"
  ELSE IF ~reaped            THEN "worker_reap_failure"
  ELSE IF exitcode = "signal" THEN "worker_signal"
  ELSE IF exitcode = "error"  THEN "worker_crash"
  ELSE IF response = NoAnswer THEN "worker_protocol_error"
  ELSE response.kind

ExecutionFailures ==
  {"worker_start_error", "worker_reap_failure", "worker_signal", "worker_crash",
   "worker_protocol_error"}

\* A mutant: the fallback is the name of a mechanism.
MemoryMechanism == IF response # NoAnswer \/ startup THEN limit ELSE "worker-did-not-report"

\* The memory evidence of the report: the worker's own, from either message.
MemoryReported == IF response # NoAnswer \/ startup THEN limit ELSE "unreported"
=============================================================================
