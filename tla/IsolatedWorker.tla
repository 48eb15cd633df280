--------------------------- MODULE IsolatedWorker ---------------------------
(***************************************************************************)
(* A disposable worker process and the one-way pipe it answers through, as *)
(* the three evidence adapters of e7q.ir use them (qcec, pyzx and the      *)
(* native F2 replay).  The worker is the child's side of the code; process *)
(* death, signals and the pipe are the operating system's and Python's     *)
(* multiprocessing, modelled from how the adapters use them.               *)
(*                                                                         *)
(* The adapters differ in the answers a worker can compute, in whether an  *)
(* answer can outgrow the pipe's buffer, and in the parent's loop; those   *)
(* live in QcecSupervisor, PyzxSupervisor and NativeReplay.                *)
(***************************************************************************)
EXTENDS Sequences

VARIABLES
  stage,      \* how far the worker's code has got
  limit,      \* whether RLIMIT_AS is really in force in the worker
  answer,     \* the response the worker computed, NoAnswer before
  exitcode,   \* how the worker ended: running, zero, error or signal
  torn,       \* the worker died with part of its answer in the pipe
  pipe,       \* complete messages written and not yet received
  handles,    \* the pipe endpoints the parent still holds open
  signalled   \* the strongest signal the parent sent to the worker

workerVars == <<stage, limit, answer, exitcode, torn, pipe, handles, signalled>>

Started  == [kind |-> "worker_started"]
NoAnswer == [kind |-> "none"]

Stages == {"unborn", "boot", "running", "answering", "answered", "closed", "dead"}

WorkerTypeOK(answers) ==
  /\ stage \in Stages
  /\ limit \in {"unset", "enforced", "unenforced"}
  /\ answer \in answers \cup {NoAnswer}
  /\ exitcode \in {"running", "zero", "error", "signal"}
  /\ torn \in BOOLEAN
  /\ pipe \in Seq(answers \cup {Started})
  /\ handles \subseteq {"receiving", "sending"}
  /\ signalled \in {"none", "terminate", "kill"}

WorkerInit ==
  /\ stage = "unborn"
  /\ limit = "unset"
  /\ answer = NoAnswer
  /\ exitcode = "running"
  /\ torn = FALSE
  /\ pipe = <<>>
  /\ handles = {"receiving", "sending"}
  /\ signalled = "none"

-----------------------------------------------------------------------------
(* What the parent can observe.                                            *)

\* process.is_alive(): started and not yet collected by waitpid.
Alive == stage \notin {"unborn", "dead"}

\* Every write end of the pipe is closed: the parent's own copy too.
WriterGone == stage \in {"closed", "dead"} /\ "sending" \notin handles

\* receiving.poll() answers TRUE on any byte and on end of file.
Readable == pipe # <<>> \/ stage = "answering" \/ torn \/ WriterGone

-----------------------------------------------------------------------------
(* The worker's steps.                                                     *)

\* connection.send(m); a closed reader is a BrokenPipeError, swallowed.
Write(m) ==
  pipe' = IF "receiving" \in handles THEN Append(pipe, m) ELSE pipe

\* Apply the address-space limit and announce it.
SendStarted ==
  /\ stage = "boot"
  /\ stage' = "running"
  /\ limit' \in {"enforced", "unenforced"}
  /\ Write(Started)
  /\ UNCHANGED <<answer, exitcode, torn, handles, signalled>>

\* The call under supervision returns or raises, and the whole response fits
\* the pipe's buffer.
SendAnswer(answers) ==
  /\ stage = "running"
  /\ stage' = "answered"
  /\ answer' \in answers
  /\ Write(answer')
  /\ UNCHANGED <<limit, exitcode, torn, handles, signalled>>

\* The same, of a response larger than the buffer: its first bytes are in the
\* pipe and the worker waits for the parent to read them.
BeginAnswer(answers) ==
  /\ stage = "running"
  /\ stage' = "answering"
  /\ answer' \in answers
  /\ UNCHANGED <<limit, exitcode, torn, pipe, handles, signalled>>

\* The rest of a large response is written.
FinishAnswer ==
  /\ stage = "answering"
  /\ stage' = "answered"
  /\ Write(answer)
  /\ UNCHANGED <<limit, answer, exitcode, torn, handles, signalled>>

\* connection.close(), and the target function returns.
CloseConnection ==
  /\ stage = "answered"
  /\ stage' = "closed"
  /\ exitcode' = "zero"
  /\ UNCHANGED <<limit, answer, torn, pipe, handles, signalled>>

\* The worker is ended at any point of its code: by an exception it does not
\* catch or os._exit (error), or by a signal, the parent's or another's.
Die(code) ==
  /\ stage \in {"boot", "running", "answering", "answered", "closed"}
  /\ stage = "closed" => exitcode = "zero"
  /\ stage' = "closed"
  /\ exitcode' = code
  /\ torn' = (stage = "answering")
  /\ UNCHANGED <<limit, answer, pipe, handles, signalled>>

\* The process is gone and its exit code can be collected.
Exit ==
  /\ stage = "closed"
  /\ stage' = "dead"
  /\ UNCHANGED <<limit, answer, exitcode, torn, pipe, handles, signalled>>

\* What SIGKILL makes happen, whatever the worker is doing.
KillTakesEffect == signalled = "kill" /\ (Die("signal") \/ Exit)

WorkerStep(small, large) ==
  \/ SendStarted
  \/ SendAnswer(small)
  \/ BeginAnswer(large)
  \/ FinishAnswer
  \/ CloseConnection
  \/ \E code \in {"error", "signal"} : Die(code)
  \/ Exit
=============================================================================
