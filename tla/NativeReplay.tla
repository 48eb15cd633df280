---------------------------- MODULE NativeReplay ----------------------------
(***************************************************************************)
(* One reconstruction of a native-execution graph by the F2 validator of   *)
(* e7q.ir.native_semantic: the graph's shape is checked, the preserved     *)
(* source is parsed, run and verified again in an isolated worker under    *)
(* the installed resource policy, and the graph's relations are compared   *)
(* with what the replay produced.                                          *)
(***************************************************************************)
EXTENDS WorkerSupervisor

VARIABLES
  graph,      \* what the shape checks and the relation inventory find
  outcome     \* the status of the context, NoOutcome before

vars == <<workerVars, parentVars, graph, outcome>>

-----------------------------------------------------------------------------
\* shape: the first rule the graph breaks before any worker is needed -- wrong
\* inventory or payload (FAIL), another source format (UNSUPPORTED), too many
\* bytes (BLOCKED) -- or ok.  relations: the five required ones, exactly.
Graphs == [shape : {"ok", "FAIL", "UNSUPPORTED", "BLOCKED"}, relations : BOOLEAN]

Results == [kind : {"result"}, status : {"PASS"}]
Refusals ==
  [kind : {"unsupported_platform"}, status : {"UNSUPPORTED"}]
    \cup [kind : {"admission"}, status : {"UNSUPPORTED", "BLOCKED"}]
    \cup [kind : {"expansion_limit", "memory_exhaustion"}, status : {"BLOCKED"}]
    \cup [kind : {"parse_or_admission_error"}, status : {"UNSUPPORTED", "FAIL"}]
    \cup [kind : {"parse_error", "worker_error"}, status : {"FAIL"}]

NativeAnswers == Results \cup Refusals

Statuses  == {"PASS", "FAIL", "BLOCKED", "UNSUPPORTED", "NOT_ASSESSED"}
NoOutcome == "pending"

\* A mutant: the replay goes on without its memory limit.
PossibleAnywhere(answers) == answers

\* Without an enforced address-space limit the worker refuses to replay at all.
Possible(answers) ==
  {a \in answers : a.kind = "unsupported_platform" <=> limit # "enforced"}

\* A mutant: the kind of a refusal is taken for its status.
JudgedByKind(r) == IF r.status = "PASS" /\ ~graph.relations THEN "FAIL" ELSE r.kind

\* What an answer means for this graph.
Judged(r) == IF r.status = "PASS" /\ ~graph.relations THEN "FAIL" ELSE r.status

\* The status of an execution that ended for this reason, as the context's.
Reconstructed(reason) ==
  IF reason = "wall_clock_timeout" THEN "BLOCKED"
  ELSE IF reason \in ExecutionFailures THEN "NOT_ASSESSED"
  ELSE Judged(response)

-----------------------------------------------------------------------------
Init ==
  /\ WorkerInit
  /\ ParentInit
  /\ graph \in Graphs
  /\ outcome = NoOutcome

\* _native_replay_worker: only a replayed program and its counts can outgrow
\* the pipe's buffer.
NativeReplayWorker ==
  /\ WorkerStep(Possible(NativeAnswers), Possible(Results))
  /\ UNCHANGED <<parentVars, graph, outcome>>

\* The graph is refused on its shape.
Refuse ==
  /\ pc = "spawn"
  /\ graph.shape # "ok"
  /\ pc' = "done"
  /\ outcome' = graph.shape
  /\ handles' = {}
  /\ reaped' = TRUE
  /\ UNCHANGED <<stage, limit, answer, exitcode, torn, pipe, signalled,
                 expired, startup, response, timedOut, started, graph>>

\* _run_native_replay_isolated: a worker found dead in the loop is drained; one
\* found dead at the deadline is not.
RunIsolated ==
  /\ \/ graph.shape = "ok" /\ (StartFails \/ StartWorker)
     \/ ReadClock
     \/ PollNothing \/ Receive("poll", "check")
     \/ EndOfFile("poll", "leave") \/ BrokenMessage("poll")
     \/ CheckAlive("drain")
     \/ Receive("drain", "drain") \/ EndOfFile("drain", "leave") \/ BrokenMessage("drain")
     \/ Join("close")
     \/ CloseReceiving
     \/ TerminateAndReap
     \/ Reap
  /\ UNCHANGED <<graph, outcome>>

\* _reconstruct: what the replay returned, or the FAIL any exception becomes.
Reconstruct ==
  /\ pc \in {"assess", "raised"}
  /\ pc' = "done"
  /\ outcome' = IF pc = "raised" THEN "FAIL" ELSE Reconstructed(ExecutionReason)
  /\ UNCHANGED <<workerVars, expired, startup, response, timedOut, reaped, started, graph>>

TimePasses == Tick /\ UNCHANGED <<graph, outcome>>

Over == pc = "done" /\ ~Alive /\ UNCHANGED vars

Next == NativeReplayWorker \/ TimePasses \/ Refuse \/ RunIsolated \/ Reconstruct \/ Over

Spec == Init /\ [][Next]_vars

\* As for qcec: time passes, the validator runs, a write that is being read goes
\* on, SIGKILL kills.  A replay may run for ever.
Fairness ==
  /\ WF_vars(TimePasses)
  /\ WF_vars(Refuse \/ RunIsolated \/ Reconstruct)
  /\ WF_vars(FinishAnswer /\ UNCHANGED <<parentVars, graph, outcome>>)
  /\ WF_vars(KillTakesEffect /\ UNCHANGED <<parentVars, graph, outcome>>)

FairSpec == Spec /\ Fairness

-----------------------------------------------------------------------------
(* Properties.                                                             *)

\* Every variable has its type.
TypeOK ==
  /\ WorkerTypeOK(NativeAnswers)
  /\ ParentTypeOK(NativeAnswers)
  /\ graph \in Graphs
  /\ outcome \in Statuses \cup {NoOutcome}

\* A graph is reconstructed only from a replay that ran inside an enforced
\* memory limit, to its end, unsignalled, exit code zero -- and only if the
\* graph's own shape and relations agree with it.
PassIsReplayed ==
  outcome = "PASS" =>
    /\ graph.shape = "ok" /\ graph.relations
    /\ limit = "enforced" /\ answer \in Results
    /\ stage = "dead" /\ exitcode = "zero" /\ signalled = "none"

\* The answer of a worker that exited zero within the deadline is the one the
\* context is built from.
TimelyAnswerIsUsed ==
  pc = "done" /\ started /\ ~expired /\ exitcode = "zero" => response = answer

\* Whatever happens to the worker, the validator gets a context, with both
\* endpoints closed, and a worker that outlived the deadline is gone.
EveryReplayEnds == <>[](pc = "done" /\ handles = {} /\ (timedOut => ~Alive))

\* A worker ended by a signal is a worker failure, never a contradiction of the
\* graph it was replaying.
SignalIsNotAFailure ==
  pc = "done" /\ started /\ exitcode = "signal" => outcome # "FAIL"
=============================================================================
