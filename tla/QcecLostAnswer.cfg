SPECIFICATION Spec
INVARIANTS
  FinishedAnswerIsReported
