SPECIFICATION Spec
INVARIANTS
  SignalIsNotAFailure
