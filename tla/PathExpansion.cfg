SPECIFICATION Spec
CONSTANTS
  main = main
  sub = sub
  leaf = leaf
  Paths = {main, sub, leaf}
  Target = main
  Unknown = unknown
  Unbounded = unbounded
  Programs <- MCPrograms
  LimitChoices <- MCLimits
  Width = 2
  BitWidth = 2
  Shots = 2
  MaxRegister = 2
  MaxShots = 2
  MaxOperations = 3
  MaxPauliChecks = 2
  AnyOutcome = anyoutcome
  InvalidRequest = invalidrequest
  Demands <- MCDemands
INVARIANTS
  TypeOK
  AcceptedIsUnfolded
  RefusalsAreExact
  AcceptedIsExecutable
  ReportIsOfTheShots
  VerdictIsEarned
