SPECIFICATION PairSpec
CONSTANTS
  circuit1 = circuit1
  circuit2 = circuit2
  garbage = garbage
  None = none
  Bytes = {circuit1, circuit2, garbage}
  Importable = {circuit1, circuit2}
  Equivalent <- MCEquivalent
INVARIANTS
  TypeOK
  ClaimIsAboutTheCapture
PROPERTIES
  InputsSurvive
