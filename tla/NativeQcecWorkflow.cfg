SPECIFICATION ComparisonSpec
CONSTANTS
  MaxQubits = 2
  MaxGates = 2
  Natives <- MCNatives
  Externals <- MCExternals
  Unparsed = unparsed
  None = none
INVARIANTS
  AdmissionIsTheSubset
  ClaimHoldsInFull
