SPECIFICATION Spec
CONSTANTS
  MaxQubits = 3
  MaxGates = 4
  Programs <- MCPrograms
  Unparsed = unparsed
  Submissions <- MCSubmissions
  NativeSets <- MCNativeSets
  MaxEdits = 2
  None = none
INVARIANTS
  ClaimIsEarned
  ValidatedStillCompiles
  BuiltGraphsValidate
