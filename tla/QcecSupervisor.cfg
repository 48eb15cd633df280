SPECIFICATION FairSpec
INVARIANTS
  TypeOK
  ConclusionIsTheWorkers
  ForcedMeansBlocked
  NothingLeftBehind
PROPERTIES
  ForceIsLastResort
  CheckSpec
  EveryCallEnds
