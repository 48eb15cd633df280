SPECIFICATION FairSpec
INVARIANTS
  TypeOK
  AssessmentIsTheAnswer
PROPERTIES
  EveryCallEnds
