SPECIFICATION FairSpec
INVARIANTS
  TypeOK
  PassIsReplayed
  TimelyAnswerIsUsed
PROPERTIES
  EveryReplayEnds
