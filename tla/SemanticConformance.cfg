SPECIFICATION Spec
CONSTANTS
  good = good
  tampered = tampered
  alien = alien
  circuit = circuit
  mixed = mixed
  bare = bare
  dangling = dangling
  broken = broken
  Ids = {1, 2}
  CacheLimit = 2
  Graphs <- MCGraphs
  Contents <- MCContents
INVARIANTS
  TypeOK
  PassLeavesNothingOut
  OneContextPerReport
  CacheIsTheRecentPast
