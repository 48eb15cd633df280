CONSTANTS
  MaxQubits = 4
  MaxGates = 4
  Programs <- MCPrograms
  Topologies <- MCTopologies
  NativeSets <- MCNativeSets
SPECIFICATION RoutingSpec
INVARIANTS
  RoutedDoesWhatTheSourceDoes
  CompilesByDistance
