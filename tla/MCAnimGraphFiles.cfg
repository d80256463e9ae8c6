CONSTANTS
  File <- MCFile
  Text <- MCText
  Resolves <- MCResolves
  Tails <- MCTails
  ProjectRoot <- MCProject
  EngineRoot <- MCEngine
  Shared <- MCShared
  MaxGraphs = 2
  MaxIds = 3
  MaxVersions = 3
SPECIFICATION Spec
INVARIANT TypeOK
PROPERTIES
  OwnedGraphsStay
  WritesStayInTheProject
  SaveIsOfThatGraph
  FilesAreLoadedOnce
