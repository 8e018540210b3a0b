CONSTANTS
  Entries <- Tree
  Contents <- Project
  Arguments <- MCCalls
  MaxCrashes = 1
  Reports <- SmallReports
  HideEqual = TRUE
  StrictTesting = FALSE
  Builds <- OneOrTwoArtifacts
  Linearization <- SolcLinearization
  Compiles <- SolcCompiles

SPECIFICATION ScriptsSpec

INVARIANTS
  LittleIsLost
  NoneUpdatedMeansUpToDate
  RowsAreExact
  ConflictsAreExact
  AnyTwoMayBeInherited

PROPERTIES
  RunsEnd

\* A comparison and a check of the inheritance order come to an end.
CHECK_DEADLOCK FALSE
