CONSTANTS
  MaxChangesets = 2
  MaxDispatches = 2
  MaxFailures = 1
  Minors = {8, 9}
  Clones = {runner, desk}
  runner = runner
  desk = desk
  MaxPushes = 2
  MaxDocs = 3
  access = access
  token = token
  accessHarness = accessHarness
  tokenHarness = tokenHarness
  wrapHarness = wrapHarness
  unknown = unknown
  AnyContract = AnyContract
  Specs <- MCSpecs
  Requests <- MCRequests
  Parallel = 2
  Chunks <- MCChunks
  MaxChunks = 1

SPECIFICATION WorkflowsSpec

INVARIANTS
  ReleaseOK
  VersionsFit
  VersionPRFits
  DocsStayInOrder
  ReportIsTrue

PROPERTIES
  ComesToRest
  AllAreReported

\* Maintainers may stop, the bounds stop them, and the prover's script ends.
CHECK_DEADLOCK FALSE
