SPECIFICATION Spec
CONSTANTS
  Candidates = {c1}
  Contracts = {k1}
  OtherTasks = {}
  Dependencies = {}
  Obligations = {o1, o2}
  Required = {o1, o2}
  NonWaivable = {o2}
  Times <- MCTimes
  ClockIsMonotone = TRUE
  FindingInputs <- MCFindings
  CIInputs = {"GREEN", "FAILED"}
  MaxAttempts = 1
  MaxReports = 1
  MaxResults = 3
  MaxWaivers = 1
  MaxCommits = 1
  None = None
INVARIANT ClosedOnGreen
PROPERTY NoMaskedFailure
CHECK_DEADLOCK FALSE
