SPECIFICATION Spec
CONSTANTS
  Candidates = {c1, c2}
  Contracts = {k1}
  OtherTasks = {}
  Dependencies = {}
  Obligations = {o1}
  Required = {o1}
  NonWaivable = {}
  Times <- MCTimes
  ClockIsMonotone = FALSE
  FindingInputs <- MCFindings
  CIInputs = {"GREEN"}
  MaxAttempts = 1
  MaxReports = 1
  MaxResults = 2
  MaxWaivers = 1
  MaxCommits = 1
  None = None
PROPERTY NoMaskedFailure
CHECK_DEADLOCK FALSE
