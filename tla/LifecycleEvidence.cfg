SPECIFICATION Spec
CONSTANTS
  Candidates = {c1, c2}
  Contracts = {k1, k2}
  OtherTasks = {t1, t2}
  Dependencies = {t1}
  Obligations = {o1}
  Required = {o1}
  NonWaivable = {}
  Times <- MCTimes
  ClockIsMonotone = TRUE
  FindingInputs <- MCFindings
  CIInputs = {"GREEN"}
  MaxAttempts = 2
  MaxReports = 1
  MaxResults = 1
  MaxWaivers = 1
  MaxCommits = 2
  None = None
INVARIANT TypeOK
INVARIANT CommitBacked
INVARIANT ApprovalsBacked
INVARIANT ClosedOnGreen
INVARIANT DependenciesFirst
INVARIANT ConditionsLeadOn
PROPERTY NoBypass
PROPERTY ImplementsPipeline
SYMMETRY MCSymmetry
CHECK_DEADLOCK FALSE
