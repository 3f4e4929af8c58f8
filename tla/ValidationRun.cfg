SPECIFICATION FairSpec
CONSTANTS
  p1 = p1
  p2 = p2
  test = test
  login = login
  Processes <- MCProcesses
  WithEvidence <- MCWithEvidence
  Commands <- MCCommands
  Secrets <- MCSecrets
  Ids = {v1, v2}
  Punctual = FALSE
  Torn = Torn
  None = None
  MaxRuns = 2
INVARIANT TypeOK
INVARIANT HonestAnswers
INVARIANT AnsweredIsQuiet
INVARIANT RunningIsUnreported
INVARIANT RecordedEvidence
INVARIANT NothingSecretLeaves
PROPERTY RunsEnd
