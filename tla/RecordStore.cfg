SPECIFICATION Spec
CONSTANTS
  v1 = v1
  v2 = v2
  s1 = s1
  Processes = {p1, p2}
  Records = {r1}
  Current = current
  Values = {v1, v2, s1}
  Secrets = {s1}
  Torn = Torn
  None = None
  MaxCalls = 2
INVARIANT TypeOK
INVARIANT NoTornRecord
INVARIANT SecretsStayOut
INVARIANT OneCreator
PROPERTY RecordsImmutable
PROPERTY ImplementsAtomicStore
PROPERTY CallsEnd
CHECK_DEADLOCK FALSE
