SPECIFICATION Spec
CONSTANTS
  Roles = {implementation, review}
  Candidates = {c1, c2, c3}
  None = None
INVARIANT TypeOK
INVARIANT EvidenceFitsRequest
INVARIANT HonestWorkNeedsNoChange
