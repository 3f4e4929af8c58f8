SPECIFICATION Spec
CONSTANTS
  tracked = tracked
  new = new
  scratch = scratch
  a = a
  b = b
  Paths = {tracked, new, scratch}
  Contents = {a, b}
  Baseline <- MCBaseline
  Ignored = {scratch}
  None = None
INVARIANT TypeOK
INVARIANT UntouchedExact
INVARIANT CleanIsBaseline
