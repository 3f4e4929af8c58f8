SPECIFICATION SessionSpec
CONSTANTS
  i1 = i1
  i2 = i2
  i3 = i3
  p1 = p1
  p2 = p2
  Instances = {i1, i2, i3}
  Processes = {p1, p2}
  ProcessOf <- MCProcessOf
  None = None
  Secret <- MCSecret
  MaxAppends = 4
INVARIANT SessionTypeOK
INVARIANT MutualExclusion
INVARIANT MetadataNamesHolder
INVARIANT FaithfulRead
PROPERTY ReadsExtend
PROPERTY TornForGood
PROPERTY ImplementsEventJournal
PROPERTY ImplementsExclusiveHold
PROPERTY NoOrphanLock
