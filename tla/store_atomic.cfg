SPECIFICATION Spec
CONSTANTS
  s1 = s1
  s2 = s2
  bad = bad
  i1 = i1
  i2 = i2
  i3 = i3
  i4 = i4
  p1 = p1
  p2 = p2
  States = {s1, s2, bad}
  Unencodable = {bad}
  Pids = {p1, p2}
  Inodes = {i1, i2, i3}
  MaxSaves = 3
  MaxSweeps = 1
  MaxFailures = 2
  NoCheckpoint = NoCheckpoint
  Empty = Empty
  Torn = Torn
SYMMETRY MCSymmetry
INVARIANTS
  TypeOK
  NeverTorn
  TmpInPlace
  EventsExplained
PROPERTIES
  InstallsOwnState
  ImplementsAtomicCheckpoint
CHECK_DEADLOCK FALSE
