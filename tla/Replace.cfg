CONSTANTS
  Proc = {p1, p2}
  Root = {r1}
  RootOf <- OneRoot
  Inode = {i1, i2, i3}
  Temp = {t1}
  Target = "target"
  Text = {a, b}
  a = a
  b = b
  Turned <- Other
  Torn = Torn
  NoInode = NoInode
  NoTemp = NoTemp
  NoSnap = NoSnap
  Exposed = {TRUE, FALSE}
  MaxClock = 2
  MaxEdits = 1
  MaxFaults = 2
  p1 = p1
  p2 = p2
  r1 = r1
  i1 = i1
  i2 = i2
  i3 = i3
  t1 = t1
SPECIFICATION Spec
SYMMETRY Symmetric
INVARIANTS DurableIsDurable SnapshotIsOfOurs OnlyLiveTemps
PROPERTIES KeepsPromise NoSilentOverwrite NeverOpensUp
