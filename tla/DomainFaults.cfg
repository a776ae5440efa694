SPECIFICATION MCSpec
CONSTANTS
  k1 = k1
  k2 = k2
  k3 = k3
  f1 = f1
  f2 = f2
  t1 = t1
  t2 = t2
  File = {f1, f2}
  Key = {k1, k2, k3}
  Text = {t1, t2}
  Proc = {p1, p2}
  NoKey = NoKey
  NoText = NoText
  NoFile = NoFile
  NoProc = NoProc
  Lost = Lost
  Colliding = {t2}
  NulText = {t2}
  ForceBinary = {f1}
  DirOf <- MCDirOf
  RootDir = "root"
  MaxRing = 3
  Commands = {"encrypt", "assume", "decrypt", "require", "fresh", "continue", "prune"}
  MaxEdits = 0
  MaxFaults = 1
  CanKill = TRUE
  SyncCanFail = TRUE
  PowerCanFail = FALSE
  ReturnsMidRun = FALSE
  StartConfigs <- AllConfigs
  StartContents <- ManyContents
SYMMETRY Symmetry
INVARIANTS
  NothingStranded
  SuccessMeansDone
  OneAtATime
PROPERTIES
  KeepsPromise
  OnlyDecryptExposes
