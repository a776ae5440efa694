SPECIFICATION MCPersistentSpec
CONSTANTS
  k1 = k1
  k2 = k2
  k3 = k3
  f1 = f1
  f2 = f2
  t1 = t1
  t2 = t2
  File = {f1, f2}
  Key = {k1, k2, k3}
  Text = {t1, t2}
  Proc = {p1}
  NoKey = NoKey
  NoText = NoText
  NoFile = NoFile
  NoProc = NoProc
  Lost = Lost
  Colliding = {t2}
  NulText = {}
  ForceBinary = {f1}
  DirOf <- MCDirOf
  RootDir = "root"
  MaxRing = 2
  Commands = {"encrypt", "assume", "decrypt", "require", "fresh", "continue", "prune"}
  MaxEdits = 0
  MaxFaults = 2
  CanKill = FALSE
  SyncCanFail = FALSE
  PowerCanFail = TRUE
  ReturnsMidRun = FALSE
  StartConfigs <- AllConfigs
  StartContents <- FewContents
PROPERTIES
  RotationFinishes
INVARIANTS
  TypeOK
  SurvivesPowerLoss
