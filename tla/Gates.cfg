SPECIFICATION MCGatesSpec
CONSTANTS
  k1 = k1
  k2 = k2
  k3 = k3
  f1 = f1
  f2 = f2
  t1 = t1
  t2 = t2
  t3 = t3
  File = {f1}
  Key = {k1, k2, k3}
  Text = {t1, t2, t3}
  Proc = {p1}
  NoKey = NoKey
  NoText = NoText
  NoFile = NoFile
  NoProc = NoProc
  Lost = Lost
  Colliding = {t2, t3}
  NulText = {}
  ForceBinary = {f1}
  DirOf <- MCDirOf
  RootDir = "root"
  MaxRing = 3
  Commands = {"encrypt", "fresh", "prune"}
  MaxEdits = 1
  MaxFaults = 1
  CanKill = FALSE
  SyncCanFail = FALSE
  PowerCanFail = TRUE
  ReturnsMidRun = FALSE
  StartConfigs <- GatesConfigs
  StartContents <- GatesContents
  Reader = {r1, r2}
  Headed = {t2}
  ScanReports = {"status", "check", "verify"}
  ReadCanFail = FALSE
SYMMETRY ReaderSymmetry
INVARIANTS
  GateIsComplete
  NoFalseAlarm
  VerifyVouches
  VerifyAgreesWithPrune
