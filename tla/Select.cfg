SPECIFICATION MCSpec
CONSTANTS
  Path <- MCPath
  Root = ""
  Up <- MCUp
  Above <- MCAbove
  Inode <- MCInode
  Git = {"d/s/.git"}
  ConfigName = {"d/s/config"}
  Reserved = {"d/.gitattributes"}
  Odd = {"d/odd"}
  Respelled = {"D"}
  Limits <- TightLimits
  Editable = {"d/a", "d/s/f", "d/s/.git", "x"}
  MaxEdits = 1
INVARIANTS
  Exact
  ChargedInFull
  SteadyAgrees
PROPERTIES
  Ends
CHECK_DEADLOCK FALSE
