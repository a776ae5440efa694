SPECIFICATION MCSpec
CONSTANTS
  Path = {"d", "d/f", "x"}
  Above <- MCAbove
  MaxEntries = 3
  Commands = {"add", "binary", "exclude", "remove", "unmark", "unexclude"}
  MaxArgs = 2
  MaxRuns = 4
  MaxEdits = 1
  StartNodes <- PlainTrees
INVARIANTS
  TypeOK
  DraftConsistent
PROPERTIES
  LossesAreExcused
  CommitsKeepSight
  ExclusionsHideNothing
  AddOnlyWidens
CHECK_DEADLOCK FALSE
