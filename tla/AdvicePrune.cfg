SPECIFICATION MCSpec
CONSTANTS
  Path = {"d", "d/f", "x"}
  Above <- MCAbove
  MaxEntries = 3
  Commands = {"add", "binary", "exclude", "remove", "unmark", "unexclude"}
  MaxArgs = 1
  MaxRuns = 4
  MaxEdits = 1
  StartNodes <- PlainTrees
PROPERTIES
  AdviceIsSafe
CHECK_DEADLOCK FALSE
