SPECIFICATION Spec
CONSTANTS
  Keys = 2
  Chunk = 3
  Cap = 9
  Overhead = 1
  Budgets <- FullOrTight
  Sizes <- SomeSizes
  LineCounts <- FewLines
  Versions <- TwoVersions
  Runs <- SomeRuns
  MaxDamage = 2
INVARIANTS ForeignHoldsNothing AuthenticIsWhole
CHECK_DEADLOCK FALSE
