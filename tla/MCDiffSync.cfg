SPECIFICATION FairSpec
CONSTANTS
  upper = upper
  lower = lower
  other = other
  index = index
  trigger = trigger
  Tables = {upper, lower, other}
  Indexes = {index}
  Triggers = {trigger}
  Fold <- FoldCase
  Rank <- ByName
  Bodies = {b1}
  Absent = Absent
  MaxEdits = 3
  MaxFailures = 1
INVARIANTS TypeOK ReportsDifferences RefusalsAreMoves
PROPERTIES ImplementsAtomicReplica QuietFollows
