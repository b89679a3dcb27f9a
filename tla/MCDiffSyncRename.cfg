SPECIFICATION FairSpec
CONSTANTS
  upper = upper
  lower = lower
  other = other
  index = index
  trigger = trigger
  Tables = {lower, other}
  Indexes = {index}
  Triggers = {}
  Fold <- FoldNone
  Rank <- InOrder
  Bodies = {b1}
  Absent = Absent
  MaxEdits = 2
  MaxFailures = 0
PROPERTY ReplicaFollows
