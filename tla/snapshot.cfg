SPECIFICATION Spec
CONSTANTS
  Items = {i1, i2}
  Families = {f, g}
  Own = own
  None = none
  Instances = {n1}
  Batch = batch
  MaxSweeps = 1
  MaxTrouble = 2
CHECK_DEADLOCK FALSE
INVARIANTS NoticeIsFollowed ShownOnce RightUnlessOvertaken
PROPERTIES CleanSweep
SYMMETRY Symmetry
