CONSTANTS
  t1 = t1
  n1 = n1
  Cards <- MCCards
  TaskCards = {t1}
  Reports <- MCReports
  None = None
  MaxTyped = 1
  MaxClicks = 2
  MaxOthers = 1
SPECIFICATION Spec
CHECK_DEADLOCK FALSE
INVARIANTS OwnWords PublishedAsEdited
