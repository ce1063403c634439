SPECIFICATION Spec
CONSTANTS
  Tasks = {t1, t2}
  Tabs = {b1, b2}
  DoneLimit = 1
  Panes = {t1}
  NoTask = NoTask
  MaxActs = 4
  MaxLossyActs = 3
  MaxLost = 1
  Bytes = {"x", "y"}
  MaxWrites = 2
  MaxLoads = 2
  Readers = {r1, r2}
  Questions = {q1, q2}
  MaxAttempts = 2
  MaxRows = 3
INVARIANTS BoardHonest LastGestureStored AnswersMatchThePage CursorTellsThePanel
CHECK_DEADLOCK FALSE
