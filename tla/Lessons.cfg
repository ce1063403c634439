SPECIFICATION Spec
CONSTANTS
  Requests = {r1, r2, r3}
  MaxLessons = 2
  MaxEdits = 1
PROPERTIES NeverRepairs
CHECK_DEADLOCK FALSE
