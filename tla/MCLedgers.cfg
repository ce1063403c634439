SPECIFICATION Spec
CONSTANTS
  Writers = {w1, w2}
  Processes = {p1, p2}
  SubmitKeys = {k1, k2}
  MaxMeddling = 1
  Clients = {w1, w2}
  Days = {1}
  Cards = {a1}
  Statuses = {p1, p2}
  Notes = {k1, k2}
  None = None
  MaxItems = 1
  MaxRows = 2
INVARIANTS ProjectionIsAFold
PROPERTIES AssessmentsHold HabitsReplay
SYMMETRY Symmetry
CHECK_DEADLOCK FALSE
