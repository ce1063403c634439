SPECIFICATION SceneSpec
CONSTANTS
  Tokens = {t1, t2}
  Targets = {habit, task}
  Habits = {habit}
  Lengths = {0, 1, 2, 4}
  MinTarget = 2
  MaxTarget = 3
  MaxSeconds = 4
  Horizon = 6
  None = None
  Processes = {r1, r2, r3}
  Files = {f1}
  Keep = 1
  Seconds = 3
  Nightly = {n1, n2}
  Places = {db, lessons, tracks}
  Database = db
  MaxAttempts = 3
  Grace = 1
  Clock = 2
  Exports = {x1, x2}
  MaxLog = 3
  MaxRuns = 3
INVARIANTS NoStuckRun LedgerMatches BackupsHold RestoresAreWhole
PROPERTIES AttributionKept CountsLikeAStopwatch ExportsArrive DeliveriesAdvance
SYMMETRY Symmetry
CHECK_DEADLOCK FALSE
