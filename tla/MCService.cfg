SPECIFICATION SceneSpec
CONSTANTS
  Lessons = {l1}
  Keys = {k1, k2}
  Revs = {v1}
  Readers = {r1, r2}
  OneReader = {r1}
  Streams = {"stdout", "stderr"}
  OneStream = {"stdout"}
  GlobalLimit = 1
  PerLessonLimit = 1
  MaxTerminal = 1
  Retention = 2
  OutputLimit = 1
  MaxChunk = 1
  Kids = {}
  Incidents = {}
  TableIncidents = {"spawn"}
  StreamIncidents = {"output", "close", "read", "hook"}
  MaxJobs = 3
  Horizon = 3
  None = None
INVARIANTS TablesSound StreamsDeliver
SYMMETRY Symmetry
CHECK_DEADLOCK FALSE
