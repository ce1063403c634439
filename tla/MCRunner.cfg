SPECIFICATION SceneSpec
CONSTANTS
  Lessons = {l1}
  Keys = {k1}
  Revs = {v1}
  Readers = {r1}
  Streams = {"stdout"}
  GlobalLimit = 1
  PerLessonLimit = 1
  MaxTerminal = 0
  Retention = 1
  OutputLimit = 1
  MaxChunk = 1
  Kids = {"holds"}
  Incidents = {"timeout", "output", "cancel", "shutdown", "crash", "spawn"}
  MaxJobs = 1
  Horizon = 0
  Faults = {"timeout", "spawn", "read", "close"}
  MaxNow = 1
  None = None
INVARIANTS CapacityAccounting TypeOK JobsEndClean
PROPERTIES CauseSettled JobsAndStreamsEnd
CHECK_DEADLOCK FALSE
