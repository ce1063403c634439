SPECIFICATION SceneSpec
CONSTANTS
  r1 = r1
  r2 = r2
  r3 = r3
  r4 = r4
  k1 = k1
  k2 = k2
  q1 = q1
  q2 = q2
  p1 = p1
  p2 = p2
  Requests = {r1, r2, r3, r4}
  Opener = Opener
  KeyOf <- MCKeys
  TargetOf <- MCTargets
  Procs = {p1, p2}
  ProcOf <- MCProcs
  Budget = 1
  Foreign = Foreign
  Torn = Torn
  RacingEdits = {}
  MaxEdits = 1
  MaxCrashes = 1
  MaxRestores = 0
  Nobody = Nobody
INVARIANTS AnswersHold
PROPERTIES RefusedMeansNew EveryoneAnswered
