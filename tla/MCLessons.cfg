SPECIFICATION Spec
CONSTANTS
  Requests = {q1, q2, q3}
  MaxLessons = 2
  Builds = {b1, b2}
  MaxWrites = 2
  MaxEvents = 1
  MaxUrls = 2
  Others = {u1, u2}
  Noise = 2
  Waiting = 4
  r1 = r1
  r2 = r2
  r3 = r3
  r4 = r4
  Runs = {r1, r2, r3, r4}
  Migrators = {m1, m2}
  Bundles = {s1, s2}
  MaxEdits = 1
  Prepares = {o1, o2, o3}
  MaxMeddling = 2
  Saves = {a1, a2}
  Processes = {p1, p2}
  Contents = {c1, c2}
  Foreign = Foreign
  Torn = Torn
  RacingEdits = {"save", "append", "remove"}
  Bytes <- MCTight
  MaxBytes = 4
  MaxCrashes = 1
  MaxOpens = 1
  Submits = {r1, r2}
  Visitor = Visitor
  KeyOf <- MCOwnKeys
  TargetOf <- MCOneTarget
  Procs = {"p1", "p2"}
  ProcOf <- MCTwoProcs
  Budget = 3
  MaxRestores = 1
  NoHolder = NoHolder
INVARIANTS LessonsAreTold OneBuildAtATime VerdictsAreEarned RunLogTells
PROPERTIES BuildEndsTrue ArtifactsKeepTheirWord WorkspaceHolds MigrationIsReversible VouchedIsAuthority
