SPECIFICATION Spec
CONSTANTS
  Runs = {r1, r2}
  Files = {f1}
  Keep = 1
  Seconds = 2
INVARIANTS NewestKept
CHECK_DEADLOCK FALSE
