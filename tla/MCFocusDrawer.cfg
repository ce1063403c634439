SPECIFICATION FairDrawerSpec
CONSTANTS
    b1 = b1
    b2 = b2
    Tokens = {t1}
    Targets = {}
    Habits = {}
    Lengths = {1}
    MinTarget = 1
    MaxTarget = 1
    MaxSeconds = 1
    Horizon = 1
    None = None
    Tabs = {b1, b2}
    Awake = {b1}
    MaxFlight <- MCFlight
    MaxLost = 1
INVARIANTS TabsHonest
PROPERTIES TabsConverge
CHECK_DEADLOCK FALSE
