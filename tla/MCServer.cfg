SPECIFICATION SceneFairSpec
CONSTANTS
  MaxKills = 2
  Arrivals = {"fresh", "upgrade", "renumbered", "overlap"}
  Conns = {c1, c2}
  Roles = {"lesson-agent"}
  MaxSessions = 1
  Grace = 0
  Ttl = 1
  MaxChunks = 2
  Ring = 1
  NoConn = NoConn
  Pump = Pump
INVARIANTS SessionsHold
PROPERTIES StartIsSound EveryStartServes Answered
