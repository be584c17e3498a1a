SPECIFICATION MCSpec
CONSTANTS
  p1 = p1
  Players = {p1, p2}
  Monsters = {m1}
  Levels = 2
  MaxHp = 2
  MaxMp = 1
  Cost = 1
  Skills <- TrialSkills
  Thorny = {m1}
  Parrying = {m1}
  Draining = {p1, m1}
  Time = {0, 1}
  Priority <- MCPriority
  MaxEvents = 5
  NoEvent = NoEvent
  Images = {"i1", "i2"}
  BotDir = "bot"
  ApiDir = "api"
  OutDirs = {"out", "bot"}
  Readers = {"r1"}
  Sendings = {"u1", "u2"}
  MaxPlan = 2
CONSTRAINT Bounded
ACTION_CONSTRAINT OneAnswer
INVARIANTS DeadHaveNoEvents
CHECK_DEADLOCK FALSE
