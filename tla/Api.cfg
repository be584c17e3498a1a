SPECIFICATION MCSpec
CONSTANTS
  Names <- MCNames
  Players = {1, 2}
  Tokens = {"t"}
  Fold <- MCFold
  Lower <- MCFold
  ReporterLists <- MCReporterLists
  GuardFrom = 3
  None = None
  Sealed = Sealed
  Slots = {1, 2}
  Fields = {"houseRooms"}
  Values = {"old", "new"}
  Idle = Idle
  Members = {m, n}
  Resting = {n}
  Trials = {1, 2, 3, 4}
  Combat <- MCCombat
  SetOf <- MCSetOf
  MaxRoom = 2
  MaxRuns = 2
  Makers = {"formal", "test", "script"}
  Null = Null
  Time = {0, 1, 2, 3, 4, 5, 6, 7, 8}
  Priority <- MCPriority
  MaxEvents = 18
  NoEvent = NoEvent
  Absent = Absent
  Party <- MCParty
  Interval <- MCInterval
  Mana = 1
  RegenEvery = 2
  SpawnDelay = 1
  Duration = 8
  TopLevel = 2
  Hp = 2
  MaxDamage = 2
CONSTRAINT Apart
ACTION_CONSTRAINT OneCheck
CHECK_DEADLOCK FALSE
INVARIANTS
  RosterIsSound
  CaptureCarried
  CheckIsTrue
  ShownIsFormal
  AssignmentsFit
  EventsAreKept
  EveryoneHasATurn
  TrialAddsUp
PROPERTIES
  PlayerRegisteredOnce
  NothingDueIsLeft
