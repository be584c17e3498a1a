SPECIFICATION MCSpec
CONSTANTS
  Names <- MCLifeNames
  Fold <- MCLifeFold
  Trials = {1, 2}
  Floor <- MCFloor
  Rooms <- MCRooms
  Unscaled <- MCUnscaled
  Share = 4
  Full = 2
  Certain = 4
  LifeInputs <- MCLifeInputs
  Auras = {1, 2, 3}
  AuraRank <- MCAuraRank
  Registered = {1, 2, 3}
  AuraInputs <- MCAuraInputs
  RoleOrder <- MCRoleOrder
  ByName <- MCByName
  Preferred <- MCPreferred
  Tenths <- MCTenths
  Reserve = 2
  MinGap = 1
  MaxSwaps = 20
  TeamCap = 4
  AuraOrder <- MCLabAuras
  MinAttack = 1
  MinPrimary = 1
  MinWeapon = 1
  ShieldsPerSide = 1
  Scores = {1, 2}
  Validated = 1
  PolicyRank <- MCPolicyRank
  LabInputs <- MCLabInputs
  CoverageSeats = 1
  PollenSeats = 1
  PipelineInputs <- MCPipelineInputs
  Packages <- MCPackages
  PestilentSeats = 1
  Applied = {0, 1, 2}
  MaxWrites = 3
  MaxRunning = 2
  Sweeps <- MCSweeps
  Results <- MCResults
  Finalists = 3
  MaxDeaths = 0
  Tasks = {t1, t2, t3, t4}
  Workers = {w1, w2}
  NoTask = NoTask
INVARIANTS PinnedRolesStay
CHECK_DEADLOCK FALSE
