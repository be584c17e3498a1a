SPECIFICATION MCFairSpec
CONSTANTS
  Messages = {"m1", "m2"}
  Sender <- MCSender
  Says <- MCSays
  Users = {"amy", "ben"}
  Listed = {}
  Trusted = {"amy"}
  Names <- MCNames
  Fold <- MCFold
  Gear <- MCGear
  CombatTypes = {"bow", "shield"}
  AuraTypes = {"speed"}
  Levels = {"9"}
  MinAttack = 110
  MinWeapon = 12
  ShieldsKept = 1
  MaxSyncs = 1
  d1 = d1
  d2 = d2
  d3 = d3
  g1 = g1
  Groups = {g1}
  Private = Private
  Deliveries = {d1, d2, d3}
  Room <- MCRoom
  Replies <- MCReplies
  Limit = 2
  MaxDay = 1
INVARIANTS RepliesAreTrue
PROPERTIES CommandsKeepAuthority QuotaIsKept EveryEventSettles
CHECK_DEADLOCK FALSE
