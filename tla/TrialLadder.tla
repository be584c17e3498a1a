---------------------------- MODULE TrialLadder ----------------------------
(***************************************************************************)
(* What a guild trial promises, whatever happens in the fights: the levels *)
(* are climbed one at a time, each is cleared before the next spawns, none *)
(* spawns above the last, and the run ends once, for one of three reasons. *)
(* TrialCombat is the engine that is shown to implement it.                *)
(***************************************************************************)
EXTENDS Naturals

CONSTANT Levels        \* the levels of the trial: 100, 110, ... 300

VARIABLES
  level,      \* zone.spawnedLevels.length
  cleared,    \* simResult.encounters
  fighting,   \* the simulator has enemies
  stop        \* simulator.stopReason

ladderVars == <<level, cleared, fighting, stop>>

Running == "none"
StopReasons == {"party_wipe", "complete", "time_cap"}

LadderInit ==
  /\ level = 0
  /\ cleared = 0
  /\ fighting = FALSE
  /\ stop = Running

\* The next level spawns when all that spawned are cleared.
Climb ==
  /\ stop = Running /\ ~fighting /\ cleared = level /\ level < Levels
  /\ level' = level + 1
  /\ fighting' = TRUE
  /\ UNCHANGED <<cleared, stop>>

\* The last enemy falls; after the last level the trial is complete.
Clear ==
  /\ stop = Running /\ fighting
  /\ cleared' = cleared + 1
  /\ fighting' = FALSE
  /\ stop' = IF level = Levels THEN "complete" ELSE Running
  /\ UNCHANGED level

\* The party falls, in a fight or to what still burns after it.
Wipe ==
  /\ stop = Running /\ level > 0
  /\ stop' = "party_wipe"
  /\ UNCHANGED <<level, cleared, fighting>>

\* The time is over.
TimeUp ==
  /\ stop = Running
  /\ stop' = "time_cap"
  /\ UNCHANGED <<level, cleared, fighting>>

LadderNext == Climb \/ Clear \/ Wipe \/ TimeUp

LadderSpec == LadderInit /\ [][LadderNext]_ladderVars
-----------------------------------------------------------------------------
(* Stopped for "complete" says exactly that the last level is cleared      *)
(* (maximumLevelCleared of summarizeRun), and at any time the cleared      *)
(* levels are those that spawned but for the one being fought.             *)
LadderInv ==
  /\ level \in 0 .. Levels
  /\ fighting \in BOOLEAN
  /\ stop \in StopReasons \cup {Running}
  /\ fighting => level > 0
  /\ level = IF fighting THEN cleared + 1 ELSE cleared
  /\ (stop = "complete") <=> (cleared = Levels)
=============================================================================
