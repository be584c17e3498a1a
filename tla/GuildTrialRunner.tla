-------------------------- MODULE GuildTrialRunner --------------------------
(***************************************************************************)
(* GuildTrialRunner.run of packages/guild-trial-core/src/runner.ts, with   *)
(* the statistics of packages/combat-core/src/stats.ts, on the event loop. *)
(* The processor is one action; the schedule calls it makes are carried    *)
(* out by the loop's own Schedule, in the order of the code, before it     *)
(* returns.  What a member does (combatPort.nextAction) is external.       *)
(***************************************************************************)
EXTENDS EventLoop, FiniteSets
LOCAL INSTANCE FiniteSetsExt

CONSTANTS
    Party,     \* the members, as a sequence: the order of the request
    Interval,    \* attackIntervalMs of each member
    Mana,        \* maxManapoints, of every member
    RegenEvery,  \* PASSIVE_REGEN_INTERVAL_NS
    SpawnDelay,  \* rules.spawnDelayMs
    Duration,    \* rules.durationMs
    TopLevel,    \* the steps from startMonsterLevel to maxMonsterLevel
    Hp,          \* a boss's hit points, scaled by the number of members
    MaxDamage,   \* bound: what one action deals at most
    Absent

Who == {Party[i] : i \in DOMAIN Party}

\* run refuses a member named twice.
ASSUME PartyAssumption ==
    /\ Party \in Seq(Who)
    /\ \A i, j \in DOMAIN Party : Party[i] = Party[j] => i = j
ASSUME RunnerAssumption ==
    /\ Interval \in [Who -> Nat \ {0}] /\ Mana \in Nat /\ TopLevel \in Nat
    /\ RegenEvery \in Nat \ {0} /\ SpawnDelay \in Nat /\ Duration \in Time
    /\ Hp \in Nat \ {0} /\ MaxDamage \in Nat

\* Every instant of a trial is one an event may be scheduled at, and so are those
\* of the first attacks and the first regeneration.
ASSUME InstantsAssumption ==
    /\ 0..Duration \subseteq Time /\ RegenEvery \in Time /\ \A m \in Who : Interval[m] \in Time
    /\ {0, 10, 20} \subseteq Priority
ASSUME AbsentAssumption ==
    /\ Absent \notin Nat
    /\ Absent \notin [level: Nat, hp: Nat]

VARIABLES
    stage,    \* before the loop, in it, in the processor after its last
              \* statement, in it after a throw, or behind the loop
    calls,    \* the schedule calls still to be carried out
    payload,  \* the payload of every event issued
    boss,     \* currentBoss: its level and hit points, or Absent
    awaited,  \* pendingBossLevel
    cleared,  \* lastClearedBoss's level
    maxed,    \* maximumLevelCleared
    kills,    \* waveKills
    up,       \* whose currentHitpoints are not 0
    mana,     \* currentManapoints
    dealt,    \* totalDamage
    oomSince, oomTime,  \* when an open lack of mana began, and all closed ones
    result    \* what run returns

trial == <<boss, awaited, cleared, maxed, kills, up, mana, dealt, oomSince, oomTime>>
runnerVars == <<stage, calls, payload, trial, result>>
allVars == <<vars, runnerVars>>

Attack(m) == [kind |-> "memberAttack", who |-> m]
Regen == [kind |-> "passiveRegen"]
Spawn(l) == [kind |-> "spawnBoss", level |-> l]

PriorityOf(p) == CASE p.kind = "spawnBoss" -> 0
                   [] p.kind = "passiveRegen" -> 10
                   [] p.kind = "memberAttack" -> 20

\* Mutant: an event at the deadline itself is not queued.
CallMutant(t, p) == IF t < Duration THEN <<[at |-> t, load |-> p]>> ELSE <<>>
\* An event past the deadline is not queued.
Call(t, p) == IF t <= Duration THEN <<[at |-> t, load |-> p]>> ELSE <<>>

Fresh(l) == [level |-> l, hp |-> Hp]

\* recordManaAvailable closes an open lack of mana.
SinceAfter(S) == [m \in Who |-> IF m \in S THEN Absent ELSE oomSince[m]]
TimeAfter(S) ==
    [m \in Who |-> IF m \in S /\ oomSince[m] # Absent
                   THEN oomTime[m] + (now - oomSince[m]) ELSE oomTime[m]]

SpawnBoss(l) ==
    /\ boss' = Fresh(l) /\ awaited' = Absent
    /\ up' = Who /\ mana' = [m \in Who |-> Mana]
    /\ oomSince' = SinceAfter(Who) /\ oomTime' = TimeAfter(Who)
    /\ calls' = <<>>
    /\ UNCHANGED <<cleared, maxed, kills, dealt>>

\* A tick gives mana to those who are up, but closes no lack of mana.
PassiveRegen ==
    /\ \E gain \in [up -> 0..1] :
         mana' = [m \in Who |-> IF m \in up THEN Min({Mana, mana[m] + gain[m]})
                                            ELSE mana[m]]
    /\ calls' = Call(now + RegenEvery, Regen)
    /\ UNCHANGED <<boss, awaited, cleared, maxed, kills, up, dealt, oomSince, oomTime>>

\* Dead, or with nobody to fight.
NoTurn(m) ==
    /\ m \notin up \/ boss = Absent
    /\ calls' = Call(now + Interval[m], Attack(m))
    /\ UNCHANGED trial

OutOfMana(m, cost) ==
    /\ m \in up /\ boss # Absent /\ mana[m] < cost
    /\ oomSince' = [oomSince EXCEPT ![m] = IF @ = Absent THEN now ELSE @]
    /\ calls' = Call(now + Interval[m], Attack(m))
    /\ UNCHANGED <<boss, awaited, cleared, maxed, kills, up, mana, dealt, oomTime>>

\* Mutant: the whole damage is recorded, whatever the boss had left.
EffectiveMutant(damage) == damage
Effective(damage) == IF damage < boss.hp THEN damage ELSE boss.hp

NextLevel(l) == l + 1

\* The blow that kills the last boss ends its member's attacks.
Kill(m) ==
    /\ cleared' = boss.level /\ boss' = Absent
    /\ kills' = Append(kills, [level |-> boss.level, at |-> now])
    /\ IF boss.level >= TopLevel
       THEN maxed' = TRUE /\ awaited' = Absent /\ calls' = <<>>
       ELSE /\ maxed' = maxed /\ awaited' = NextLevel(boss.level)
            /\ calls' = Call(now + SpawnDelay, Spawn(NextLevel(boss.level)))
                          \o Call(now + Interval[m], Attack(m))

Hit(m, damage, cost) ==
    /\ m \in up /\ boss # Absent /\ mana[m] >= cost
    /\ mana' = [mana EXCEPT ![m] = @ - cost]
    /\ oomSince' = SinceAfter({m}) /\ oomTime' = TimeAfter({m})
    /\ dealt' = [dealt EXCEPT ![m] = @ + Effective(damage)]
    /\ IF damage >= boss.hp
       THEN Kill(m)
       ELSE /\ boss' = [boss EXCEPT !.hp = @ - damage]
            /\ calls' = Call(now + Interval[m], Attack(m))
            /\ UNCHANGED <<awaited, cleared, maxed, kills>>
    /\ up' = up

\* The processor, up to its return: what it schedules is left in calls.
Process ==
    /\ stage = "loop" /\ phase = "processing"
    /\ stage' = "handled"
    /\ LET load == payload[out.id] IN
       \/ load.kind = "spawnBoss" /\ SpawnBoss(load.level)
       \/ load.kind = "passiveRegen" /\ PassiveRegen
       \/ /\ load.kind = "memberAttack"
          /\ \/ NoTurn(load.who)
             \/ \E cost \in 0..1 : OutOfMana(load.who, cost)
             \/ \E damage \in 0..MaxDamage, cost \in 0..1 : Hit(load.who, damage, cost)
    /\ UNCHANGED <<vars, payload, result>>

\* validateAction throws, or spawnValidatedBoss: run ends with the error and returns
\* nothing.
Throw ==
    /\ stage = "loop" /\ phase = "processing"
    /\ LET load == payload[out.id] IN
       \/ load.kind = "spawnBoss"
       \/ load.kind = "memberAttack" /\ load.who \in up /\ boss # Absent
    /\ stage' = "thrown"
    /\ UNCHANGED <<vars, calls, payload, trial, result>>

ScheduleCall ==
    /\ calls # <<>>
    /\ Schedule(Head(calls).at, PriorityOf(Head(calls).load))
    /\ payload' = Append(payload, Head(calls).load)
    /\ calls' = Tail(calls)
    /\ UNCHANGED <<stage, trial, result>>

Start ==
    /\ stage = "setup" /\ calls = <<>>
    /\ RunUntil(Duration)
    /\ stage' = "loop"
    /\ UNCHANGED <<calls, payload, trial, result>>

DeliverEvent == Deliver /\ UNCHANGED runnerVars

Return ==
    /\ \/ stage = "handled" /\ calls = <<>> /\ stage' = "loop"
       \/ stage = "thrown" /\ stage' = "over"
    /\ Processed
    /\ phase' = IF stage = "handled" THEN "looping" ELSE "outside"
    /\ UNCHANGED <<calls, payload, trial, result>>

FinalBoss ==
    CASE boss # Absent -> boss
      [] boss = Absent /\ maxed -> [level |-> cleared, hp |-> 0]
      [] boss = Absent /\ ~maxed ->
           Fresh(IF awaited # Absent THEN awaited ELSE Len(kills))

\* The loop ends at the deadline, and run puts its result together.
Complete ==
    /\ stage = "loop"
    /\ Finish
    /\ stage' = "over"
    /\ result' = [level |-> FinalBoss.level, hp |-> IF maxed THEN 0 ELSE FinalBoss.hp,
                  waves |-> Len(kills), awaiting |-> ~maxed /\ boss = Absent,
                  maxed |-> maxed,
                  oom |-> [m \in Who |-> oomTime[m] +
                             IF oomSince[m] = Absent THEN 0 ELSE Duration - oomSince[m]]]
    /\ UNCHANGED <<calls, payload, trial>>

\* A boss that is only put together for the result may be refused as well.
CompleteThrows ==
    /\ stage = "loop"
    /\ Finish
    /\ boss = Absent /\ ~maxed
    /\ stage' = "over"
    /\ UNCHANGED <<calls, payload, trial, result>>

RunnerInit ==
    /\ Init
    /\ stage = "setup" /\ payload = <<>> /\ result = Absent
    /\ calls = [i \in DOMAIN Party |->
                   [at |-> Interval[Party[i]], load |-> Attack(Party[i])]]
               \o <<[at |-> RegenEvery, load |-> Regen]>>
    /\ boss = Fresh(0) /\ awaited = Absent /\ cleared = Absent /\ maxed = FALSE
    /\ kills = <<>>
    /\ up \in SUBSET Who /\ mana \in [Who -> 0..Mana]
    /\ dealt = [m \in Who |-> 0]
    /\ oomSince = [m \in Who |-> Absent] /\ oomTime = [m \in Who |-> 0]

RunnerNext ==
    \/ Start \/ ScheduleCall \/ DeliverEvent
    \/ Process \/ Throw \/ Return \/ Complete \/ CompleteThrows

RunnerSpec == RunnerInit /\ [][RunnerNext]_allVars

-----------------------------------------------------------------------------
(* Properties                                                              *)

Queued(S) == {e \in pending : payload[e.id] \in S}

\* Between two events every member has one attack ahead, unless it lies past the
\* end of the trial or the member has slain the last boss; the regeneration too.
\* A handler that returned before its last statement would silence a member.
EveryoneHasATurn ==
    stage = "loop" /\ phase = "looping" =>
        /\ \A m \in Who :
             \/ Cardinality(Queued({Attack(m)})) = 1
             \/ Queued({Attack(m)}) = {} /\ (maxed \/ now + Interval[m] > Duration)
        /\ Cardinality({m \in Who : Queued({Attack(m)}) = {} /\ now + Interval[m] <= Duration}) <= 1
        /\ Cardinality(Queued({Regen})) = 1 \/ now + RegenEvery > Duration

\* There is a boss, or one is on its way, or it would come too late, or the last
\* one is slain: never two of these, and the levels follow the kills.
OneBossAtATime ==
    stage = "loop" /\ phase = "looping" =>
        LET coming == Queued({Spawn(l) : l \in 0..TopLevel}) IN
        /\ Cardinality(coming) <= 1
        /\ (boss # Absent) = (awaited = Absent /\ ~maxed)
        /\ boss # Absent => coming = {} /\ boss.level = Len(kills) /\ boss.hp > 0
        /\ awaited # Absent =>
             /\ awaited = Len(kills)
             /\ coming = {} =>
                  kills[Len(kills)].at + SpawnDelay > Duration
        /\ maxed => coming = {} /\ Len(kills) = TopLevel + 1

\* What run returns fits together: the level shown is the one after the waves
\* cleared, and nobody was out of mana for longer than the trial.
ResultFits ==
    result # Absent =>
        /\ result.level = IF result.maxed THEN TopLevel ELSE result.waves
        /\ result.awaiting => result.hp = Hp
        /\ result.maxed => result.hp = 0 /\ result.waves = TopLevel + 1
        /\ \A m \in Who : result.oom[m] \in 0..Duration

\* One element for every point of damage that a member has dealt.
PointsOf(damage) == UNION {{<<m, p>> : p \in 1..damage[m]} : m \in Who}

\* The damage dealt is what the bosses lost.
DamageAddsUp ==
    result # Absent =>
        Cardinality(PointsOf(dealt)) =
            result.waves * Hp + (IF result.maxed THEN 0 ELSE Hp - result.hp)

\* The trial and its result add up, at every event and at the end.
TrialAddsUp == OneBossAtATime /\ ResultFits /\ DamageAddsUp
=============================================================================
