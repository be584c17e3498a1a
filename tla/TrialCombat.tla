---------------------------- MODULE TrialCombat ----------------------------
(***************************************************************************)
(* The combat engine that runs a guild trial: CombatSimulator (generated   *)
(* from the upstream simulator) with the zone of guild-trial-runner.       *)
(*                                                                         *)
(* The engine is a queue of events that wake units up. A unit lives by the *)
(* events pending for it, so the model keeps, of every unit, its hit and   *)
(* mana points, what controls it, and which kinds of events are queued for *)
(* it; an action is the whole handler of one event. Left out:              *)
(*   - times. Durations depend on speeds, hastes and buffs, so any queued  *)
(*     event may be the next, and the time limit may be met at any event;  *)
(*   - amounts: a hit takes any number of points, a heal gives any number; *)
(*   - buffs, and events that only expire one or only check consumables,   *)
(*     of which the trial gives its players none;                          *)
(*   - the second effect that a weapon's proc adds to a cast, a cast that  *)
(*     marks one target in two ways, mana that hits and procs give back    *)
(*     to a player (regeneration gives it too), and promote, which no      *)
(*     trial monster has.                                                  *)
(* Two events of one kind queued for one unit are one member of its set,   *)
(* and such an event may stay queued when it fires: await and bleeding.    *)
(***************************************************************************)
EXTENDS Naturals, FiniteSets

CONSTANTS
  Players, Monsters,   \* the party, and the enemies of one level
  Levels,
  MaxHp, MaxMp, Cost,  \* points of a fresh unit, and the mana of one cast
  Skills,              \* the effects of each unit's abilities
  Thorny,              \* units with thorns or retaliation
  Parrying,            \* units that parry
  Draining             \* units whose hits give them hit points

Units == Players \cup Monsters
Effects == {"harm", "stun", "blind", "silence", "bleed", "spend", "heal", "revive", "buff"}

ASSUME UnitsAssumption ==
  /\ IsFiniteSet(Players) /\ IsFiniteSet(Monsters)
  /\ Players # {} /\ Monsters # {} /\ Players \cap Monsters = {}
  /\ Thorny \subseteq Units /\ Parrying \subseteq Units /\ Draining \subseteq Units
ASSUME PointsAssumption ==
  /\ Levels \in Nat \ {0} /\ MaxHp \in Nat \ {0} /\ MaxMp \in Nat /\ Cost \in Nat
ASSUME SkillsAssumption == Skills \in [Units -> (SUBSET Effects) \ {{}}]

VARIABLES
  units,      \* the players and the enemies of the level
  clock,      \* the queued events that belong to no unit
  fighting,   \* this.enemies is not null
  level,      \* how many levels the zone has spawned
  cleared,    \* simResult.encounters
  stop        \* this.stopReason

vars == <<units, clock, fighting, level, cleared, stop>>
ladder == <<fighting, level, cleared, stop>>

Acts == {"autoAttack", "abilityCastEnd"}
Events == Acts \cup {"stunExpiration", "blindExpiration", "silenceExpiration",
                     "awaitCooldown", "damageOverTime"}
Controls == {"stunned", "blinded", "silenced"}
ClockEvents == {"combatStart", "enemyRespawn", "regenTick", "enrageTick"}
Running == "none"

Unit == [hp : 0 .. MaxHp, mp : 0 .. MaxMp, cc : SUBSET Controls, oom : BOOLEAN,
         pend : SUBSET Events]

Alive(u) == units[u].hp > 0
Friends(u) == IF u \in Players THEN Players ELSE Monsters
Foes(u) == IF u \in Players THEN Monsters ELSE Players
Without(u, e) == [units[u] EXCEPT !.pend = @ \ {e}]

\* A unit as a level finds it: healed, free, with nothing queued.
Fresh == [hp |-> MaxHp, mp |-> MaxMp, cc |-> {}, oom |-> FALSE, pend |-> {}]
-----------------------------------------------------------------------------
(* addNextAttackEvent: what may become of unit x when it looks for its     *)
(* next act.                                                               *)

CanPay(x) == x.hp > 0 /\ x.mp >= Cost

\* x.mp is checked when the cast starts and paid when it ends.
Casting(x) == [x EXCEPT !.pend = @ \cup {"abilityCastEnd"}, !.oom = FALSE]

\* Nothing to attack, nothing; blinded, x waits; otherwise it swings.
Swinging(x, foes) ==
  CASE ~foes -> x
    [] foes /\ "blinded" \in x.cc -> [x EXCEPT !.oom = TRUE]
    [] foes /\ "blinded" \notin x.cc -> [x EXCEPT !.pend = @ \cup {"autoAttack"}]

\* A bug: the mana is not looked at when the cast starts.
NextActMutant(x, foes) ==
  IF x.pend \cap Acts # {} THEN {x}
  ELSE {Swinging(x, foes)} \cup
       {Casting(y) : y \in {z \in {x} : z.hp > 0 /\ z.cc \cap {"stunned", "silenced"} = {}}}

\* An ability triggers, or none does, by its cooldown and its triggers.
NextAct(x, foes) ==
  IF x.pend \cap Acts # {} THEN {x}
  ELSE {Swinging(x, foes)} \cup
       {Casting(y) : y \in {z \in {x} : CanPay(z) /\ z.cc \cap {"stunned", "silenced"} = {}}}
-----------------------------------------------------------------------------
(* What a hit leaves on its target.                                        *)

Stunned(x) ==
  {[x EXCEPT !.cc = @ \cup {"stunned"}, !.pend = (@ \ Acts) \cup {"stunExpiration"}]}

Blinded(x) ==
  LET seen == [x EXCEPT !.cc = @ \cup {"blinded"}]
      next == IF "autoAttack" \in x.pend
              THEN NextAct([seen EXCEPT !.pend = @ \ {"autoAttack"}], TRUE) ELSE {seen}
  IN {[y EXCEPT !.pend = @ \cup {"blindExpiration"}] : y \in next}

\* A bug: the expiry is queued only where a cast was broken.
SilencedMutant(x) ==
  LET mute == [x EXCEPT !.cc = @ \cup {"silenced"}]
  IN IF "abilityCastEnd" \in x.pend
     THEN {[y EXCEPT !.pend = @ \cup {"silenceExpiration"}] :
             y \in NextAct([mute EXCEPT !.pend = @ \ {"abilityCastEnd"}], TRUE)}
     ELSE {mute}

Silenced(x) ==
  LET mute == [x EXCEPT !.cc = @ \cup {"silenced"}]
      next == IF "abilityCastEnd" \in x.pend
              THEN NextAct([mute EXCEPT !.pend = @ \ {"abilityCastEnd"}], TRUE) ELSE {mute}
  IN {[y EXCEPT !.pend = @ \cup {"silenceExpiration"}] : y \in next}

Marked(x, effect) ==
  {x} \cup CASE effect = "stun" -> Stunned(x)
             [] effect = "blind" -> Blinded(x)
             [] effect = "silence" -> Silenced(x)
             [] effect = "bleed" -> {[x EXCEPT !.pend = @ \cup {"damageOverTime"}]}
             [] effect = "harm" -> {}

\* A bug: only the fallen unit's own acts are cleared.
SettledMutant(x) == IF x.hp = 0 THEN [x EXCEPT !.pend = @ \ Acts] ELSE x

\* clearEventsForUnit of a unit that has fallen.
Settled(x) == IF x.hp = 0 THEN [x EXCEPT !.pend = {}] ELSE x

(* processAttack, once for every struck foe: the hit points that s and     *)
(* they may be left with. Thorns, retaliation and a parry answer s; hits   *)
(* that drain give points to s, and to who parried.                        *)
Blows(s, struck) ==
  {h \in [struck \cup {s} -> 0 .. MaxHp] :
     /\ \A t \in struck : h[t] <= units[t].hp \/ t \in Parrying \cap Draining
     /\ s \in Draining \/ h[s] <= units[s].hp
     /\ struck \cap (Thorny \cup Parrying) # {} \/ h[s] >= units[s].hp}

Struck(h) == [u \in Units |-> IF u \in DOMAIN h THEN [units[u] EXCEPT !.hp = h[u]] ELSE units[u]]

-----------------------------------------------------------------------------
(* checkEncounterEnd on the units an event has left: the party's fall      *)
(* comes first, then the enemies'.                                         *)

PartyWiped(after) == \A p \in Players : after[p].hp = 0
EnemiesFell(after) == fighting /\ \A m \in Monsters : after[m].hp = 0
EncounterEnds(after) == PartyWiped(after) \/ EnemiesFell(after)

\* setStopReason empties the queue.
Stop(after, reason) ==
  /\ stop' = reason
  /\ units' = [u \in Units |-> [after[u] EXCEPT !.pend = {}]]
  /\ clock' = {}

PartyWipe(after) ==
  /\ PartyWiped(after)
  /\ Stop(after, "party_wipe")
  /\ UNCHANGED <<fighting, level, cleared>>

TrialComplete(after) ==
  /\ EnemiesFell(after) /\ ~PartyWiped(after)
  /\ level = Levels
  /\ cleared' = cleared + 1
  /\ fighting' = FALSE
  /\ Stop(after, "complete")
  /\ UNCHANGED level

\* A bug: the last level is taken for the one after it.
LevelClearedMutant(after) ==
  /\ EnemiesFell(after) /\ ~PartyWiped(after)
  /\ level <= Levels
  /\ cleared' = cleared + 1
  /\ fighting' = FALSE
  /\ units' = [u \in Units |-> [after[u] EXCEPT !.pend = @ \ {"autoAttack"}]]
  /\ clock' = clock \cup {"enemyRespawn"}
  /\ UNCHANGED <<level, stop>>

\* Casts, bleeding and what controls the players go on until the respawn.
LevelCleared(after) ==
  /\ EnemiesFell(after) /\ ~PartyWiped(after)
  /\ level < Levels
  /\ cleared' = cleared + 1
  /\ fighting' = FALSE
  /\ units' = [u \in Units |-> [after[u] EXCEPT !.pend = @ \ {"autoAttack"}]]
  /\ clock' = clock \cup {"enemyRespawn"}
  /\ UNCHANGED <<level, stop>>

EndEncounter(after) == PartyWipe(after) \/ TrialComplete(after) \/ LevelCleared(after)

GoOn(after) == units' = after /\ UNCHANGED <<clock, ladder>>

Check(after) == EndEncounter(after) \/ (~EncounterEnds(after) /\ GoOn(after))
-----------------------------------------------------------------------------
TrialInit ==
  /\ units = [u \in Units |-> [Fresh EXCEPT !.hp = IF u \in Players THEN MaxHp ELSE 0]]
  /\ clock = {"combatStart"}
  /\ fighting = FALSE
  /\ level = 0
  /\ cleared = 0
  /\ stop = Running

\* startNewEncounter: new enemies, new clocks, and everyone seeks an act.
StartEncounter ==
  /\ level' = level + 1
  /\ fighting' = TRUE
  /\ clock' = {"regenTick", "enrageTick"}
  /\ units' \in [Units -> NextAct(Fresh, TRUE)]
  /\ UNCHANGED <<cleared, stop>>

\* processCombatStartEvent.
CombatStart ==
  /\ stop = Running /\ "combatStart" \in clock
  /\ StartEncounter

\* processEnemyRespawnEvent, with the trial's reset: the queue is emptied
\* and every player, fallen or not, is fresh again.
EnemyRespawn ==
  /\ stop = Running /\ "enemyRespawn" \in clock
  /\ StartEncounter

\* processAutoAttackEvent: one foe, or several by piercing or mayhem. The
\* attacker seeks its next act unless the encounter is over.
AutoAttack(s) ==
  /\ stop = Running /\ fighting /\ "autoAttack" \in units[s].pend
  /\ \E struck \in (SUBSET {t \in Foes(s) : Alive(t)}) \ {{}} :
     \E h \in Blows(s, struck) :
       LET hit == [Struck(h) EXCEPT ![s].pend = @ \ {"autoAttack"}]
           after == [u \in Units |-> IF u \in DOMAIN h THEN Settled(hit[u]) ELSE units[u]]
       IN \/ EndEncounter(after)
          \/ /\ ~EncounterEnds(after)
             /\ \E x \in NextAct(after[s], TRUE) : GoOn([after EXCEPT ![s] = x])

\* The end of tryUseAbility: the caster seeks its next act, and is cleared
\* if it has fallen itself.
FinishCast(s, done) ==
  \E x \in NextAct(done[s], fighting) :
    Check([done EXCEPT ![s] = Settled(x)])

\* The caster pays when the cast ends.
Paid(s) == [units EXCEPT ![s].pend = @ \ {"abilityCastEnd"}, ![s].mp = @ - Cost]

CastEnds(s) ==
  stop = Running /\ "abilityCastEnd" \in units[s].pend /\ CanPay(units[s])

\* processAbilityDamageEffect. Without enemies it does nothing.
CastHarm(s) ==
  /\ CastEnds(s) /\ fighting
  /\ \E effect \in Skills[s] \cap {"harm", "stun", "blind", "silence", "bleed"} :
     \E struck \in (SUBSET {t \in Foes(s) : Alive(t)}) \ {{}} :
     \E h \in Blows(s, struck) :
       LET hit == [Struck(h) EXCEPT ![s].pend = Paid(s)[s].pend, ![s].mp = Paid(s)[s].mp]
       IN \E left \in [struck -> UNION {Marked(hit[t], effect) : t \in struck}] :
            /\ \A t \in struck : left[t] \in Marked(hit[t], effect)
            /\ FinishCast(s, [u \in Units |-> IF u \in struck THEN Settled(left[u]) ELSE hit[u]])

\* processAbilityHealEffect: living friends gain points.
CastHeal(s) ==
  /\ CastEnds(s) /\ "heal" \in Skills[s]
  /\ \E friends \in SUBSET {t \in Friends(s) : Alive(t)} :
     \E h \in [friends -> 1 .. MaxHp] :
       /\ \A t \in friends : h[t] >= units[t].hp
       /\ FinishCast(s, [u \in Units |-> IF u \in friends
                                         THEN [Paid(s)[u] EXCEPT !.hp = h[u]] ELSE Paid(s)[u]])

\* processAbilityReviveEffect: a dead friend, if there is one, is back with
\* full mana, free of control, and acts at once.
CastRevive(s) ==
  /\ CastEnds(s) /\ "revive" \in Skills[s]
  /\ \/ /\ \A t \in Friends(s) : Alive(t)
        /\ FinishCast(s, Paid(s))
     \/ \E t \in Friends(s), points \in 1 .. MaxHp :
          /\ ~Alive(t)
          /\ \E x \in NextAct([units[t] EXCEPT !.hp = points, !.mp = MaxMp, !.cc = {}], fighting) :
               FinishCast(s, [Paid(s) EXCEPT ![t] = x])

\* processAbilityBuffEffect, and damage abilities that end between levels.
CastBuff(s) ==
  /\ CastEnds(s) /\ ("buff" \in Skills[s] \/ ~fighting)
  /\ FinishCast(s, Paid(s))

\* processAbilitySpendHpEffect never takes the last point.
CastSpendHp(s) ==
  /\ CastEnds(s) /\ "spend" \in Skills[s]
  /\ \E points \in 1 .. units[s].hp : FinishCast(s, [Paid(s) EXCEPT ![s].hp = points])

\* A bug: a unit whose control ends is not woken up.
ExpireMutant(u, event, control) ==
  /\ stop = Running /\ event \in units[u].pend
  /\ GoOn([units EXCEPT ![u] = [Without(u, event) EXCEPT !.cc = @ \ {control}]])

\* processStunExpirationEvent and processBlindExpirationEvent.
Expire(u, event, control) ==
  /\ stop = Running /\ event \in units[u].pend
  /\ \E x \in NextAct([Without(u, event) EXCEPT !.cc = @ \ {control}], fighting) :
       GoOn([units EXCEPT ![u] = x])

StunExpires(u) == Expire(u, "stunExpiration", "stunned")
BlindExpires(u) == Expire(u, "blindExpiration", "blinded")

\* processSilenceExpirationEvent: the unit goes on with what it does.
SilenceExpires(u) ==
  /\ stop = Running /\ "silenceExpiration" \in units[u].pend
  /\ GoOn([units EXCEPT ![u] = [Without(u, "silenceExpiration") EXCEPT !.cc = @ \ {"silenced"}]])

\* AwaitCooldownEvent.
AwaitCooldown(u) ==
  /\ stop = Running /\ "awaitCooldown" \in units[u].pend
  /\ \E y \in {units[u], Without(u, "awaitCooldown")} :
     \E x \in NextAct(y, fighting) : GoOn([units EXCEPT ![u] = x])

\* processDamageOverTimeTickEvent.
DamageOverTime(u) ==
  /\ stop = Running /\ "damageOverTime" \in units[u].pend
  /\ \E y \in {units[u], Without(u, "damageOverTime")}, points \in 0 .. units[u].hp :
       Check([units EXCEPT ![u] = Settled([y EXCEPT !.hp = points])])

\* processRegenTickEvent: living players regain points, and those who wait
\* for mana look again.
Regained(x) ==
  [x EXCEPT !.hp = IF @ < MaxHp THEN @ + 1 ELSE @, !.mp = IF @ < MaxMp THEN @ + 1 ELSE @,
            !.pend = IF x.oom THEN @ \cup {"awaitCooldown"} ELSE @]

RegenTick ==
  /\ stop = Running /\ "regenTick" \in clock
  /\ GoOn([u \in Units |-> IF u \in Players /\ Alive(u) THEN Regained(units[u]) ELSE units[u]])

\* processEnrageTickEvent queues the next tick only while there are enemies.
EnrageTick ==
  /\ stop = Running /\ "enrageTick" \in clock
  /\ clock' = IF fighting THEN clock ELSE clock \ {"enrageTick"}
  /\ UNCHANGED <<units, ladder>>

\* simulate meets the time limit.
TimeCap ==
  /\ stop = Running /\ level > 0
  /\ Stop(units, "time_cap")
  /\ UNCHANGED <<fighting, level, cleared>>

UnitNext(u) ==
  \/ AutoAttack(u)
  \/ CastHarm(u) \/ CastHeal(u) \/ CastRevive(u) \/ CastBuff(u) \/ CastSpendHp(u)
  \/ StunExpires(u) \/ BlindExpires(u) \/ SilenceExpires(u)
  \/ AwaitCooldown(u) \/ DamageOverTime(u)

TrialNext ==
  \/ CombatStart \/ EnemyRespawn \/ RegenTick \/ EnrageTick \/ TimeCap
  \/ \E u \in Units : UnitNext(u)

TrialSpec == TrialInit /\ [][TrialNext]_vars
-----------------------------------------------------------------------------
\* The variables keep their types.
TrialTypeOK ==
  /\ units \in [Units -> Unit]
  /\ clock \subseteq ClockEvents
  /\ fighting \in BOOLEAN
  /\ level \in 0 .. Levels
  /\ cleared \in 0 .. Levels
  /\ stop \in {Running, "party_wipe", "complete", "time_cap"}

(* No lost wake-up: while there are enemies every living unit has an event *)
(* queued that makes it act, or that ends what keeps it from acting,       *)
(* through every stun, blinding, silence, revival and missed payment.      *)
NobodyFrozen ==
  stop = Running /\ fighting =>
    \A u \in Units : Alive(u) =>
      units[u].pend \cap (Acts \cup {"stunExpiration", "blindExpiration"}) # {}

(* No unit swings and casts at once, a blinded one swings not, a silenced  *)
(* or stunned one casts not, whichever control or expiry came last.        *)
HeldInCheck ==
  \A u \in Units :
    /\ ~(Acts \subseteq units[u].pend)
    /\ "blinded" \in units[u].cc => "autoAttack" \notin units[u].pend
    /\ units[u].cc \cap {"stunned", "silenced"} # {} => "abilityCastEnd" \notin units[u].pend

\* A foe of u may fell u in answer to an attack of u.
Answered(u) == Foes(u) \cap (Thorny \cup Parrying) # {}

(* A control on a living unit has its expiry queued: none lasts for ever,  *)
(* but on a unit that drained itself back to life.                         *)
ControlsEnd ==
  stop = Running =>
    \A u \in Units : Alive(u) /\ ~(Answered(u) /\ u \in Draining) =>
      /\ "stunned" \in units[u].cc => "stunExpiration" \in units[u].pend
      /\ "blinded" \in units[u].cc => "blindExpiration" \in units[u].pend
      /\ "silenced" \in units[u].cc => "silenceExpiration" \in units[u].pend

(* A cast under way can be paid for when it ends: the test of tryUseAbility*)
(* never fails then, which would leave the caster without a next event.    *)
CastIsPaid ==
  \A u \in Units : "abilityCastEnd" \in units[u].pend => CanPay(units[u])

(* The fall of the party or of the last enemy is noticed by the very event *)
(* that brings it about, whoever struck, bled or answered.                 *)
FallsAreNoticed ==
  stop = Running /\ level > 0 =>
    /\ \E p \in Players : Alive(p)
    /\ fighting => \E m \in Monsters : Alive(m)

(* The queue carries the run: regeneration and enrage tick in every fight, *)
(* a respawn is queued exactly between levels and never above the last one *)
(* (the zone would throw), and a run that stopped has an empty queue.      *)
QueueCarriesOn ==
  /\ stop = Running /\ fighting => {"regenTick", "enrageTick"} \subseteq clock
  /\ "enemyRespawn" \in clock <=> stop = Running /\ ~fighting /\ level > 0
  /\ "enemyRespawn" \in clock => level < Levels
  /\ stop # Running => clock = {} /\ \A u \in Units : units[u].pend = {}

(* A fight never stands still.                                             *)
EveryoneGoesOn == NobodyFrozen /\ FallsAreNoticed /\ QueueCarriesOn

(* Nobody does what it may not or cannot pay for.                          *)
ActsAreSound == HeldInCheck /\ CastIsPaid

(* Nothing is left queued for the fallen, but an auto attack for a unit    *)
(* that a foe's thorns or parry may have felled.                           *)
FallenAreCleared ==
  \A u \in Units : ~Alive(u) =>
    units[u].pend \subseteq IF Answered(u) THEN {"autoAttack"} ELSE {}

(* The dead stay dead until a friend revives them or the next level comes; *)
(* only one felled by an answer may rise by the hit points it drains.      *)
NobodyRises ==
  \A u \in Units : ~Alive(u) /\ units'[u].hp > 0 =>
    \/ CombatStart \/ EnemyRespawn \/ \E s \in Friends(u) : CastRevive(s)
    \/ u \in Draining /\ Answered(u) /\ AutoAttack(u)
DeadStayDead == [][NobodyRises]_vars

(* The fallen are out of the fight: after a step nothing of theirs is      *)
(* queued, and the step raised nobody it may not raise.                    *)
FallenStayDown == [][FallenAreCleared' /\ NobodyRises]_vars

(* The dead take no part in what follows                                   *)
(* (docs/COMBAT_SIM_WILLSHY_GAP_PLAN.md:106): they have nothing queued.    *)
DeadHaveNoEvents == \A u \in Units : ~Alive(u) => units[u].pend = {}

(* The engine climbs the levels as the trial promises.                     *)
Ladder == INSTANCE TrialLadder
LadderHolds == Ladder!LadderSpec
LadderStands == Ladder!LadderInv
=============================================================================
