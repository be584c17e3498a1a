------------------------------ MODULE CombatKits ------------------------------
(***************************************************************************)
(* combat-ability-templates.mjs and the duties of the composition lab: the *)
(* duty of a member, the four ordinary skills he takes along, and which    *)
(* nature healers stand in for missing fire and water.                     *)
(* A kit is the set of its skills; a row is a member of a team with his    *)
(* role, duty and place (index, from 1) among those of his role.           *)
(***************************************************************************)
EXTENDS Integers, Sequences, FiniteSets

CONSTANTS
    CoverageSeats,   \* COVERAGE_SEAT_TARGET
    PollenSeats      \* ST_NATURE_POLLEN_COVERAGE_COUNT

\* isSingleTargetBossKey
Single(boss) == boss \in {"hedgehog", "chameleon"}

Ranged == {"bow", "crossbow"}

\* assignDuties; weak tells whether a ranged member is among those who debuff.
DutyOf(role, index, weak) ==
    CASE role = "shield" -> "tank"
      [] role = "nature" -> "healer"
      [] role \in {"sword", "fire"} -> "debuffer"
      [] role \in {"spear", "hammer"} /\ index <= 2 -> "debuffer"
      [] role \in Ranged /\ weak -> "debuffer"
      [] OTHER -> "dps"

-----------------------------------------------------------------------------
(* Kits                                                                    *)

\* The first two of the optional shots: the preferred one, then by name.
Shots(preferred) ==
    IF preferred = "frenzy" THEN {"frenzy", "penetrating_shot"} ELSE {"frenzy", preferred}

RangedKit(boss, package, duty) ==
    IF Single(boss) THEN {"berserk", "precision"} \cup Shots(package.ranged)
    ELSE {"berserk", "penetrating_shot"} \cup
         IF duty = "debuffer" THEN {"precision", "pestilent_shot"}
         ELSE {package.ranged, "rain_of_arrows"}

\* memberProvidesSmokeBurst, for a fire mage.
Smokes(boss, package, index) == Single(boss) \/ index <= package.smokes

FireKit(boss, package, index) ==
    {"elemental_affinity", "fireball"} \cup
    CASE boss = "hedgehog" ->
           {"smoke_burst", IF package.fire = "precision" THEN "precision" ELSE "firestorm"}
      [] boss = "chameleon" -> {"precision", "smoke_burst"}
      [] OTHER -> {"firestorm", IF Smokes(boss, package, index) THEN "smoke_burst" ELSE "flame_blast"}

WaterKit(boss, package, index) ==
    {"elemental_affinity", "frost_surge", "water_strike",
     IF Single(boss) /\ index > package.supports THEN package.water ELSE "mana_spring"}

NatureDpsKit == {"elemental_affinity", "toxic_pollen", "natures_veil", "entangle"}
DrainKit == {"rejuvenate", "elemental_affinity", "life_drain", "entangle"}
PollenKit == {"rejuvenate", "elemental_affinity", "toxic_pollen", "entangle"}

\* natureHealerCoverageKit, and the healers without a coverage to bring.
HealerKit(boss, coverage) ==
    CASE coverage \in {"smoke_burst", "frost_surge"} ->
           {"rejuvenate", coverage, "entangle",
            IF Single(boss) THEN "elemental_affinity" ELSE "natures_veil"}
      [] coverage = "toxic_pollen" -> PollenKit
      [] coverage = "none" /\ Single(boss) -> DrainKit
      [] OTHER -> {"rejuvenate", "toxic_pollen", "natures_veil", "entangle"}

HammerKit == {"berserk", "frenzy", "precision", "fracturing_impact"}

MeleeKit(boss, role) ==
    CASE role = "sword" -> {"berserk", "precision", "maim", "crippling_slash"}
      [] role = "hammer" -> HammerKit
      [] role = "spear" -> {"berserk", "precision", "puncture",
                            IF Single(boss) THEN "frenzy" ELSE "penetrating_strike"}
      [] role = "shield" -> {"toughness", "spike_shell", "retribution", "provoke"}

\* ordinaryAbilityHridsForTemplate and selectLearnedOrdinary: a missing skill counts as
\* learned at its default level, so that nobody falls short of four.
Kit(boss, package, role, index, duty, coverage) ==
    CASE role \in Ranged -> RangedKit(boss, package, duty)
      [] role = "fire" -> FireKit(boss, package, index)
      [] role = "water" -> WaterKit(boss, package, index)
      [] role = "nature" -> HealerKit(boss, coverage)
      [] OTHER -> MeleeKit(boss, role)

-----------------------------------------------------------------------------
(* Coverage                                                                *)

Missing(have) == IF have < CoverageSeats THEN CoverageSeats - have ELSE 0

\* assignNatureDebuffBackup: what each of the healers, from the weakest, brings; first
\* every smoke that is missing, then every frost, then the pollen of a single target.
Backup(boss, smokes, frosts, healers) ==
    LET s == Missing(smokes)
        f == Missing(frosts)
    IN  [i \in 1..healers |->
            CASE i <= s -> "smoke_burst"
              [] i > s /\ i <= s + f -> "frost_surge"
              [] i > s + f /\ i <= s + f + PollenSeats /\ Single(boss) -> "toxic_pollen"
              [] OTHER -> "none"]

\* convertNatureHealersToDps and applyStNatureHealerKits change these rows, the others
\* keep what they have; applyStRangedPestilentCoverage swaps one shot for the other.
PestilentKit(kit) ==
    IF "pestilent_shot" \notin kit /\ "steady_shot" \in kit
    THEN (kit \ {"steady_shot"}) \cup {"pestilent_shot"} ELSE kit
SteadyKit(kit) ==
    IF "pestilent_shot" \in kit /\ "steady_shot" \notin kit
    THEN (kit \ {"pestilent_shot"}) \cup {"steady_shot"} ELSE kit
=============================================================================
