---------------------------- MODULE WeeklyPipeline ----------------------------
(***************************************************************************)
(* From the composition lab to what is published: the lab writes a file    *)
(* with both teams and their kits; scripts read it, measure, and with      *)
(* --apply write it back whole, each of them one change of kits.  They are *)
(* processes of their own with no lock, and a combat test from QQ reruns   *)
(* the lab at any time.  A file half written does not parse: a script that *)
(* meets it ends and writes nothing, as one that never started.            *)
(***************************************************************************)
EXTENDS CombatKits, FiniteSetsExt

CONSTANTS
    PipelineInputs,   \* the week's boss and the members: side, role, strength, aura, gear
    Packages(_),      \* packageCandidatesForBoss
    PestilentSeats,   \* ST_RANGED_PESTILENT_COVERAGE_COUNT
    Applied,          \* the numbers an operator applies
    MaxWrites, MaxRunning   \* bounds: times the file is written, scripts at a time

\* The roles of roleOrder, and what the lists of packages have for a boss.
ASSUME PipelineAssumption ==
    /\ Applied \subseteq Nat
    /\ \A w \in PipelineInputs :
         /\ IsFiniteSet(DOMAIN w.members)
         /\ \A m \in DOMAIN w.members :
              w.members[m].role \in {"bow", "crossbow", "fire", "water", "nature",
                                    "shield", "spear", "sword", "hammer"}
         /\ \A boss \in {w.boss, "swarm"} : \A p \in Packages(boss) :
              IF Single(boss) THEN /\ p.ranged \in {"pestilent_shot", "steady_shot", "frenzy"}
                                   /\ p.water \in {"precision", "ice_spear"}
              ELSE p.ranged \in {"precision", "frenzy"}

VARIABLES
    week,      \* the input
    file,      \* availableRosterLabJsonPath; <<>> before the first lab
    running,   \* what every script under way has read
    writes     \* how often the file has been written, to bound it

pipelineVars == <<week, file, running, writes>>

Scripts == {"insanity", "nature", "healers", "ranged"}
Bosses == {"st", "swarm"}
BossOf(side) == IF side = "st" THEN week.boss ELSE "swarm"

People == DOMAIN week.members
Team(side) == {m \in People : week.members[m].side = side}
RoleOf(m) == week.members[m].role

\* compareLowDpsCoverageFirst; the numbers of the members are their ids in order.
Lower(m, n) == week.members[m].proxy < week.members[n].proxy
                  \/ (week.members[m].proxy = week.members[n].proxy /\ m < n)

-----------------------------------------------------------------------------
(* The lab                                                                 *)

\* A member's place among his role: fire and single-target nature from the weakest.
Index(m) ==
    LET side == week.members[m].side
        peers == {n \in Team(side) : RoleOf(n) = RoleOf(m)}
        byStrength == \/ RoleOf(m) = "fire" /\ ~Single(BossOf(side))
                      \/ RoleOf(m) = "nature" /\ Single(BossOf(side))
    IN  1 + Cardinality({n \in peers : IF byStrength THEN Lower(n, m) ELSE n < m})

RangedDebuffer(m, package) ==
    LET side == week.members[m].side
    IN  IF Single(BossOf(side)) THEN RoleOf(m) = "crossbow" /\ Index(m) <= package.supports
        ELSE Cardinality({n \in Team(side) : RoleOf(n) \in Ranged /\ Lower(n, m)}) < package.debuffs

\* assignNatureDebuffBackup on a team.
CoverageOf(m, package) ==
    LET side == week.members[m].side
        fires == {n \in Team(side) : RoleOf(n) = "fire" /\ Smokes(BossOf(side), package, Index(n))}
        waters == {n \in Team(side) : RoleOf(n) = "water"}
        natures == {n \in Team(side) : RoleOf(n) = "nature"}
        place == 1 + Cardinality({n \in natures : Lower(n, m)})
    IN  IF RoleOf(m) # "nature" THEN "none"
        ELSE Backup(BossOf(side), Cardinality(fires), Cardinality(waters), Cardinality(natures))[place]

\* createTeamFromSources: without an aura the special skill is revive.
LabRow(m, package) ==
    LET duty == DutyOf(RoleOf(m), Index(m), RangedDebuffer(m, package))
    IN  [duty |-> duty,
         special |-> IF week.members[m].aura THEN "aura" ELSE "revive",
         kit |-> Kit(BossOf(week.members[m].side), package, RoleOf(m), Index(m), duty,
                     CoverageOf(m, package))]

\* summarizeTeam
Duties(rows) == [d \in {"tank", "healer", "debuffer", "dps"} |->
                    Cardinality({m \in DOMAIN rows : rows[m].duty = d})]

Fresh(packages) ==
    [side \in Bosses |->
        LET rows == [m \in Team(side) |-> LabRow(m, packages[side])]
        IN  [rows |-> rows, lab |-> rows, duties |-> Duties(rows), insanity |-> 0,
             converted |-> 0, pollen |-> {}, drained |-> FALSE]]

\* run-and-publish-combat-assignment without --skip-sim, from a shell or from QQ; which
\* packages win is up to the simulations.
RunLab ==
    /\ writes < MaxWrites
    /\ \E p \in Packages(week.boss), q \in Packages("swarm") :
         file' = <<Fresh([side \in Bosses |-> IF side = "st" THEN p ELSE q])>>
    /\ writes' = writes + 1
    /\ UNCHANGED <<week, running>>

-----------------------------------------------------------------------------
(* The scripts                                                             *)

\* snapshotForMember falls back to an earlier snapshot; the scripts for the chameleon
\* know the latest only.
CanBuild(script) ==
    IF script \in {"insanity", "nature"} THEN \A m \in People : week.members[m].gear # "none"
    ELSE \A m \in Team("st") : week.members[m].gear = "now"

\* A script reads the file once, when it starts.
Start(script) ==
    /\ file # <<>> /\ running[script] = <<>>
    /\ script \in {"healers", "ranged"} => week.boss = "chameleon"
    /\ Cardinality({s \in Scripts : running[s] # <<>>}) < MaxRunning
    /\ running' = [running EXCEPT ![script] = file]
    /\ UNCHANGED <<week, file, writes>>

\* It ends without a change: a sweep, a member who cannot be built, or it is stopped.
Stop(script) ==
    /\ running[script] # <<>>
    /\ running' = [running EXCEPT ![script] = <<>>]
    /\ UNCHANGED <<week, file, writes>>

\* It writes the whole of what it has read, changed.
Save(script, bosses) ==
    /\ running[script] # <<>> /\ CanBuild(script) /\ writes < MaxWrites
    /\ file' = <<bosses>> /\ writes' = writes + 1
    /\ running' = [running EXCEPT ![script] = <<>>]
    /\ UNCHANGED week

Read(script) == running[script][1]

\* The x members of whom the runs measure most, or least.
Extreme(x, members) == kSubset(IF x < Cardinality(members) THEN x ELSE Cardinality(members), members)

\* isInsanityCandidate
InsanityCandidate(row) == row.duty \in {"dps", "debuffer"} /\ row.special \in {"revive", "insanity"}

\* Mutant: the members with insanity keep it.
RevertMutant(rows) == rows
\* revertInsanityToRevive
Revert(rows) ==
    [m \in DOMAIN rows |-> IF rows[m].special = "insanity" THEN [rows[m] EXCEPT !.special = "revive"]
                           ELSE rows[m]]

\* applyHammerFixedKit
Hammers(rows) ==
    [m \in DOMAIN rows |-> IF RoleOf(m) = "hammer" THEN [rows[m] EXCEPT !.kit = HammerKit] ELSE rows[m]]

\* ab-insanity-top-dps --apply: everybody revives, the first x of that ranking do not.
ApplyInsanity ==
    /\ running["insanity"] # <<>>
    /\ LET all == [s \in Bosses |-> Hammers(Revert(Read("insanity")[s].rows))]
           Able(s) == {m \in Team(s) : InsanityCandidate(all[s][m])}
           Insane(s, top) == [m \in Team(s) |-> IF m \in top /\ all[s][m].special = "revive"
                                                THEN [all[s][m] EXCEPT !.special = "insanity"]
                                                ELSE all[s][m]]
       IN  \E x, y \in Applied : \E top \in Extreme(x, Able("st")), low \in Extreme(y, Able("swarm")) :
             Save("insanity", [s \in Bosses |->
                 [Read("insanity")[s] EXCEPT !.rows = Insane(s, IF s = "st" THEN top ELSE low),
                                             !.insanity = IF s = "st" THEN x ELSE y]])

\* isNatureHealer, isNatureDebuffBackup: the file does not say who stands in, his kit does.
NatureHealer(m, row) == RoleOf(m) = "nature" /\ row.duty = "healer"
DebuffBackup(row) == row.kit \cap {"smoke_burst", "frost_surge"} # {}

\* rankedNatureHealerIds: the healers to convert.
Convertible(side, rows) == {m \in Team(side) : NatureHealer(m, rows[m]) /\ ~DebuffBackup(rows[m])}

\* The first x of them, from the best weapon; without a snapshot there is none to compare.
Strength(m) == IF week.members[m].gear = "none" THEN 0 ELSE week.members[m].weapon
BestArmed(x, members) ==
    {m \in members : Cardinality({n \in members : \/ Strength(n) > Strength(m)
                                                  \/ Strength(n) = Strength(m) /\ n < m}) < x}

\* convertNatureHealersToDps
ToDps(rows, some) ==
    [m \in DOMAIN rows |-> IF m \in some THEN [rows[m] EXCEPT !.duty = "dps", !.kit = NatureDpsKit]
                           ELSE rows[m]]

\* Some duties of the summary are counted again, the others stay.
Recount(duties, rows, some) == [d \in DOMAIN duties |-> IF d \in some THEN Duties(rows)[d] ELSE duties[d]]

\* ab-nature-healer-to-dps --apply
ApplyNature ==
    /\ running["nature"] # <<>>
    /\ \E counts \in [Bosses -> Applied] :
         Save("nature", [s \in Bosses |->
             LET boss == Read("nature")[s]
                 rows == ToDps(boss.rows, BestArmed(counts[s], Convertible(s, boss.rows)))
             IN  [boss EXCEPT !.rows = rows, !.converted = counts[s],
                              !.duties = Recount(@, rows, {"healer", "dps"})]])

\* ab-chameleon-st-nature-healers --apply: the lowest in damage keep the pollen, all others
\* drain, whatever they brought.
ApplyHealers ==
    /\ running["healers"] # <<>>
    /\ LET boss == Read("healers")["st"]
           natures == {m \in Team("st") : RoleOf(m) = "nature"}
           Healed(m, pollen) ==
               IF m \in natures
               THEN [boss.rows[m] EXCEPT !.duty = "healer", !.kit = IF m \in pollen THEN PollenKit ELSE DrainKit]
               ELSE boss.rows[m]
       IN  \E pollen \in Extreme(PollenSeats, natures) :
             LET rows == [m \in Team("st") |-> Healed(m, pollen)]
             IN  Save("healers", [Read("healers") EXCEPT !["st"] =
                     [boss EXCEPT !.rows = rows, !.converted = 0, !.pollen = pollen, !.drained = TRUE,
                                  !.duties = Recount(@, rows, {"healer", "dps"})]])

\* ab-chameleon-st-ranged-steady --apply: the lowest in damage keep the pestilent shot.
ApplyRanged ==
    /\ running["ranged"] # <<>>
    /\ LET boss == Read("ranged")["st"]
           archers == {m \in Team("st") : RoleOf(m) \in Ranged}
           Shot(m, keep) ==
               IF m \notin archers THEN boss.rows[m]
               ELSE IF m \in keep THEN [boss.rows[m] EXCEPT !.duty = "debuffer", !.kit = PestilentKit(@)]
               ELSE [boss.rows[m] EXCEPT !.duty = "dps", !.kit = SteadyKit(@)]
       IN  \E keep \in Extreme(PestilentSeats, archers) :
             LET rows == [m \in Team("st") |-> Shot(m, keep)]
             IN  Save("ranged", [Read("ranged") EXCEPT !["st"] =
                     [boss EXCEPT !.rows = rows, !.duties = Recount(@, rows, {"debuffer", "dps"})]])

-----------------------------------------------------------------------------
PipelineInit ==
    /\ week \in PipelineInputs
    /\ file = <<>> /\ running = [s \in Scripts |-> <<>>] /\ writes = 0

PipelineNext ==
    \/ RunLab
    \/ \E s \in Scripts : Start(s) \/ Stop(s)
    \/ ApplyInsanity \/ ApplyNature \/ ApplyHealers \/ ApplyRanged

PipelineSpec == PipelineInit /\ [][PipelineNext]_pipelineVars

-----------------------------------------------------------------------------
(* Properties                                                              *)

InsaneAreCounted(boss) ==
    LET insane == {m \in DOMAIN boss.rows : boss.rows[m].special = "insanity"}
    IN  /\ Cardinality(insane) <= boss.insanity
        /\ \A m \in insane : ~week.members[m].aura

Carriers(rows, skill) == {m \in DOMAIN rows : skill \in rows[m].kit}

CoverageKept(boss) ==
    \A skill \in {"smoke_burst", "frost_surge"} :
        Cardinality(Carriers(boss.rows, skill)) >= Cardinality(Carriers(boss.lab, skill))

\* "转输出时跳过补位奶", "光环位永不改疯狂": whatever scripts run, in whatever order, one
\* over the other or over a lab that has run again meanwhile, the file holds teams whose
\* members bring four skills, who heals brings the heal, nobody is insane beyond the
\* number the file states or with an aura, the duties it states are the teams', who is
\* named for the pollen brings it, and the smoke and frost the lab has covered stay
\* covered - but for the side that has been given the drain kits.
TeamsStaySound ==
    file # <<>> => \A s \in Bosses :
        LET boss == file[1][s]
        IN  /\ InsaneAreCounted(boss)
            /\ boss.duties = Duties(boss.rows)
            /\ \A m \in Team(s) : /\ Cardinality(boss.rows[m].kit) = 4
                                  /\ NatureHealer(m, boss.rows[m]) <=> "rejuvenate" \in boss.rows[m].kit
            /\ boss.pollen \subseteq Carriers(boss.rows, "toxic_pollen")
            /\ boss.drained \/ CoverageKept(boss)
=============================================================================
