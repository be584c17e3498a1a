------------------------------- MODULE RosterLab -------------------------------
(***************************************************************************)
(* run-available-roster-composition-lab.mjs: who of the bound members can  *)
(* fight, how every policy splits them between the two bosses, which kits  *)
(* and which split win.  What a simulation yields is any of Scores.        *)
(***************************************************************************)
EXTENDS RosterPartition, CombatKits, FiniteSetsExt

CONSTANTS
    AuraOrder,           \* auraHrids, in the order of localeCompare
    MinAttack, MinPrimary, MinWeapon, ShieldsPerSide,   \* the last three for WI
    Scores, Validated,                                  \* results; how many splits get three seeds
    PolicyRank,      \* the order of the policies' ids
    LabInputs        \* the week, the guild, its members, the policy asked for, top DPS

VARIABLES
    given,
    usable,      \* usableByRole, as one set: everybody has one role
    policies,    \* the policies to come
    capped,      \* the teams of the policy at hand: per side and role a list
    swaps,       \* the role at hand in rebalancePhysicalToward and its guard
    carriers,    \* per side, who carries which aura; 0 for nobody
    screened,    \* screenedPartitions, later finalized
    labPhase

labVars == <<given, usable, policies, capped, swaps, carriers, screened, labPhase>>

BoundMembers == DOMAIN given.members
Of(m) == given.members[m]

LabAuras == Entries(AuraOrder)
NoTeams == [side \in Sides |-> [r \in Roles |-> <<>>]]
NoAuras == [side \in Sides |-> [a \in LabAuras |-> 0]]

\* The members of a team, and its places.
Fighters(rows) == UNION {Entries(rows[r]) : r \in Roles}
TeamSize(rows) == Cardinality(UNION {{r} \X DOMAIN rows[r] : r \in Roles})

\* Levels are numbers, the weapon that counts for WI included; whatever a policy may be, its
\* id has a rank.
ASSUME LabAssumption ==
    /\ AuraOrder \in Seq(STRING) /\ "guardian" \in LabAuras
    /\ MinAttack \in Int /\ MinPrimary \in Int /\ MinWeapon \in Int /\ ShieldsPerSide \in Nat
    /\ Scores \subseteq Int /\ Validated \in Nat \ {0}
    /\ \A p \in DOMAIN PolicyRank : PolicyRank[p] \in Int
    /\ Entries(Tenths) \subseteq DOMAIN PolicyRank
    /\ \A g \in LabInputs :
          /\ g.wi \in BOOLEAN /\ g.top \in [Sides -> Nat]
          /\ Len(g.members) \in Nat /\ DOMAIN g.members = 1..Len(g.members)
          /\ 0..Len(g.members) \subseteq DOMAIN PolicyRank
          /\ \A m \in DOMAIN g.members :
                LET x == g.members[m]
                IN  /\ x.attack \in Int /\ x.primary \in Int /\ x.weapon \in Int /\ x.proxy \in Int
                    /\ \A a \in LabAuras \cup {"mystic"} : x.aura[a] \in Nat

\* assessCombatMemberReadiness
Ready(m) ==
    /\ ~Of(m).excluded /\ Of(m).snapshot /\ Of(m).attack >= MinAttack /\ Of(m).built
    /\ given.wi => Of(m).primary >= MinPrimary /\ Of(m).weapon >= MinWeapon

ByDefense(m, n) == Of(m).primary > Of(n).primary \/ (Of(m).primary = Of(n).primary /\ m < n)

\* The members of a role; WI keeps the shields with the highest defense only.
Usable(role) ==
    LET able == {m \in BoundMembers : Of(m).role = role /\ Ready(m)}
    IN  IF role = "shield" /\ given.wi
        THEN FirstFew(able, [m \in able |-> {n \in able : ByDefense(n, m)}], 2 * ShieldsPerSide)
        ELSE able

\* compareLowDpsCoverageFirst
Weaker(m, n) == Of(m).proxy < Of(n).proxy \/ (Of(m).proxy = Of(n).proxy /\ m < n)

Guardian(m, n) ==
    LET g == Of(m).aura["guardian"]
        h == Of(n).aura["guardian"]
    IN  g > h \/ (g = h /\ ByDefense(m, n))

\* The order in which partitionAvailableMembers goes through a role.
GoesFirst(role, m, n) ==
    CASE role = "shield" -> Guardian(m, n)
      [] role \in Physical \cup {"nature"} /\ Strategy(given.week).healers -> Weaker(m, n)
      [] role \in {"fire", "water"} /\ given.week = "hedgehog" -> Weaker(m, n)
      [] OTHER -> m < n

BySource(m) == {n \in usable : Of(n).role = Of(m).role /\ GoesFirst(Of(m).role, n, m)}

PhysicalLevel(m) == IF Of(m).role \in {"bow", "crossbow"} THEN Of(m).primary ELSE Of(m).attack
MysticLevel(m) == Of(m).aura["mystic"]

-----------------------------------------------------------------------------
LabInit ==
    /\ given \in LabInputs
    /\ usable = {} /\ policies = <<>> /\ capped = NoTeams /\ swaps = [role |-> 1, guard |-> 0]
    /\ carriers = NoAuras /\ screened = <<>> /\ labPhase = "assess"

Assess ==
    /\ labPhase = "assess"
    /\ usable' = UNION {Usable(r) : r \in Roles}
    /\ LET all == Policies(given.week, Cardinality(Usable("nature")))
       IN  policies' = IF given.only = 0 THEN all
                       ELSE IF given.only \in Entries(all) THEN <<given.only>> ELSE <<>>
    /\ labPhase' = "split"
    /\ UNCHANGED <<given, capped, swaps, carriers, screened>>

\* A pool is a set of members.
OfRole(pool, r) == {m \in pool : Of(m).role = r}

\* partitionAvailableMembers
Partition ==
    LET Side(m) == SideOf(given.week, Head(policies), Of(m).role, 1 + Cardinality(BySource(m)),
                          Cardinality(OfRole(usable, Of(m).role)))
    IN  [side \in Sides |-> {m \in usable : Side(m) = side}]

\* The seat of a member: he is the i-th of his role by id.
Seat(pool, m) == <<Of(m).role, 1 + Cardinality({n \in OfRole(pool, Of(m).role) : n < m})>>

\* capTeamPool: the first of each role by id, since everybody has a reusable special.
CapTeamPool(pool) ==
    LET target == Targets(given.week, {Seat(pool, m) : m \in pool}, TeamCap)
    IN  IF Cardinality(pool) <= TeamCap THEN pool ELSE {m \in pool : Seat(pool, m) \in target}

\* fillUnderCapFromOverflow: whom the roles of the fill order add, one role after the other
\* and each in the order of its overflow, until the team is full.
FillUnderCap(base, overflow, order) ==
    LET free == {m \in overflow \ base : Of(m).role \in Entries(order)}
        Before(n, m) == \/ Position(order)[Of(n).role] < Position(order)[Of(m).role]
                        \/ n \in BySource(m)
    IN  FirstFew(free, [m \in free |-> {n \in free : Before(n, m)}], TeamCap - Cardinality(base))

\* The rows of a team by id, and the rows of those who were added later.
Lineup(members) == InOrder(members, ById(members))
LateRow(members) == InOrder(members, [m \in members |-> BySource(m) \cap members])

\* Mutant: what overflows is taken from the side's whole pool.
ApplyTeamCapsMutant(pools) ==
    LET alone == [side \in Sides |-> CapTeamPool(pools[side])]
        swarm == IF Cardinality(alone["swarm"]) < TeamCap
                 THEN CapTeamPool(alone["swarm"] \cup pools["st"]) ELSE alone["swarm"]
    IN  [side \in Sides |-> [r \in Roles |->
            Lineup(OfRole(IF side = "st" THEN alone["st"] ELSE swarm, r))]]
\* applyTeamCaps: what overflows on one side fills up the other (leftoversAfterCap,
\* mergeRolePools). A team that is filled up keeps its rows, the newcomers come behind.
ApplyTeamCaps(pools) ==
    LET alone == [side \in Sides |-> CapTeamPool(pools[side])]
        Leftovers(side) == pools[side] \ alone[side]
        Open(side) == Cardinality(alone[side]) < TeamCap /\ Leftovers(Other(side)) # {}
        Joint(side) == CapTeamPool(alone[side] \cup Leftovers(Other(side)))
        fill == Strategy(given.week).fill
        swarm == IF Open("swarm") THEN Joint("swarm") ELSE alone["swarm"]
        st == IF Open("st") /\ fill = <<>> THEN Joint("st") ELSE alone["st"]
        late == IF Open("st") /\ fill # <<>>
                THEN FillUnderCap(alone["st"], Leftovers("swarm"), fill) ELSE {}
    IN  [side \in Sides |-> [r \in Roles |->
            IF side = "st" THEN Lineup(OfRole(st, r)) \o LateRow(OfRole(late, r))
            ELSE Lineup(OfRole(swarm, r))]]

SplitSides ==
    /\ labPhase = "split" /\ policies # <<>>
    /\ capped' = ApplyTeamCaps(Partition)
    /\ swaps' = [role |-> 1, guard |-> 0] /\ carriers' = NoAuras
    /\ labPhase' = "rebalance"
    /\ UNCHANGED <<given, usable, policies, screened>>

Rows(side, role) == Entries(capped[side][role])

\* The weakest of the target side and the strongest of the other.
Weakest(role) ==
    LET S == Rows(Strategy(given.week).rebalance, role)
    IN  Foremost(S, [m \in S |-> {n \in S :
            \/ PhysicalLevel(n) < PhysicalLevel(m)
            \/ PhysicalLevel(n) = PhysicalLevel(m) /\ n < m}])
Strongest(role) ==
    LET S == Rows(Other(Strategy(given.week).rebalance), role)
    IN  Foremost(S, [m \in S |-> {n \in S :
            \/ PhysicalLevel(n) > PhysicalLevel(m)
            \/ PhysicalLevel(n) = PhysicalLevel(m) /\ n < m}])

MaySwap(role) ==
    /\ role \in Physical /\ swaps.guard < MaxSwaps
    /\ \A side \in Sides : capped[side][role] # <<>>
    /\ PhysicalLevel(Strongest(role)) - PhysicalLevel(Weakest(role)) >= MinGap

\* One round of the loops of rebalancePhysicalToward.
Rebalance ==
    /\ labPhase = "rebalance"
    /\ LET toward == Strategy(given.week).rebalance
           role == RoleOrder[swaps.role]
       IN  IF toward = "" \/ swaps.role > Len(RoleOrder)
           THEN labPhase' = "mystic" /\ UNCHANGED <<capped, swaps>>
           ELSE /\ labPhase' = labPhase
                /\ IF MaySwap(role)
                   THEN /\ capped' = Exchange(capped, role, toward, Weakest(role), Strongest(role))
                        /\ swaps' = [swaps EXCEPT !.guard = @ + 1]
                   ELSE swaps' = [role |-> swaps.role + 1, guard |-> 0] /\ capped' = capped
    /\ UNCHANGED <<given, usable, policies, carriers, screened>>

Casters(teams) == UNION {Entries(teams[side][r]) : side \in Sides, r \in Magic}

\* The best of both teams, at most one.
Mystic ==
    {m \in Casters(capped) : \A n \in Casters(capped) \ {m} :
        MysticLevel(m) > MysticLevel(n) \/ (MysticLevel(m) = MysticLevel(n) /\ m < n)}

\* preferHighestMysticAuraOn
PreferMystic ==
    /\ labPhase = "mystic"
    /\ LET target == Strategy(given.week).mystic
           Peers(m) == Rows(target, Of(m).role)
           Worst(m) == Foremost(Peers(m), [p \in Peers(m) |-> {q \in Peers(m) :
                          \/ MysticLevel(q) < MysticLevel(p)
                          \/ MysticLevel(q) = MysticLevel(p) /\ q < p}])
           move == {m \in Mystic : /\ m \notin Fighters(capped[target]) /\ MysticLevel(m) > 0
                                   /\ Peers(m) # {} /\ MysticLevel(m) > MysticLevel(Worst(m))}
       IN  capped' = IF move = {} THEN capped
                     ELSE LET m == CHOOSE m \in move : TRUE
                          IN  Exchange(capped, Of(m).role, target, Worst(m), m)
    /\ labPhase' = IF \E side \in Sides : Fighters(capped[side]) = {} THEN "failed" ELSE "auras"
    /\ UNCHANGED <<given, usable, policies, swaps, carriers, screened>>

-----------------------------------------------------------------------------
(* createTeamFromSources                                                   *)

SingleTarget(side) == side = "st" /\ given.week \in {"hedgehog", "chameleon"}

\* A member's place among his role in the team, 1 for the first.
RoleIndex(side, m) ==
    LET row == capped[side][Of(m).role]
        weaker == {n \in Entries(row) : Weaker(n, m)}
    IN  IF (Of(m).role = "fire" /\ ~SingleTarget(side)) \/ (Of(m).role = "nature" /\ SingleTarget(side))
        THEN 1 + Cardinality(weaker) ELSE CHOOSE i \in DOMAIN row : row[i] = m

\* Two crossbows in support where the package says nothing (one package has one), else
\* two of the ranged.
RangedDebuffs(side, m) ==
    IF SingleTarget(side) THEN Of(m).role = "crossbow" /\ RoleIndex(side, m) <= 2
    ELSE LET ranged == {n \in Fighters(capped[side]) : Of(n).role \in {"bow", "crossbow"}}
         IN  m \in ranged /\ Cardinality({n \in ranged : Weaker(n, m)}) < 2

Duty(side, m) == DutyOf(Of(m).role, RoleIndex(side, m), RangedDebuffs(side, m))

\* auraDutyPreference
Preference(side, a, m) ==
    CASE a = "mystic" -> IF Duty(side, m) \in {"healer", "debuffer"} THEN 2 ELSE 0
      [] a \in {"fierce", "critical"} ->
           IF Of(m).role \in {"bow", "crossbow", "spear", "hammer"} THEN 2 ELSE 0
      [] OTHER -> 1

Shields(side) == IF "shield" \in Roles THEN Rows(side, "shield") ELSE {}
Learned(side, a) == {m \in Fighters(capped[side]) \ Shields(side) : Of(m).aura[a] > 0}

FreeCarriers(side, a) == {m \in Learned(side, a) : \A b \in LabAuras : carriers[side][b] # m}

\* The shields come first: the highest guardian aura carries it.
Remaining(side) ==
    {a \in LabAuras : carriers[side][a] = 0 /\ (a = "guardian" => Shields(side) = {})}

\* orderedAuras: those with the fewest candidates first, whoever is used up by now.
NextAura(side) ==
    Foremost(Remaining(side), [a \in Remaining(side) |-> {b \in Remaining(side) :
        LET n == Cardinality(Learned(side, a))
            l == Cardinality(Learned(side, b))
        IN  l < n \/ (l = n /\ Position(AuraOrder)[b] < Position(AuraOrder)[a])}])

\* Who is a better carrier of an aura: the level, then the duty.
Fitter(side, a, n, m) ==
    LET x == Of(n).aura[a]
        y == Of(m).aura[a]
        p == Preference(side, a, n)
        q == Preference(side, a, m)
    IN  x > y \/ (x = y /\ (p > q \/ (p = q /\ n < m)))

Carrier(side, a) ==
    LET S == FreeCarriers(side, a)
    IN  Foremost(S, [m \in S |-> {n \in S : Fitter(side, a, n, m)}])

GuardianCarrier(side) ==
    LET S == Shields(side)
    IN  Foremost(S, [m \in S |-> {n \in S :
            \/ Of(n).aura["guardian"] > Of(m).aura["guardian"]
            \/ Of(n).aura["guardian"] = Of(m).aura["guardian"] /\ n < m}])

\* assignAuras, one aura at a time; without a free carrier the lab is over.
AssignAura(side) ==
    /\ labPhase = "auras"
    /\ IF carriers[side]["guardian"] = 0 /\ Shields(side) # {}
       THEN IF \E m \in Shields(side) : Of(m).aura["guardian"] = 0
            THEN labPhase' = "failed" /\ carriers' = carriers
            ELSE carriers' = [carriers EXCEPT ![side]["guardian"] = GuardianCarrier(side)] /\ labPhase' = labPhase
       ELSE /\ Remaining(side) # {}
            /\ IF FreeCarriers(side, NextAura(side)) = {} THEN labPhase' = "failed" /\ carriers' = carriers
               ELSE /\ carriers' = [carriers EXCEPT ![side][NextAura(side)] = Carrier(side, NextAura(side))]
                    /\ labPhase' = labPhase
    /\ UNCHANGED <<given, usable, policies, capped, swaps, screened>>

-----------------------------------------------------------------------------
\* Both sides have their kits: the policy's joint score, which deaths break ties of.
Screen ==
    /\ labPhase = "auras" /\ \A side \in Sides : \A a \in LabAuras : carriers[side][a] # 0
    /\ \E s \in Scores :
         screened' = Append(screened, [policy |-> Head(policies), score |-> s, teams |-> capped,
                                       carriers |-> carriers, insane |-> [side \in Sides |-> {}]])
    /\ policies' = Tail(policies) /\ labPhase' = "split"
    /\ UNCHANGED <<given, usable, capped, swaps, carriers>>

\* The screened partitions from the best; equals by the policy's id, then as they are.
Ranked(rows) ==
    LET Better(x, y) ==
            \/ x.score > y.score
            \/ x.score = y.score /\ PolicyRank[x.policy] < PolicyRank[y.policy]
        ahead == [i \in DOMAIN rows |-> {j \in DOMAIN rows :
                    Better(rows[j], rows[i]) \/ (~Better(rows[i], rows[j]) /\ j < i)}]
    IN  [k \in DOMAIN rows |-> rows[InOrder(DOMAIN rows, ahead)[k]]]

\* The best go on to the full validation, unless there are none.
Select ==
    /\ labPhase = "split" /\ policies = <<>>
    /\ screened' = SubSeq(Ranked(screened), 1, Least(Len(screened), Validated))
    /\ policies' = [i \in 1..Len(screened') |-> i]
    /\ labPhase' = IF screened = <<>> THEN "failed" ELSE "validate"
    /\ UNCHANGED <<given, usable, capped, swaps, carriers>>

\* rankedReviveDpsIds: dps and debuffers without an aura, in the order three runs give.
InsanityCandidates(side, row) ==
    {m \in Fighters(row.teams[side]) :
        /\ Of(m).role \notin {"shield", "nature"}
        /\ \A a \in LabAuras : row.carriers[side][a] # m}

\* Three seeds, the top of the damage with insanity, three seeds again.
Validate ==
    /\ labPhase = "validate" /\ policies # <<>>
    /\ LET row == screened[Head(policies)]
           Top(side) == kSubset(Least(given.top[side], Cardinality(InsanityCandidates(side, row))),
                                InsanityCandidates(side, row))
       IN  \E s \in Scores, x \in Top("st"), y \in Top("swarm") :
             screened' = [screened EXCEPT
                 ![Head(policies)].score = s,
                 ![Head(policies)].insane = [side \in Sides |-> IF side = "st" THEN x ELSE y]]
    /\ policies' = Tail(policies)
    /\ UNCHANGED <<given, usable, capped, swaps, carriers, labPhase>>

\* The winner is written.
Write ==
    /\ labPhase = "validate" /\ policies = <<>>
    /\ screened' = <<Ranked(screened)[1]>>
    /\ labPhase' = "written"
    /\ UNCHANGED <<given, usable, policies, capped, swaps, carriers>>

LabNext ==
    \/ Assess \/ SplitSides \/ Rebalance \/ PreferMystic
    \/ \E side \in Sides : AssignAura(side)
    \/ Screen \/ Select \/ Validate \/ Write

LabSpec == LabInit /\ [][LabNext]_labVars

-----------------------------------------------------------------------------
(* Properties                                                              *)

PlacesAreSound(teams) == \A s \in Sides : \A r \in Roles : \A i \in DOMAIN teams[s][r] :
    /\ Of(teams[s][r][i]).role = r /\ Ready(teams[s][r][i])
    /\ teams[s][r][i] \notin Fighters(teams[Other(s)])
    /\ \A j \in DOMAIN teams[s][r] : teams[s][r][i] = teams[s][r][j] => i = j

\* A usable member without a place: his side, and every side that may take him, is full.
NobodyLeftOut(teams) ==
    \A m \in usable :
        \/ \E s \in Sides : m \in Fighters(teams[s])
        \/ /\ TeamSize(teams["swarm"]) = TeamCap
           /\ \/ TeamSize(teams["st"]) = TeamCap
              \/ /\ Strategy(given.week).fill # <<>>
                 /\ Of(m).role \notin Entries(Strategy(given.week).fill)

MysticInPlace(teams) ==
    LET target == Strategy(given.week).mystic
        best == {m \in Casters(teams) : \A n \in Casters(teams) : MysticLevel(m) >= MysticLevel(n)}
    IN  \A m \in best :
          \/ \E n \in best : n \in Fighters(teams[target])
          \/ \E n \in best : MysticLevel(n) = 0 \/ teams[target][Of(n).role] = <<>>

\* The exchanges of the rebalancing, and the one for the aura after them, leave no role of
\* the target side with a gap the lab closes. It gives up after MaxSwaps exchanges, which
\* are enough when one of the two rows is no longer than that.
NoGapLeft(teams) ==
    LET toward == Strategy(given.week).rebalance
    IN  toward # "" =>
          \A r \in Physical :
            LET row == teams[toward][r]
                rest == teams[Other(toward)][r]
            IN  Len(row) <= MaxSwaps \/ Len(rest) <= MaxSwaps =>
                  \A m \in Entries(row), n \in Entries(rest) :
                      PhysicalLevel(n) - PhysicalLevel(m) < MinGap

OneAuraEach(row) ==
    \A s \in Sides : \A a, b \in LabAuras :
        /\ row.carriers[s][a] \in Fighters(row.teams[s])
        /\ a # b => row.carriers[s][a] # row.carriers[s][b]
        /\ row.carriers[s][a] \notin row.insane[s]

RowIsSound(row) ==
    /\ \A s \in Sides : TeamSize(row.teams[s]) \in 1..TeamCap
    /\ PlacesAreSound(row.teams) /\ NobodyLeftOut(row.teams)
    /\ MysticInPlace(row.teams) /\ NoGapLeft(row.teams)
    /\ OneAuraEach(row)

\* "双 Boss 人员互斥；无复制人": through cuts, overflow and exchanges nobody fights for
\* both bosses or twice for one, a team keeps to its capacity, nobody stays at home while
\* a team that may take him has room, the exchanges end where they should, every aura has
\* a carrier of its own, and no carrier is made insane.
TeamsAreSound == \A i \in DOMAIN screened : RowIsSound(screened[i])

\* "keeps hammers and nature by stealing from xbows" (weekly-combat-partition.test.mjs):
\* a side of a badger or hedgehog week that is cut keeps the roles it pins in full, where
\* they fit into a team.
PinnedRolesStay ==
    labPhase = "rebalance" /\ policies # <<>> =>
        \A side \in Sides :
            LET pool == Partition[side]
                pins == {m \in pool : Of(m).role \in Pinned(given.week)}
            IN  Cardinality(pins) <= TeamCap => pins \subseteq CapTeamPool(pool)
=============================================================================
