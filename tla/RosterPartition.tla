---------------------------- MODULE RosterPartition ----------------------------
(***************************************************************************)
(* The arithmetic of a combat week: which of its two bosses a member goes  *)
(* to, how a side is cut to the team's capacity, and who is exchanged.     *)
(* A pool gives every role a sequence of members; a week has two pools,    *)
(* one for the single-target boss ("st") and one for the swarm.  Members   *)
(* are numbers in the order of their ids.                                  *)
(***************************************************************************)
EXTENDS Integers, Sequences, FiniteSets

CONSTANTS
    RoleOrder,   \* the roles, in the order of roleOrder
    ByName,      \* the roles, as localeCompare sorts them
    Preferred,   \* NATURE_HEALER_PER_SIDE_PREFERRED
    Tenths,      \* NATURE_SWARM_RATIOS, in tenths
    Reserve,     \* COVERAGE_RESERVE
    MinGap,      \* PHYSICAL_SWAP_MIN_LEVEL_GAP
    MaxSwaps,    \* per role
    TeamCap

Entries(row) == {row[i] : i \in DOMAIN row}

\* Every role has a name; a swap that gains nothing is not one, and a team has a place.
ASSUME PartitionAssumption ==
    /\ RoleOrder \in Seq(STRING) /\ ByName \in Seq(STRING)
    /\ \A i, j \in DOMAIN RoleOrder : RoleOrder[i] = RoleOrder[j] => i = j
    /\ Entries(RoleOrder) \subseteq Entries(ByName)
    /\ Preferred \in Seq(Nat) /\ Tenths \in Seq(Nat)
    /\ Reserve \in Nat /\ MaxSwaps \in Nat
    /\ MinGap \in Nat \ {0} /\ TeamCap \in Nat \ {0}

Roles == Entries(RoleOrder)
Physical == {"bow", "crossbow", "spear", "sword", "hammer"} \cap Roles
Magic == {"fire", "water", "nature"} \cap Roles

Sides == {"st", "swarm"}
Other(side) == IF side = "st" THEN "swarm" ELSE "st"

Least(x, y) == IF x < y THEN x ELSE y
Greatest(x, y) == IF x < y THEN y ELSE x

\* pairStrategyForStKey, "" where no side is rebalanced.
Strategy(week) ==
    CASE week = "chameleon" ->
           [physical |-> "st", magic |-> "swarm", shield |-> "st", mystic |-> "swarm",
            rebalance |-> "st", healers |-> FALSE, fill |-> <<>>]
      [] week = "badger" ->
           [physical |-> "swarm", magic |-> "st", shield |-> "swarm", mystic |-> "st",
            rebalance |-> "", healers |-> TRUE,
            fill |-> <<"spear", "sword", "bow", "crossbow", "hammer">>]
      [] week = "hedgehog" ->
           [physical |-> "swarm", magic |-> "swarm", shield |-> "st", mystic |-> "swarm",
            rebalance |-> "", healers |-> TRUE,
            fill |-> <<"fire", "crossbow", "sword", "bow", "nature", "hammer">>]
      [] OTHER ->
           [physical |-> "swarm", magic |-> "st", shield |-> "swarm", mystic |-> "st",
            rebalance |-> "swarm", healers |-> FALSE, fill |-> <<>>]

\* majoritySideForRole
Majority(week, role) ==
    IF week = "hedgehog" /\ role = "spear" THEN "st"
    ELSE IF role \in {"fire", "water"} THEN Strategy(week).magic
    ELSE Strategy(week).physical

CoverageReserve(n) ==
    IF n = 0 THEN 0 ELSE IF n < 2 * Reserve THEN Greatest(1, n \div 2) ELSE Reserve

NatureSwarmCount(n, tenths) ==
    LET reserve == CoverageReserve(n)
    IN  IF n = 0 THEN 0
        ELSE Least(n - reserve, Greatest(reserve, (2 * n * tenths + 10) \div 20))

ClampHealers(n, wanted) ==
    IF n = 0 THEN 0 ELSE Least(n \div 2, Greatest(CoverageReserve(n), wanted))

-----------------------------------------------------------------------------
(* Orders.  ahead[x] are the members of S that come before x: a sorted list *)
(* is known by who is ahead of whom, and its first k are those with fewer   *)
(* than k ahead.                                                            *)

Foremost(S, ahead) == CHOOSE x \in S : ahead[x] = {}
FirstFew(S, ahead, k) == {x \in S : Cardinality(ahead[x]) < k}
InOrder(S, ahead) ==
    [i \in 1..Cardinality(S) |-> CHOOSE x \in S : Cardinality(ahead[x]) = i - 1]

ById(S) == [m \in S |-> {n \in S : n < m}]
Position(order) == [r \in Entries(order) |-> CHOOSE i \in DOMAIN order : order[i] = r]

-----------------------------------------------------------------------------
(* Which side a member goes to.                                            *)

\* natureHealerPerSideCandidates
HealerCounts(n) ==
    LET even == n \div 2
    IN  IF n = 0 \/ even < CoverageReserve(n) THEN {even}
        ELSE {v \in Entries(Preferred) : CoverageReserve(n) <= v /\ v <= even} \cup {even}

\* partitionPoliciesForStrategy: healers for the single target, or the swarm's tenths.
Policies(week, natures) ==
    IF Strategy(week).healers
    THEN InOrder(HealerCounts(natures), ById(HealerCounts(natures))) ELSE Tenths

\* assignRoleToBoss; i counts from 1.
SideOf(week, policy, role, i, n) ==
    CASE role = "shield" ->
           IF i % 2 = 1 THEN Strategy(week).shield ELSE Other(Strategy(week).shield)
      [] role = "nature" ->
           LET swarm == IF Strategy(week).healers THEN n - ClampHealers(n, policy)
                        ELSE NatureSwarmCount(n, policy)
           IN  IF i <= swarm THEN "swarm" ELSE "st"
      [] OTHER ->
           IF i <= CoverageReserve(n) THEN Other(Majority(week, role)) ELSE Majority(week, role)

-----------------------------------------------------------------------------
(* Cutting a side to the capacity.  A role of n members has the seats       *)
(* <<role, 1>> to <<role, n>>; a target is the set of the seats that stay.  *)

Held(seats, role) == Cardinality({s \in seats : s[1] = role})

\* proportionalRoleTargets: the largest remainders get what rounding down leaves; by
\* remainder, then count, then order of roles. A seat is never asked for twice.
Proportional(seats, cap) ==
    LET total == Cardinality(seats)
        Exact(s) == Held(seats, s[1]) * cap
        sure == {s \in seats : s[2] <= Exact(s) \div total}
        next == {s \in seats : s[2] = Exact(s) \div total + 1}
        Before(t, s) ==
            \/ Exact(t) % total > Exact(s) % total
            \/ /\ Exact(t) % total = Exact(s) % total
               /\ \/ Held(seats, t[1]) > Held(seats, s[1])
                  \/ /\ Held(seats, t[1]) = Held(seats, s[1])
                     /\ Position(RoleOrder)[t[1]] < Position(RoleOrder)[s[1]]
    IN  sure \cup FirstFew(next, [s \in next |-> {t \in next : Before(t, s)}],
                          cap - Cardinality(sure))

\* Which seat of a target is given up first: the last of the largest role.
GivenUpFirst(target, t, s) ==
    \/ Held(target, t[1]) > Held(target, s[1])
    \/ /\ Held(target, t[1]) = Held(target, s[1])
       /\ \/ Position(ByName)[t[1]] < Position(ByName)[s[1]]
          \/ t[1] = s[1] /\ t[2] > s[2]

\* One role of pinMinimumRoleCounts: what it lacks is taken from the largest others.
PinRole(seats, target, role, cap) ==
    LET own  == {s \in seats : s[1] = role /\ s[2] <= cap}
        rest == {s \in target : s[1] # role}
        need == Cardinality(own) - Held(target, role)
        ahead == [s \in rest |-> {t \in rest : GivenUpFirst(target, t, s)}]
    IN  IF need <= 0 THEN target ELSE own \cup (rest \ FirstFew(rest, ahead, need))

Pinned(week) ==
    {"shield"} \cup IF Strategy(week).healers THEN {"nature", "hammer", "fire", "water"} ELSE {}

\* pinMinimumRoleCounts over the roles in the order of the object's keys.
Targets(week, seats, cap) ==
    LET Pin(t, role) == IF role \in Pinned(week) THEN PinRole(seats, t, role, cap) ELSE t
        shields == Pin(Proportional(seats, cap), "shield")
        natures == Pin(shields, "nature")
        hammers == Pin(natures, "hammer")
        fires   == Pin(hammers, "fire")
    IN  Pin(fires, "water")

-----------------------------------------------------------------------------
(* Exchanges between the sides.                                            *)

Replace(row, out, in) == [i \in DOMAIN row |-> IF row[i] = out THEN in ELSE row[i]]

\* Members a of one side and b of the other change places.
Exchange(pools, role, side, a, b) ==
    [pools EXCEPT ![side][role] = Replace(@, a, b),
                  ![Other(side)][role] = Replace(@, b, a)]
=============================================================================
