----------------------------- MODULE MCAssignments -----------------------------
(***************************************************************************)
(* The assignments, the scripts that follow the lab and the pool of        *)
(* workers these run the trials in, checked one at a time: the variables   *)
(* of the others keep one value.                                           *)
(***************************************************************************)
EXTENDS LifeAssignment, AuraAssignment, RosterLab, WeeklyPipeline, KitSweep, SimPool

MCLifeNames == <<"a", "b", "c">>
\* Two members have one name in lower case.
MCLifeFold == [a |-> "a", A |-> "a", b |-> "b", c |-> "b"]
MCPins == {<<>>, <<[name |-> "a", trial |-> 1]>>, <<[name |-> "c", trial |-> 2]>>,
           <<[name |-> "A", trial |-> 1], [name |-> "a", trial |-> 2]>>}
MCSkills == {<<1, 0>>, <<3, 1>>, <<2, 2>>, <<1, 3>>, <<3, 3>>}
\* Three members, two trials: equal and unequal skills, kits, a missing snapshot, pins.
MCLifeInputs ==
    {[skill |-> [a |-> sa, b |-> sb, c |-> sc],
      kit |-> [a |-> <<k, 0>>, b |-> <<0, 0>>, c |-> <<0, 0>>],
      spare |-> [a |-> 1, b |-> 0, c |-> 0],
      missing |-> IF r = 2 THEN {"b"} ELSE {}, places |-> <<2, 2>>, reserve |-> <<r, 0>>,
      pins |-> p] :
        sa, sb, sc \in MCSkills, k \in {0, 2}, r \in {0, 1, 2}, p \in MCPins}
MCFloor == <<1, 2>>
MCRooms == <<1, 2>>
MCUnscaled == <<4, 7>>

MCAuraRank == <<2, 1, 3>>
MCAuraLevels == {<<2, 1, 0>>, <<1, 1, 1>>, <<2, 0, 2>>, <<3, 2, 1>>}
\* Three members and three auras; who is unknown has no snapshot either.
MCAuraInputs ==
    {<<[known |-> TRUE, snapshot |-> TRUE, role |-> r, level |-> x],
       [known |-> TRUE, snapshot |-> s, role |-> "support", level |-> y],
       [known |-> k, snapshot |-> TRUE, role |-> "", level |-> z]>> :
       r \in {"dps", "support"}, x, y, z \in MCAuraLevels,
       <<s, k>> \in {<<TRUE, TRUE>>, <<FALSE, TRUE>>, <<FALSE, FALSE>>}}

MCRoleOrder ==
    <<"bow", "crossbow", "fire", "water", "nature", "shield", "spear", "sword", "hammer">>
MCByName ==
    <<"hammer", "crossbow", "sword", "fire", "nature", "water", "bow", "spear", "shield">>
MCLabAuras == <<"guardian", "mystic">>
MCRoles1 ==
    <<"crossbow", "crossbow", "fire", "fire", "nature", "nature", "shield", "shield", "hammer">>
MCRoles2 ==
    <<"nature", "nature", "crossbow", "nature", "nature", "shield", "hammer", "hammer", "hammer">>
MCRoles3 ==
    <<"shield", "spear", "spear", "spear", "spear", "nature", "shield", "water", "spear">>
MCLevels ==
    {<<3, 1, 2, 3, 1, 2, 3, 3, 1>>, <<1, 1, 2, 3, 3, 3, 1, 2, 3>>, <<2, 3, 3, 1, 1, 1, 2, 1, 3>>}
MCMember(r, l, k, out) ==
    [role |-> r, attack |-> l, primary |-> 4 - l, weapon |-> 1, built |-> ~out,
     snapshot |-> TRUE, excluded |-> FALSE, proxy |-> l,
     aura |-> [guardian |-> IF r = "shield" THEN l + k - 2 ELSE 0,
               mystic |-> IF r \in {"fire", "nature", "water"} THEN k ELSE 0]]
\* Nine members for teams of four: both sides are cut, or one is and fills up the other.
MCLabInputs ==
    {[week |-> w, wi |-> wi, only |-> 0, top |-> [st |-> 1, swarm |-> 0],
      members |-> [i \in 1..9 |-> MCMember(rs[i], ls[i], ks[i], i = out)]] :
        w \in {"chameleon", "badger", "hedgehog", "jelly"}, wi \in BOOLEAN,
        rs \in {MCRoles1, MCRoles2, MCRoles3}, ls \in MCLevels, ks \in MCLevels, out \in {0, 2}}
MCTenths == <<4, 6>>
MCPreferred == <<1, 2>>
MCPolicyRank == [p \in 0..9 |-> p]

MCPackages(boss) ==
    IF Single(boss)
    THEN {[ranged |-> r, fire |-> "firestorm", supports |-> 1, water |-> "ice_spear"] :
             r \in {"pestilent_shot", "steady_shot"}}
    ELSE {[ranged |-> "precision", smokes |-> 2, debuffs |-> 1]}
MCPerson(side, role, proxy, gear, aura) ==
    [side |-> side, role |-> role, proxy |-> proxy, weapon |-> proxy % 3, gear |-> gear, aura |-> aura]
\* Both sides have no water; an archer and a mage carry auras, one gear is an old one.
MCPipelineInputs ==
    {[boss |-> w[1], members |-> <<
        MCPerson("st", "fire", 1, "now", FALSE), MCPerson("st", "nature", 4, "now", FALSE),
        MCPerson("st", "nature", 3, "now", FALSE), MCPerson("st", "nature", 5, "now", FALSE),
        MCPerson("st", "bow", 1, "now", TRUE), MCPerson("st", "crossbow", 2, w[2], FALSE),
        MCPerson("swarm", "nature", 1, "now", FALSE), MCPerson("swarm", "nature", 2, "now", FALSE),
        MCPerson("swarm", "fire", 2, "now", TRUE), MCPerson("swarm", "hammer", 3, "now", FALSE)>>] :
       w \in {<<"chameleon", "now">>, <<"hedgehog", "before">>, <<"badger", "none">>}}

MCSweeps ==
    {[script |-> "insanity", mode |-> "progress", counts |-> {0, 2, 4, 5}],
     [script |-> "insanity", mode |-> "bold", counts |-> {0, 2, 4, 5}],
     [script |-> "nature", mode |-> "safe", counts |-> {0, 1, 2, 3}],
     [script |-> "nature", mode |-> "safe", counts |-> {0}]}
MCResults ==
    {[wipes |-> 0, deaths |-> 0, progress |-> 1], [wipes |-> 0, deaths |-> 1, progress |-> 2],
     [wipes |-> 1, deaths |-> 2, progress |-> 2]}

-----------------------------------------------------------------------------
MCVars == <<lifeVars, auraVars, labVars, pipelineVars, sweepVars, poolVars>>

NoLife ==
    /\ input = CHOOSE i \in LifeInputs : i.pins = <<>>
    /\ rosters = [t \in Trials |-> <<>>] /\ assigned = <<>> /\ pinned = {}
    /\ phase = "off" /\ pass = <<>>
NoAura == shown = <<>> /\ candidates = <<>> /\ order = <<>> /\ path = <<>> /\ best = <<>> /\ step = "off"
NoLab ==
    /\ given = <<>> /\ usable = <<>> /\ policies = <<>> /\ capped = <<>> /\ swaps = <<>>
    /\ carriers = <<>> /\ screened = <<>> /\ labPhase = "off"
NoPipeline == week = <<>> /\ file = <<>> /\ running = <<>> /\ writes = 0
NoSweep ==
    /\ sweep = <<>> /\ shortRuns = {} /\ queue = {} /\ verified = {} /\ winner = <<>>
    /\ sweepPhase = "off"

\* A pool that is closed before it is used: nothing more can happen in it.
NoPool ==
    /\ idle = <<>> /\ backlog = <<>> /\ pending = [w \in Workers |-> NoTask]
    /\ inbox = [w \in Workers |-> <<>>] /\ outbox = [w \in Workers |-> <<>>]
    /\ life = [w \in Workers |-> "closed"]
    /\ status = [t \in Tasks |-> "new"] /\ settledBy = [t \in Tasks |-> NoTask]

MCInit ==
    \/ LifeInit /\ NoAura /\ NoLab /\ NoPipeline /\ NoSweep /\ NoPool
    \/ NoLife /\ AuraInit /\ NoLab /\ NoPipeline /\ NoSweep /\ NoPool
    \/ NoLife /\ NoAura /\ LabInit /\ NoPipeline /\ NoSweep /\ NoPool
    \/ NoLife /\ NoAura /\ NoLab /\ PipelineInit /\ NoSweep /\ NoPool
    \/ NoLife /\ NoAura /\ NoLab /\ NoPipeline /\ SweepInit /\ NoPool
    \/ NoLife /\ NoAura /\ NoLab /\ NoPipeline /\ NoSweep /\ PoolInit

OneLife ==
    Working /\ LifeNext /\ UNCHANGED <<auraVars, labVars, pipelineVars, sweepVars, poolVars>>
OneAura ==
    step # "off" /\ AuraNext /\ UNCHANGED <<lifeVars, labVars, pipelineVars, sweepVars, poolVars>>
OneLab ==
    labPhase # "off" /\ LabNext /\ UNCHANGED <<lifeVars, auraVars, pipelineVars, sweepVars, poolVars>>
OnePipeline ==
    week # <<>> /\ PipelineNext /\ UNCHANGED <<lifeVars, auraVars, labVars, sweepVars, poolVars>>
OneSweep ==
    sweepPhase # "off" /\ SweepNext /\ UNCHANGED <<lifeVars, auraVars, labVars, pipelineVars, poolVars>>
OnePool == PoolNext /\ UNCHANGED <<lifeVars, auraVars, labVars, pipelineVars, sweepVars>>

MCNext == OneLife \/ OneAura \/ OneLab \/ OnePipeline \/ OneSweep \/ OnePool

MCSpec == MCInit /\ [][MCNext]_MCVars /\ LifeFairness /\ PoolFairness
=============================================================================
