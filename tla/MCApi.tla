------------------------------- MODULE MCApi -------------------------------
(* The tables of the API.  The membership ones, with three names of which  *)
(* Al may become a reporter by a restart; Al and al differ in case only.   *)
(* The weekly ones, over two weeks that share a skilling trial.  They      *)
(* meet in no table, so each behaviour uses the ones or the others; the    *)
(* commands that read the weekly ones change nothing there and are         *)
(* explored apart too: the life report; the assignments and the rooms; the *)
(* comparison with the signups, for each kind of trial, and the members    *)
(* nobody assigned.  A check is followed while its sources are up to date  *)
(* and rest; of others its property says nothing.                          *)
(* The trial runner shares nothing with the tables and is explored beside  *)
(* them: two members who strike at the same instants as the regeneration,  *)
(* the spawn and the end.  It is the deepest of all; TLC goes breadth      *)
(* first, so the others put off their start until it is over.              *)
EXTENDS MemberSnapshots, WeeklyTrials, GuildTrialRunner

CONSTANT Resting      \* members who take no part but where rooms are the focus
VARIABLES focus, wait

MCNames == {"Rep", "Al", "al"}
MCFold == [m \in MCNames |-> IF m = "Al" THEN "al" ELSE m]
MCReporterLists == {{"Rep"}, {"Rep", "Al"}}

MCSetOf == <<{1, 3}, {1, 2, 4}>>
MCCombat == {3, 4}

MCPriority == {0, 10, 20}
MCParty == <<"a", "b">>
MCInterval == [m \in {"a", "b"} |-> IF m = "a" THEN 2 ELSE 3]

Weekly == {"report", "rooms", "skilling", "combat", "cover"}

MCInit ==
    /\ SnapInit /\ WeeklyInit /\ RunnerInit
    /\ focus \in {"members", "trial"} \cup Weekly
    /\ focus \notin Weekly => dated
    /\ focus # "members" => reporters = {"Rep"}
    /\ wait = IF focus = "trial" THEN 0 ELSE 50
    /\ focus # "trial" => up = Who /\ mana = [m \in Who |-> 0]
MCNext ==
    \/ wait > 0 /\ wait' = wait - 1 /\ UNCHANGED <<snapVars, weeklyVars, allVars, focus>>
    \/ focus = "members" /\ wait = 0 /\ SnapNext /\ UNCHANGED <<weeklyVars, allVars, focus, wait>>
    \/ focus \in Weekly /\ wait = 0 /\ WeeklyNext /\ UNCHANGED <<snapVars, allVars, focus, wait>>
    \/ focus = "trial" /\ RunnerNext /\ UNCHANGED <<snapVars, weeklyVars, focus, wait>>
MCSpec == MCInit /\ [][MCNext]_<<snapVars, weeklyVars, allVars, focus, wait>>

Uploaders == {m \in Names : latest[m] # None \/ \E s \in Slots : upload[s] = m}

\* Snapshots of different members, bindings and registrations do not touch each
\* other: the snapshots of al, who may leave, or one of the other two tables are
\* explored.
MembersApart ==
    \/ Uploaders = {} /\ (bound = {} \/ registered = Nobody)
    \/ Uploaders = {"al"} /\ bound = {} /\ registered = Nobody

NoSignup(k) == \A m \in Members : signup[m][k] = Off /\ page.signup[m][k] = Off
Rests(r) == r # Null => \A m \in Resting : r.slot[m] = Off
NoRows == \A t \in Trials : regs[t] = Null

WeeksApart ==
    /\ focus \in {"report", "rooms", "cover"} =>
         NoSignup("skilling") /\ NoSignup("combat") /\ NoRows /\ dated
    /\ focus \in {"report", "rooms"} => combat = Null /\ check.at = "idle"
    /\ focus # "rooms" =>
         /\ \A m \in Resting : signup[m] = NoSignups[m]
         /\ \A k \in DOMAIN life : Rests(life[k])
         /\ \A p \in Makers : making[p] # Unmade => Rests(making[p].run)
         /\ Rests(combat)
    /\ focus # "report" => look.at = "idle" /\ making["script"] = Unmade
         /\ (report.png # report.manifest => Between)
         /\ (making["formal"] # Unmade => making["test"] = Unmade)
    /\ focus = "report" => week = 1 /\ room = 1 /\ page.of < 2
    /\ focus \in {"skilling", "combat", "cover"} =>
         /\ room = 1
         /\ check.at \in {"reading", "pick"} =>
              /\ calm /\ CatalogueIsCurrent
              /\ IF focus = "cover" THEN check.command = "cover"
                 ELSE check.command = "signups" /\ RowsAreCurrent
    /\ focus \in {"skilling", "cover"} =>
         /\ dated /\ page.set = page.of /\ (catalog # Null => ~catalog.late)
         /\ check.at # "idle" => \A p \in Makers : making[p] = Unmade
    /\ focus = "skilling" => NoSignup("combat") /\ combat = Null
    /\ focus = "combat" => NoSignup("skilling") /\ runs = 0

Apart ==
    /\ focus = "members" => MembersApart
    /\ focus \in Weekly => WeeksApart

\* A check changes nothing: what follows its answer is seen without it, but for
\* the next check.
OneCheck == check.at = "done" => check'.at = "reading"
=============================================================================
