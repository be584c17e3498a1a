------------------------------- MODULE KitSweep -------------------------------
(***************************************************************************)
(* The sweeps of ab-insanity-top-dps and ab-nature-healer-to-dps for one   *)
(* boss: every number x of changed kits is simulated once and shortly, a   *)
(* few of them go on to three full runs, and the best of these is what the *)
(* operator applies.  A result tells the runs that end in a party wipe,    *)
(* the deaths, and the progress; simulations yield any of Results.         *)
(***************************************************************************)
EXTENDS Integers, FiniteSets

CONSTANTS
    Sweeps,     \* the script, the boss's mode, and the numbers it tries
    Results, Finalists, MaxDeaths

\* The nature script is the safe one; counts are numbers of members.
ASSUME SweepAssumption ==
    /\ \A s \in Sweeps : /\ s.counts \in SUBSET Nat /\ IsFiniteSet(s.counts)
                         /\ s.mode \in {"progress", "bold", "safe"}
                         /\ s.script \in {"insanity", "nature"}
                         /\ s.script = "nature" <=> s.mode = "safe"
    /\ \A r \in Results : r.wipes \in Nat /\ r.deaths \in Int /\ r.progress \in Int
    /\ Finalists \in Nat \ {0} /\ MaxDeaths \in Int

VARIABLES
    sweep,      \* which script and mode, and its counts
    shortRuns,  \* their rows, one for each number
    queue,      \* the candidates for the full runs
    verified,   \* their results
    winner,
    sweepPhase

sweepVars == <<sweep, shortRuns, queue, verified, winner, sweepPhase>>

Row(x, r) == [count |-> x, wipes |-> r.wipes, deaths |-> r.deaths, progress |-> r.progress]

\* progressFirstScore: a wipe weighs more than all progress.
Progressed(x, y) ==
    \/ x.wipes < y.wipes
    \/ x.wipes = y.wipes /\ (x.progress > y.progress \/ (x.progress = y.progress /\ x.count > y.count))

\* compareMaxNoWipe
Boldest(x, y) ==
    IF (x.wipes > 0) # (y.wipes > 0) THEN x.wipes = 0 ELSE x.count > y.count

\* compareVerified of the nature script; its score knows no wipe.
Safest(x, y) ==
    \/ x.deaths < y.deaths
    \/ x.deaths = y.deaths /\ (x.progress > y.progress \/ (x.progress = y.progress /\ x.count > y.count))

Better(mode, x, y) ==
    CASE mode = "progress" -> Progressed(x, y)
      [] mode = "bold" -> Boldest(x, y)
      [] mode = "safe" -> Safest(x, y)

\* noWipeCountsDescending: those that live, the highest first; of those that wipe the lowest.
Alive(rows) == {r \in rows : r.wipes = 0}
\* Mutant: the numbers go up.
NextNoWipeMutant(x, y) == x.count < y.count
NextNoWipe(x, y) == IF Alive(shortRuns) # {} THEN x.count > y.count ELSE x.count < y.count

\* The nature script prefers those without too many deaths.
Surviving(rows) == {r \in rows : r.deaths <= MaxDeaths}

\* The candidates, all in bold mode, else the first three.
Head3(rows) ==
    {r \in rows : Cardinality({q \in rows : Better(sweep.mode, q, r)}) < Finalists}

SweepInit ==
    /\ sweep \in Sweeps
    /\ shortRuns = {} /\ queue = {} /\ verified = {} /\ winner = <<>> /\ sweepPhase = "screen"

\* The short runs of all counts; they end in any order and are ranked when all have.
Simulate ==
    /\ sweepPhase = "screen"
    /\ \E x \in sweep.counts, r \in Results :
         /\ \A q \in shortRuns : q.count # x
         /\ shortRuns' = shortRuns \cup {Row(x, r)}
    /\ UNCHANGED <<sweep, queue, verified, winner, sweepPhase>>

AllCounted == \A x \in sweep.counts : \E r \in shortRuns : r.count = x

RankInsanity ==
    /\ sweepPhase = "screen" /\ AllCounted /\ sweep.script = "insanity"
    /\ queue' = IF sweep.mode # "bold" THEN Head3(shortRuns)
                ELSE IF Alive(shortRuns) # {} THEN Alive(shortRuns) ELSE shortRuns
    /\ sweepPhase' = "verify"
    /\ UNCHANGED <<sweep, shortRuns, verified, winner>>

RankNature ==
    /\ sweepPhase = "screen" /\ AllCounted /\ sweep.script = "nature"
    /\ queue' = Head3(IF Surviving(shortRuns) # {} THEN Surviving(shortRuns) ELSE shortRuns)
    /\ sweepPhase' = "verify"
    /\ UNCHANGED <<sweep, shortRuns, verified, winner>>

\* x is a candidate before y.
Ahead(x, y) == IF sweep.mode = "bold" THEN NextNoWipe(x, y) ELSE Better(sweep.mode, x, y)

\* Three full runs of the next candidate; the bold mode ends with the first that lives.
Verify ==
    /\ sweepPhase = "verify"
    /\ \E next \in queue, r \in Results :
         /\ \A q \in queue \ {next} : Ahead(next, q)
         /\ verified' = verified \cup {Row(next.count, r)}
         /\ queue' = IF sweep.mode = "bold" /\ r.wipes = 0 THEN {} ELSE queue \ {next}
    /\ UNCHANGED <<sweep, shortRuns, winner, sweepPhase>>

\* verified is sorted, its first row is the winner.
Winner ==
    /\ sweepPhase = "verify" /\ queue = {}
    /\ winner' \in {v \in verified : \A u \in verified \ {v} : Better(sweep.mode, v, u)}
    /\ sweepPhase' = "done"
    /\ UNCHANGED <<sweep, shortRuns, queue, verified>>

SweepNext == Simulate \/ RankInsanity \/ RankNature \/ Verify \/ Winner

SweepSpec == SweepInit /\ [][SweepNext]_sweepVars

-----------------------------------------------------------------------------
\* "1800s 无团灭的 x 从高到低做 3600s×3，碰到第一个三 seed 都不团灭的就停": a bold sweep
\* names the highest x that lives through the short run and the full ones, and it names
\* one that wipes only when each it could try does. "优先 0 死的 x": the others let only
\* those into the finals who beat all who stay out, name nobody whom another one in
\* the finals beats, and none who dies too often in the short run while another does not.
SweepNamesTheBest ==
    sweepPhase = "done" =>
        LET Tried(r) == \E v \in verified : v.count = r.count
            short == CHOOSE r \in shortRuns : r.count = winner.count
        IN  /\ winner \in verified
            /\ \A v \in verified \ {winner} : ~Better(sweep.mode, v, winner)
            /\ sweep.mode = "bold" =>
                 \A r \in shortRuns : r.wipes = 0 =>
                     /\ r.count > winner.count =>
                          Tried(r) /\ \A v \in verified : v.count = r.count => v.wipes > 0
                     /\ winner.wipes > 0 => Tried(r)
                     /\ short.wipes = 0
            /\ sweep.mode # "bold" =>
                 \A r, s \in shortRuns : Tried(s) /\ ~Tried(r) => Better(sweep.mode, s, r)
            /\ sweep.mode = "safe" =>
                 \A r \in shortRuns : r.deaths <= MaxDeaths => short.deaths <= MaxDeaths
=============================================================================
