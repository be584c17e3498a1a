---------------------------- MODULE LifeAssignment ----------------------------
(***************************************************************************)
(* generateLifeAssignmentRun: which member goes to which skilling trial.   *)
(* The pins of the environment come first, then whoever adds most, one by  *)
(* one, then exchanges of two members for as long as one helps.            *)
(*                                                                         *)
(* An input is chosen at the start; what follows is deterministic.  Levels,*)
(* bonuses and progress are small integers that keep the shape of the      *)
(* formulas: a room above a member's level costs twice what one below      *)
(* brings, work grows with level and efficiency, what a room demands with  *)
(* the number of participants.  Times and shares are exact fractions where *)
(* the code has floating-point numbers.                                    *)
(***************************************************************************)
EXTENDS Integers, SequencesExt

CONSTANTS
    Names,       \* the members, in the order of the API's answer
    Fold,        \* names in lower case
    Trials,      \* 1..n, in the order of the catalogue
    Floor,       \* lowest level for a trial, by trial
    Rooms,       \* the levels of the rooms
    Unscaled,    \* what a room demands of nobody
    Share,       \* participants for whom it doubles (100 in the code)
    Full,        \* success where level and room agree
    Certain,     \* the success that is a certain one
    LifeInputs

\* A member is listed once; every trial has places, and pins name the week's trials.
ASSUME LifeAssumption ==
    /\ Trials \subseteq Nat
    /\ Names \in Seq(DOMAIN Fold)
    /\ \A j, k \in DOMAIN Names : Names[j] = Names[k] => j = k
    /\ \A i \in LifeInputs : /\ i.pins \in Seq([name : DOMAIN Fold, trial : Trials])
                             /\ i.places \in [Trials -> Nat \ {0}]
                             /\ i.reserve \in [Trials -> Nat]

None == 0

VARIABLES
    input,       \* skill, kit, spare, missing, places, reserve, pins
    rosters,     \* per trial, its members
    assigned,    \* Set of assigned members, in order of insertion
    pinned,      \* pinnedMemberIds
    phase,
    pass         \* the pin at hand, i; of improveBySwaps the indices and improved

lifeVars == <<input, rosters, assigned, pinned, phase, pass>>

-----------------------------------------------------------------------------
(* Members and rooms.                                                      *)

\* The loadout of the trial's activity, if it has equipment, or the one for all.
Gear(m, t) ==
    IF input.kit[m][t] # None THEN input.kit[m][t] ELSE input.spare[m]

\* buildLifeTrialMemberStats yields something.
Qualifies(m, t) == input.skill[m][t] > 0 /\ input.skill[m][t] >= Floor[t]

Success(level, room) ==
    LET s == IF level >= room THEN Full + (level - room) ELSE Full - 2 * (room - level)
    IN  IF s < 0 THEN 0 ELSE IF s > Certain THEN Certain ELSE s

WorkForce(m, t) == input.skill[m][t] + Gear(m, t)

\* What the participants get done in an hour.
Rate(roster, t, room) ==
    FoldSeq(LAMBDA m, sum : sum + Success(input.skill[m][t], room) * WorkForce(m, t), 0, roster)

Required(k, participants) == (Unscaled[k] * (Share + participants)) \div Share

Fraction(n, d) ==
    LET g == Max({i \in 1..d : d % i = 0 /\ n % i = 0}) IN [n |-> n \div g, d |-> d \div g]
Zero == [n |-> 0, d |-> 1]
Plus(x, y) == Fraction(x.n * y.d + y.n * x.d, x.d * y.d)
Minus(x, y) == Fraction(x.n * y.d - y.n * x.d, x.d * y.d)

\* simulateLifeTrialExpected: the rooms one after the other until the hour is over.
Climb(roster, t) ==
    LET climb[k \in 0..Len(Rooms)] ==
          IF k = 0 THEN [cleared |-> 0, left |-> [n |-> 1, d |-> 1], share |-> Zero, over |-> FALSE]
          ELSE LET s == climb[k - 1]
                   need == Required(k, Len(roster))
                   rate == Rate(roster, t, Rooms[k])
               IN  IF s.over \/ s.left.n = 0 \/ rate = 0 THEN [s EXCEPT !.over = TRUE]
                   ELSE IF need * s.left.d <= rate * s.left.n
                   THEN [s EXCEPT !.cleared = @ + 1,
                                  !.left = Minus(@, Fraction(need, rate))]
                   ELSE [s EXCEPT !.over = TRUE,
                                  !.share = Fraction(rate * s.left.n, s.left.d * need)]
    IN  climb[Len(Rooms)]

\* simScore, points by the hundred.
Score(roster, t) ==
    IF roster = <<>> THEN [points |-> 0, levels |-> 0, share |-> Zero]
    ELSE LET c == Climb(roster, t) IN
         [points |-> IF c.cleared = 0 THEN 0 ELSE 2 + (c.cleared - 1),
          levels |-> c.cleared, share |-> c.share]

Gain(after, before) ==
    [points |-> after.points - before.points, levels |-> after.levels - before.levels,
     share |-> Minus(after.share, before.share)]

IsPositive(gain) == gain.points > 0 \/ gain.levels > 0 \/ gain.share.n > 0

\* compareAssignmentGain(x, y) > 0
Above(x, y) ==
    IF x.points # y.points THEN x.points > y.points
    ELSE IF x.levels # y.levels THEN x.levels > y.levels
    ELSE Minus(x.share, y.share).n > 0

\* totalObjective
Objective(rs) ==
    FoldSet(LAMBDA t, sum :
              LET s == Score(rs[t], t) IN
              [points |-> sum.points + s.points, levels |-> sum.levels + s.levels,
               share |-> Plus(sum.share, s.share)],
            [points |-> 0, levels |-> 0, share |-> Zero], Trials)

-----------------------------------------------------------------------------
Listed(seq) == {seq[k] : k \in DOMAIN seq}

\* Members with a snapshot, not left out, with a trial they qualify for; by their places.
Candidates ==
    {k \in DOMAIN Names : Names[k] \notin input.missing /\ \E t \in Trials : Qualifies(Names[k], t)}

\* Reserved places are kept free, except for the last one.
Places(t) ==
    LET open == input.places[t] - input.reserve[t] IN IF open > 1 THEN open ELSE 1

HasRoom(t) == Len(rosters[t]) < Places(t)

LifeInit ==
    /\ input \in LifeInputs
    /\ rosters = [t \in Trials |-> <<>>] /\ assigned = <<>> /\ pinned = {}
    /\ phase = "pin" /\ pass = [i |-> 1, j |-> 2, improved |-> FALSE]

\* A pin's name is looked up among the candidates, whatever its case; the first counts.
Meant(pin) == {k \in Candidates : Fold[Names[k]] = Fold[pin.name]}
First(pin) == Names[CHOOSE k \in Meant(pin) : \A j \in Meant(pin) : k <= j]

Assign(m, t) ==
    /\ rosters' = [rosters EXCEPT ![t] = Append(@, m)]
    /\ assigned' = IF m \in Listed(assigned) THEN assigned ELSE Append(assigned, m)

\* The pin names nobody, or somebody who is too weak, or a trial that is full.
Fails(pin) == Meant(pin) = {} \/ ~Qualifies(First(pin), pin.trial) \/ ~HasRoom(pin.trial)

\* One round of applyPinnedAssignments.
Pin ==
    /\ phase = "pin" /\ pass.i \in DOMAIN input.pins
    /\ LET pin == input.pins[pass.i] IN
       \/ Fails(pin) /\ phase' = "refused" /\ UNCHANGED <<rosters, assigned, pinned, pass>>
       \/ /\ ~Fails(pin) /\ Assign(First(pin), pin.trial)
          /\ pinned' = pinned \cup {First(pin)}
          /\ pass' = [pass EXCEPT !.i = @ + 1] /\ phase' = phase
    /\ UNCHANGED input

StartGreedy ==
    /\ phase = "pin" /\ pass.i > Len(input.pins)
    /\ phase' = "greedy" /\ pass' = [pass EXCEPT !.i = 1]
    /\ UNCHANGED <<input, rosters, assigned, pinned>>

Marginal(m, t) == Gain(Score(Append(rosters[t], m), t), Score(rosters[t], t))

\* What a member can add where, as the scan meets it: by member, then by trial.
Options ==
    LET free(t) == {k \in Candidates : Names[k] \notin Listed(assigned) /\ Qualifies(Names[k], t)}
    IN  UNION {{[k |-> k, t |-> t, gain |-> Marginal(Names[k], t)] : k \in free(t)} :
                  t \in {u \in Trials : HasRoom(u)}}

\* The scan keeps the first of equals.
Before(o, p) == o.k < p.k \/ (o.k = p.k /\ o.t <= p.t)

Greedy ==
    /\ phase = "greedy"
    /\ LET some == {o \in Options : IsPositive(o.gain)}
           best == {o \in some : ~\E p \in some : Above(p.gain, o.gain)}
       IN  IF some = {}
           THEN phase' = "swap" /\ UNCHANGED <<rosters, assigned>>
           ELSE /\ \E first \in best : /\ \A p \in best : Before(first, p)
                                       /\ Assign(Names[first.k], first.t)
                /\ phase' = phase
    /\ UNCHANGED <<input, pinned, pass>>

\* findTrialForMember: the first roster he is in.
TrialOf(m) ==
    LET his == {t \in Trials : m \in Listed(rosters[t])} IN CHOOSE t \in his : \A u \in his : t <= u

SwapIn(roster, a, b) == [k \in DOMAIN roster |-> IF roster[k] = a THEN b ELSE roster[k]]

Swapped(a, b) ==
    [rosters EXCEPT ![TrialOf(a)] = SwapIn(@, a, b), ![TrialOf(b)] = SwapIn(@, b, a)]

\* Mutant: pins count while the pins are placed only.
MayMoveMutant(a, b) ==
    /\ TrialOf(a) # TrialOf(b) /\ Qualifies(a, TrialOf(b)) /\ Qualifies(b, TrialOf(a))
MayMove(a, b) ==
    /\ a \notin pinned /\ b \notin pinned
    /\ TrialOf(a) # TrialOf(b) /\ Qualifies(a, TrialOf(b)) /\ Qualifies(b, TrialOf(a))

\* Mutant: an exchange that changes nothing is an improvement.
HelpsMutant(a, b) == ~Above(Objective(rosters), Objective(Swapped(a, b)))
Helps(a, b) == Above(Objective(Swapped(a, b)), Objective(rosters))

\* One pair of the loops of improveBySwaps.
Swap ==
    /\ phase = "swap" /\ pass.j <= Len(assigned)
    /\ LET a == assigned[pass.i]
           b == assigned[pass.j]
           better == MayMove(a, b) /\ Helps(a, b)
           next == IF pass.j < Len(assigned) THEN [pass EXCEPT !.j = @ + 1]
                   ELSE [pass EXCEPT !.i = @ + 1, !.j = pass.i + 2]
       IN  /\ rosters' = IF better THEN Swapped(a, b) ELSE rosters
           /\ pass' = [next EXCEPT !.improved = @ \/ better]
    /\ UNCHANGED <<input, assigned, pinned, phase>>

EndPass ==
    /\ phase = "swap" /\ pass.j > Len(assigned)
    /\ pass' = [i |-> 1, j |-> 2, improved |-> FALSE]
    /\ phase' = IF pass.improved THEN "swap" ELSE "done"
    /\ UNCHANGED <<input, rosters, assigned, pinned>>

LifeNext == Pin \/ StartGreedy \/ Greedy \/ Swap \/ EndPass

Working == phase \in {"pin", "greedy", "swap"}

\* The optimizer runs to its end: WF_lifeVars(LifeNext), whose step is enabled while it
\* is Working, written without ENABLED, which TLC evaluates slowly here.
LifeFairness == []<>~Working \/ []<><<LifeNext>>_lifeVars
LifeSpec == LifeInit /\ [][LifeNext]_lifeVars /\ LifeFairness

-----------------------------------------------------------------------------
(* Properties                                                              *)

\* A member whom two pins name, in two spellings.
PinnedTwice(m) ==
    \E i, j \in DOMAIN input.pins :
        i # j /\ Fold[input.pins[i].name] = Fold[m] /\ Fold[input.pins[j].name] = Fold[m]

\* One seat in all the trials.
SeatedOnce(m) ==
    \A t, u \in Trials : \A j \in DOMAIN rosters[t], k \in DOMAIN rosters[u] :
        rosters[t][j] = m /\ rosters[u][k] = m => t = u /\ j = k

\* Through pins, choices and exchanges no trial gets more members than its unreserved
\* places, nobody goes to two trials unless two pins name him, nobody goes where his
\* level is too low or without a snapshot, and a pinned member stays where he is pinned.
AssignmentIsLegal ==
    /\ \A t \in Trials : /\ Len(rosters[t]) <= Places(t)
                         /\ \A m \in Listed(rosters[t]) : Qualifies(m, t) /\ m \notin input.missing
    /\ \A m \in Listed(Names) :
         /\ m \in Listed(assigned) <=> \E t \in Trials : m \in Listed(rosters[t])
         /\ SeatedOnce(m) \/ PinnedTwice(m)
    /\ phase \in {"greedy", "swap", "done"} =>
         \A i \in DOMAIN input.pins : First(input.pins[i]) \in Listed(rosters[input.pins[i].trial])

\* The optimizer answers, and what it answers no exchange of two members improves:
\* every exchange raises the objective, so the passes of improveBySwaps end.
NoSwapHelps == \A a, b \in Listed(assigned) : MayMove(a, b) => ~Helps(a, b)
EndsWhereNoSwapHelps == Working ~> (phase = "refused" \/ (phase = "done" /\ NoSwapHelps))
=============================================================================
