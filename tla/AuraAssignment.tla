---------------------------- MODULE AuraAssignment ----------------------------
(***************************************************************************)
(* allocateUniqueAuras: who of a combat trial's registered members casts   *)
(* which of the auras that only one of a team may bring. A depth-first     *)
(* search over the auras, those with the fewest candidates first, leaves a *)
(* branch when its optimistic bound is below the best answer so far.       *)
(*                                                                         *)
(* An input is chosen at the start; what follows is deterministic. The     *)
(* recursion of visit is the path of choices tried so far: for each aura   *)
(* reached Nobody or one of its candidates.                                *)
(***************************************************************************)
EXTENDS Integers, Sequences, FiniteSets

CONSTANTS
    Auras,        \* numbers, in the order of UNIQUE_AURAS; their ids sort by AuraRank
    AuraRank,
    Registered,   \* numbers of the members, in the order of their names
    AuraInputs

ASSUME AuraAssumption ==
    /\ Auras \in SUBSET Nat /\ IsFiniteSet(Auras) /\ Auras # {}
    /\ AuraRank \in [Auras -> Nat]
    /\ Registered \in SUBSET (Nat \ {0}) /\ IsFiniteSet(Registered)
    /\ AuraInputs \subseteq
         [Registered -> [known : BOOLEAN, snapshot : BOOLEAN, role : STRING, level : [Auras -> Nat]]]

VARIABLES
    shown,        \* per registered member: directory, snapshot, role and levels by aura
    candidates,   \* candidatesByAura
    order,        \* auraOrder
    path,         \* the choices of the calls of visit that are open
    best,         \* per aura a candidate or Nobody; Unset before the first answer
    step          \* enter, return or done

auraVars == <<shown, candidates, order, path, best, step>>

Nobody == [member |-> 0, level |-> 0]
Unset == <<>>

UnknownMembers == {m \in Registered : ~shown[m].known}
MissingSnapshots == {m \in Registered \ UnknownMembers : ~shown[m].snapshot}

\* rolePriority
RolePriority(role) ==
    CASE role = "support" -> 0 [] role = "tank" -> 1 [] role = "" -> 2 [] OTHER -> 3

\* compareCandidates: level, then role, then name.
Sooner(a, m, n) ==
    LET l == shown[m].level[a]
        k == shown[n].level[a]
        p == RolePriority(shown[m].role)
        q == RolePriority(shown[n].role)
    IN  l > k \/ (l = k /\ (p < q \/ (p = q /\ m < n)))

\* Those of the directory whose snapshot has a level for the aura.
CandidatesFor(a) ==
    {[member |-> m, level |-> shown[m].level[a]] :
        m \in {n \in Registered \ (UnknownMembers \cup MissingSnapshots) : shown[n].level[a] > 0}}

\* auraOrder is sorted so: the auras with the fewest candidates come first.
Sorted(seq) ==
    \A i, j \in DOMAIN seq : i < j =>
        LET n == Cardinality(candidates[seq[i]])
            k == Cardinality(candidates[seq[j]])
        IN  n < k \/ (n = k /\ AuraRank[seq[i]] < AuraRank[seq[j]])

-----------------------------------------------------------------------------
\* The place of an aura in the order.
Place(a) == CHOOSE k \in DOMAIN order : order[k] = a

\* partialChoices, by aura.
Partial == [a \in Auras |-> IF Place(a) \in DOMAIN path THEN path[Place(a)] ELSE Nobody]

Used(p) == {p[k].member : k \in DOMAIN p} \ {0}

\* What choices leave possible, by aura: their own candidate.
Own(choices) == [a \in Auras |-> {choices[a]} \ {Nobody}]

\* The number of auras with a candidate, and the sum of their highest levels.
Covered(possible) == Cardinality({a \in Auras : possible[a] # {}})
Total(possible) ==
    Cardinality(UNION {{a} \X UNION {1..c.level : c \in possible[a]} : a \in Auras})
Minimum(choices) ==
    LET levels == {choices[a].level : a \in Auras} \ {0}
    IN  IF levels = {} THEN 0 ELSE CHOOSE l \in levels : \A k \in levels : l <= k

\* The strings of score's tie: the first aura that differs decides, "~" is the last.
TieBefore(x, y) ==
    \E a \in Auras :
        /\ \A b \in Auras : b < a => x[b].member = y[b].member
        /\ x[a].member # 0 /\ (y[a].member = 0 \/ x[a].member < y[a].member)

\* isBetter
IsBetter(x, y) ==
    \/ y = Unset
    \/ Covered(Own(x)) > Covered(Own(y))
    \/ /\ Covered(Own(x)) = Covered(Own(y))
       /\ \/ Total(Own(x)) > Total(Own(y))
          \/ /\ Total(Own(x)) = Total(Own(y))
             /\ \/ Minimum(x) > Minimum(y)
                \/ Minimum(x) = Minimum(y) /\ TieBefore(x, y)

\* optimisticBound: every aura left may get any of its candidates who is free.
Possible ==
    [a \in Auras |-> IF Place(a) \in DOMAIN path THEN {path[Place(a)]} \ {Nobody}
                     ELSE {c \in candidates[a] : c.member \notin Used(path)}]
Bound == [covered |-> Covered(Possible), total |-> Total(Possible)]

\* Mutant: what can only be as good is left too.
PrunedMutant ==
    /\ best # Unset
    /\ \/ Bound.covered < Covered(Own(best))
       \/ Bound.covered = Covered(Own(best)) /\ Bound.total <= Total(Own(best))
Pruned ==
    /\ best # Unset
    /\ \/ Bound.covered < Covered(Own(best))
       \/ Bound.covered = Covered(Own(best)) /\ Bound.total < Total(Own(best))

AuraInit ==
    /\ shown \in AuraInputs
    /\ candidates = [a \in Auras |-> CandidatesFor(a)]
    /\ order \in {seq \in [1..Cardinality(Auras) -> Auras] :
                    (\A a \in Auras : \E k \in DOMAIN seq : seq[k] = a) /\ Sorted(seq)}
    /\ path = <<>> /\ best = Unset /\ step = "enter"

\* visit is called: it returns at once, records an answer, or tries the aura without a caster.
Enter ==
    /\ step = "enter"
    /\ \/ Pruned /\ step' = "return" /\ UNCHANGED <<path, best>>
       \/ /\ ~Pruned /\ Len(path) = Len(order)
          /\ best' = IF IsBetter(Partial, best) THEN Partial ELSE best
          /\ step' = "return" /\ path' = path
       \/ /\ ~Pruned /\ Len(path) < Len(order)
          /\ path' = Append(path, Nobody) /\ UNCHANGED <<best, step>>
    /\ UNCHANGED <<shown, candidates, order>>

Back == SubSeq(path, 1, Len(path) - 1)

\* The candidates after the last one who are free, in the order of the aura.
Later == LET a == order[Len(path)]
            last == path[Len(path)]
        IN  {c \in candidates[a] : /\ last = Nobody \/ Sooner(a, last.member, c.member)
                                   /\ c.member \notin Used(Back)}

\* visit returned: the next candidate of the aura, or back to its caller.
Return ==
    /\ step = "return"
    /\ \/ path = <<>> /\ step' = "done" /\ path' = path
       \/ path # <<>> /\ Later = {} /\ path' = Back /\ step' = step
       \/ /\ path # <<>>
          /\ \E c \in Later :
               /\ \A d \in Later \ {c} : Sooner(order[Len(path)], c.member, d.member)
               /\ path' = Append(Back, c)
          /\ step' = "enter"
    /\ UNCHANGED <<shown, candidates, order, best>>

AuraNext == Enter \/ Return

AuraSpec == AuraInit /\ [][AuraNext]_auraVars

-----------------------------------------------------------------------------
(* Properties                                                              *)

\* Everybody casts one aura at most, and only one he has.
Allocations ==
    LET casters == [a \in Auras |-> candidates[a] \cup {Nobody}]
    IN  {c \in [Auras -> UNION {casters[a] : a \in Auras}] :
            /\ \A a \in Auras : c[a] \in casters[a]
            /\ \A a, b \in Auras : a # b /\ c[a] # Nobody => c[a].member # c[b].member}

\* The branches left out of the search, in whatever order the auras are tried, never hold
\* the best allocation: most auras covered, then most levels, then the highest lowest one.
AllocationIsBest ==
    step = "done" =>
        /\ best \in Allocations
        /\ \A c \in Allocations : c = best \/ IsBetter(best, c)
=============================================================================
